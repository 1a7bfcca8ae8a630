------------------------------ MODULE Vacancies ------------------------------
(***************************************************************************)
(* The page on which an employer posts a job (app/post-job/page.tsx), with *)
(* UsersService's company and JobsService.create.  A job is named after    *)
(* the call that posted it.                                                *)
(*                                                                         *)
(* A visit of the page looks for the employer's company first, asks for    *)
(* one if there is none, then shows the form, then the published job.  The *)
(* employer may come back, or reload, at any time.                         *)
(***************************************************************************)
EXTENDS Pages

VARIABLES
  hasCompany,    (* "unknown", "no" or "yes"                                 *)
  checkError,    (* the company could not be looked for                      *)
  categories,    (* the categories have arrived                              *)
  companyLoading, publishing,  (* the two forms' buttons wait                *)
  publishedId,   (* the job that the page says is published, or None         *)
  companyRow,    (* the employer has a Company row                           *)
  jobRows,       (* the Job rows                                             *)
  post,          (* how far each call is                                     *)
  visit,         (* the calls of this visit                                  *)
  unheard,       (* those of them whose answer was lost                      *)
  postActs       (* how much was done without a call                         *)

postView == <<hasCompany, checkError, categories, companyLoading, publishing, publishedId>>
postRows == <<companyRow, jobRows>>
postVars == <<postView, postRows, post, visit, unheard, postActs>>

PostPlaces == {"start", "check", "none", "some",
               "company", "created", "taken", "job", "create", "posted", "refused", "ended"}

PostTypeOK ==
  /\ hasCompany \in {"unknown", "no", "yes"}
  /\ checkError \in BOOLEAN /\ categories \in BOOLEAN
  /\ companyLoading \in BOOLEAN /\ publishing \in BOOLEAN
  /\ publishedId \in Calls \cup {None}
  /\ companyRow \in BOOLEAN /\ jobRows \subseteq Calls
  /\ post \in [Calls -> PostPlaces]
  /\ visit \subseteq Calls /\ unheard \subseteq visit
  /\ postActs \in 0..MaxActs

PostInit ==
  /\ hasCompany = "unknown"
  /\ checkError = FALSE /\ categories = FALSE
  /\ companyLoading = FALSE /\ publishing = FALSE
  /\ publishedId = None
  /\ companyRow \in BOOLEAN /\ jobRows = {}
  /\ post = [c \in Calls |-> "start"]
  /\ visit = {} /\ unheard = {}
  /\ postActs = 0

PostMoves(c, place) == post' = [post EXCEPT ![c] = place]

(* The page waits for the answer to c.                                     *)
Awaited(c) == c \in visit \ unheard

(* The server has work on c, whether or not anybody waits.                 *)
Under(c) == post[c] \in {"company", "job", "create"}

-----------------------------------------------------------------------------
(* The company *)

Checking == \E c \in visit : post[c] \in {"check", "none", "some"}

(* When the page opens, and when the employer tries again.                 *)
CheckCompany(c) ==
  /\ post[c] = "start"
  /\ hasCompany = "unknown" /\ ~Checking
  /\ checkError' = FALSE
  /\ PostMoves(c, "check")
  /\ visit' = visit \cup {c}
  /\ UNCHANGED <<hasCompany, categories, companyLoading, publishing, publishedId, postRows,
                 unheard, postActs>>

GetCompany(c) ==
  /\ post[c] = "check"
  /\ PostMoves(c, IF companyRow THEN "some" ELSE "none")
  /\ UNCHANGED <<postView, postRows, visit, unheard, postActs>>

CompanyChecked(c) ==
  /\ post[c] \in {"none", "some"} /\ Awaited(c)
  /\ hasCompany' = IF post[c] = "some" THEN "yes" ELSE "no"
  /\ PostMoves(c, "ended")
  /\ UNCHANGED <<checkError, categories, companyLoading, publishing, publishedId, postRows,
                 visit, unheard, postActs>>

(* An error, or no answer within a minute.                                 *)
CheckFails(c) ==
  /\ post[c] \in {"check", "none", "some"} /\ Awaited(c)
  /\ checkError' = TRUE
  /\ PostMoves(c, "ended")
  /\ UNCHANGED <<hasCompany, categories, companyLoading, publishing, publishedId, postRows,
                 visit, unheard, postActs>>

CompanyFormOpen == hasCompany = "no"

CreateCompany(c) ==
  /\ post[c] = "start"
  /\ CompanyFormOpen /\ ~companyLoading
  /\ companyLoading' = TRUE
  /\ PostMoves(c, "company")
  /\ visit' = visit \cup {c}
  /\ UNCHANGED <<hasCompany, checkError, categories, publishing, publishedId, postRows,
                 unheard, postActs>>

(* The unique user of a company refuses a second one.                      *)
StoreCompany(c) ==
  /\ post[c] = "company"
  /\ companyRow' = TRUE
  /\ PostMoves(c, IF companyRow THEN "taken" ELSE "created")
  /\ UNCHANGED <<postView, jobRows, visit, unheard, postActs>>

CompanyCreated(c) ==
  /\ post[c] = "created" /\ Awaited(c)
  /\ hasCompany' = "yes" /\ companyLoading' = FALSE
  /\ PostMoves(c, "ended")
  /\ UNCHANGED <<checkError, categories, publishing, publishedId, postRows, visit, unheard,
                 postActs>>

CompanyRefused(c) ==
  /\ post[c] \in {"company", "taken"} /\ Awaited(c)
  /\ companyLoading' = FALSE
  /\ PostMoves(c, "ended")
  /\ UNCHANGED <<hasCompany, checkError, categories, publishing, publishedId, postRows, visit,
                 unheard, postActs>>

CompanyUnanswered(c) ==
  /\ post[c] \in {"company", "created", "taken"} /\ Awaited(c)
  /\ companyLoading' = FALSE
  /\ unheard' = unheard \cup {c}
  /\ UNCHANGED <<hasCompany, checkError, categories, publishing, publishedId, postRows, post,
                 visit, postActs>>

-----------------------------------------------------------------------------
(* The job *)

CategoriesArrive ==
  /\ ~categories
  /\ categories' = TRUE
  /\ UNCHANGED <<hasCompany, checkError, companyLoading, publishing, publishedId, postRows,
                 post, visit, unheard, postActs>>

JobFormOpen == hasCompany = "yes" /\ publishedId = None

(* A mutant: the button does not wait for the answer.                      *)
PostAgain(c) ==
  /\ post[c] = "start"
  /\ JobFormOpen
  /\ categories
  /\ publishing' = TRUE
  /\ PostMoves(c, "job")
  /\ visit' = visit \cup {c}
  /\ UNCHANGED <<hasCompany, checkError, categories, companyLoading, publishedId, postRows,
                 unheard, postActs>>

PostJob(c) ==
  /\ post[c] = "start"
  /\ JobFormOpen
  /\ categories /\ ~publishing
  /\ publishing' = TRUE
  /\ PostMoves(c, "job")
  /\ visit' = visit \cup {c}
  /\ UNCHANGED <<hasCompany, checkError, categories, companyLoading, publishedId, postRows,
                 unheard, postActs>>

FindCompany(c) ==
  /\ post[c] = "job"
  /\ PostMoves(c, IF companyRow THEN "create" ELSE "refused")
  /\ UNCHANGED <<postView, postRows, visit, unheard, postActs>>

(* The alerts to job seekers follow in the background.                     *)
CreateJob(c) ==
  /\ post[c] = "create"
  /\ jobRows' = jobRows \cup {c}
  /\ PostMoves(c, "posted")
  /\ UNCHANGED <<postView, companyRow, visit, unheard, postActs>>

Published(c) ==
  /\ post[c] = "posted" /\ Awaited(c)
  /\ publishedId' = c /\ publishing' = FALSE
  /\ PostMoves(c, "ended")
  /\ UNCHANGED <<hasCompany, checkError, categories, companyLoading, postRows, visit, unheard,
                 postActs>>

(* An input that is not valid is refused as well.                          *)
PostRefused(c) ==
  /\ post[c] \in {"job", "refused"} /\ Awaited(c)
  /\ publishing' = FALSE
  /\ PostMoves(c, "ended")
  /\ UNCHANGED <<hasCompany, checkError, categories, companyLoading, publishedId, postRows, visit,
                 unheard, postActs>>

PostUnanswered(c) ==
  /\ post[c] \in {"job", "create", "posted", "refused"} /\ Awaited(c)
  /\ publishing' = FALSE
  /\ unheard' = unheard \cup {c}
  /\ UNCHANGED <<hasCompany, checkError, categories, companyLoading, publishedId, postRows, post,
                 visit, postActs>>

-----------------------------------------------------------------------------
(* The page is opened anew.                                                *)
OpenPost ==
  /\ postActs < MaxActs /\ postActs' = postActs + 1
  /\ hasCompany' = "unknown" /\ checkError' = FALSE /\ categories' = FALSE
  /\ companyLoading' = FALSE /\ publishing' = FALSE /\ publishedId' = None
  /\ post' = [c \in Calls |-> IF post[c] = "start" \/ Under(c) THEN post[c] ELSE "ended"]
  /\ visit' = {} /\ unheard' = {}
  /\ UNCHANGED postRows

PostCall(c) == CheckCompany(c) \/ CreateCompany(c) \/ PostJob(c)

PostStep(c) ==
  \/ GetCompany(c) \/ CompanyChecked(c) \/ CheckFails(c)
  \/ StoreCompany(c) \/ CompanyCreated(c) \/ CompanyRefused(c) \/ CompanyUnanswered(c)
  \/ FindCompany(c) \/ CreateJob(c) \/ Published(c) \/ PostRefused(c) \/ PostUnanswered(c)

PostAct == CategoriesArrive \/ OpenPost

PostNext == (\E c \in Calls : PostCall(c) \/ PostStep(c)) \/ PostAct

PostSpec == PostInit /\ [][PostNext]_postVars

-----------------------------------------------------------------------------
(* Properties *)

(* In one visit at most one job is posted that the employer was not left   *)
(* without an answer to; what the page says is published is; every job is  *)
(* that of an employer with a company.                                     *)
PostedOnce ==
  /\ \A c, d \in (visit \cap jobRows) \ unheard : c = d
  /\ publishedId # None => publishedId \in jobRows
  /\ jobRows # {} => companyRow
=============================================================================
