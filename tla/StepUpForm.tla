------------------------------ MODULE StepUpForm ------------------------------
(***************************************************************************)
(* A form whose request may need a second factor: ReleaseButton,           *)
(* WithdrawForm, PasswordChangeForm and EmailChangeForm are one program,   *)
(* around one StepUpModal.  A request that is answered 401 with a step-up  *)
(* challenge leaves a closure behind that repeats it, opens the modal, and *)
(* is repeated when a code has been verified.                              *)
(*                                                                         *)
(* The form's button is disabled only until the first answer: a further    *)
(* request may be made while a modal is open, a code is being verified or  *)
(* a request is being repeated.                                            *)
(***************************************************************************)
EXTENDS ApiCalls

VARIABLES
  loading,       (* the form waits for the first answer                      *)
  showStepUp,    (* the modal is open                                        *)
  retry,         (* stepUpSuccessRef: the request to repeat, or None         *)
  verifying,     (* the modal's own "loading", which outlives its closing    *)
  request,       (* how far each request is                                  *)
  performed,     (* how often the server has performed each request          *)
  cancelled      (* requests whose modal the user closed                     *)

formVars == <<loading, showStepUp, retry, verifying, request, performed, cancelled>>
modalVars == <<showStepUp, retry, verifying, cancelled>>

Places == {"start", "sent", "answered", "challenged", "asked", "again", "repeated", "ended"}

FormTypeOK ==
  /\ loading \in BOOLEAN /\ showStepUp \in BOOLEAN /\ verifying \in BOOLEAN
  /\ retry \in Calls \cup {None}
  /\ request \in [Calls -> Places]
  /\ performed \in [Calls -> 0..2]
  /\ cancelled \subseteq Calls

FormInit ==
  /\ loading = FALSE /\ showStepUp = FALSE /\ verifying = FALSE
  /\ retry = None
  /\ request = [c \in Calls |-> "start"]
  /\ performed = [c \in Calls |-> 0]
  /\ cancelled = {}

Reaches(c, place) == request' = [request EXCEPT ![c] = place]

(* The counter stops at 2.                                                 *)
Counted(c) ==
  performed' = [performed EXCEPT ![c] = IF @ < 2 THEN @ + 1 ELSE @]

-----------------------------------------------------------------------------
(* The first request *)

HandleSubmit(c) ==
  /\ request[c] = "start"
  /\ ~loading
  /\ loading' = TRUE
  /\ Reaches(c, "sent")
  /\ UNCHANGED <<modalVars, performed>>

(* The server performs the request, or answers with a challenge.           *)
Serve(c) ==
  /\ request[c] = "sent"
  /\ \/ Counted(c) /\ Reaches(c, "answered")
     \/ UNCHANGED performed /\ Reaches(c, "challenged")
  /\ UNCHANGED <<loading, modalVars>>

(* The answer is a success, an error, or lost.                             *)
EndSubmit(c) ==
  /\ request[c] \in {"sent", "answered", "challenged"}
  /\ loading' = FALSE
  /\ Reaches(c, "ended")
  /\ UNCHANGED <<modalVars, performed>>

AskStepUp(c) ==
  /\ request[c] = "challenged"
  /\ loading' = FALSE
  /\ retry' = c
  /\ showStepUp' = TRUE
  /\ Reaches(c, "asked")
  /\ UNCHANGED <<verifying, performed, cancelled>>

-----------------------------------------------------------------------------
(* The modal *)

VerifyCode ==
  /\ showStepUp /\ ~verifying
  /\ verifying' = TRUE
  /\ UNCHANGED <<loading, showStepUp, retry, request, performed, cancelled>>

VerifyFails ==
  /\ verifying
  /\ verifying' = FALSE
  /\ UNCHANGED <<loading, showStepUp, retry, request, performed, cancelled>>

Repeats ==
  request' = [c \in Calls |-> IF c = retry THEN "again" ELSE request[c]]

(* A mutant: the modal closes but the closure stays.                       *)
VerifiedKeepsRetry ==
  /\ verifying
  /\ Repeats
  /\ verifying' = FALSE
  /\ UNCHANGED <<loading, showStepUp, retry, performed, cancelled>>

(* The closure that is there by now is started, then the modal is closed,  *)
(* whichever request it was opened for.                                    *)
Verified ==
  /\ verifying
  /\ Repeats
  /\ verifying' = FALSE /\ showStepUp' = FALSE /\ retry' = None
  /\ UNCHANGED <<loading, performed, cancelled>>

HandleClose ==
  /\ showStepUp
  /\ showStepUp' = FALSE /\ retry' = None
  /\ cancelled' = cancelled \cup ({retry} \ {None})
  /\ UNCHANGED <<loading, verifying, request, performed>>

(* The second request is performed, or refused.                            *)
ServeAgain(c) ==
  /\ request[c] = "again"
  /\ Counted(c)
  /\ Reaches(c, "repeated")
  /\ UNCHANGED <<loading, modalVars>>

(* When its answer is there, or lost, the modal is closed once more, which *)
(* may be that of a newer request.                                         *)
EndRetry(c) ==
  /\ request[c] \in {"again", "repeated"}
  /\ showStepUp' = FALSE /\ retry' = None
  /\ Reaches(c, "ended")
  /\ UNCHANGED <<loading, verifying, performed, cancelled>>

FormStep(c) ==
  \/ Serve(c) \/ EndSubmit(c) \/ AskStepUp(c) \/ ServeAgain(c) \/ EndRetry(c)

ModalStep == VerifyCode \/ VerifyFails \/ Verified \/ HandleClose

FormNext == (\E c \in Calls : HandleSubmit(c) \/ FormStep(c)) \/ ModalStep

FormSpec == FormInit /\ [][FormNext]_formVars

-----------------------------------------------------------------------------
(* Properties *)

(* However requests, codes and retries overlap, what the user asked for    *)
(* once is performed at most once, what the user cancelled is never        *)
(* performed, and a retry that is prepared is one that is waiting for its  *)
(* code behind an open modal.                                              *)
AskedOnce ==
  /\ \A c \in Calls : performed[c] <= 1
  /\ \A c \in cancelled : performed[c] = 0
  /\ retry # None => showStepUp /\ request[retry] = "asked"
=============================================================================
