------------------------------ MODULE DeskProofs ------------------------------
(* The properties of the desk hold for any number of calls, any number of  *)
(* instances of the server, any length of a chat history, any CV, any jobs *)
(* of an employer, and any number of things done on a page.                *)
EXTENDS Desk, SequenceTheorems, FiniteSetTheorems, TLAPS

(***************************************************************************)
(* The form                                                                *)
(***************************************************************************)

(* A request the server has not performed is not repeated unless it waits  *)
(* for a code or has just been given one; a cancelled one does neither.    *)
FormInv ==
  /\ FormTypeOK
  /\ \A c \in Calls : performed[c] <= 1
  /\ \A c \in Calls : request[c] \in {"start", "sent", "challenged", "asked", "again"}
                        => performed[c] = 0
  /\ \A c \in cancelled : request[c] = "asked" /\ c # retry
  /\ retry # None => showStepUp /\ request[retry] = "asked"

LEMMA FormInvImplies == FormInv => AskedOnce
  BY CallsAssumption DEF FormInv, FormTypeOK, AskedOnce

LEMMA FormFirst ==
  ASSUME FormInv, NEW c \in Calls, HandleSubmit(c) \/ EndSubmit(c) \/ AskStepUp(c)
  PROVE  FormInv'
  <1>1. CASE HandleSubmit(c)
    BY <1>1, CallsAssumption DEF FormInv, FormTypeOK, HandleSubmit, Reaches, Places, modalVars
  <1>2. CASE EndSubmit(c)
    BY <1>2, CallsAssumption DEF FormInv, FormTypeOK, EndSubmit, Reaches, Places, modalVars
  <1>3. CASE AskStepUp(c)
    BY <1>3, CallsAssumption DEF FormInv, FormTypeOK, AskStepUp, Reaches, Places
  <1> QED BY <1>1, <1>2, <1>3

LEMMA FormServed ==
  ASSUME FormInv, NEW c \in Calls, Serve(c) \/ ServeAgain(c)
  PROVE  FormInv'
  <1>1. CASE Serve(c)
    <2>1. CASE Counted(c) /\ Reaches(c, "answered")
      BY <1>1, <2>1, CallsAssumption
      DEF FormInv, FormTypeOK, Serve, Counted, Reaches, Places, modalVars
    <2>2. CASE UNCHANGED performed /\ Reaches(c, "challenged")
      BY <1>1, <2>2, CallsAssumption DEF FormInv, FormTypeOK, Serve, Reaches, Places, modalVars
    <2> QED BY <1>1, <2>1, <2>2 DEF Serve
  <1>2. CASE ServeAgain(c)
    BY <1>2, CallsAssumption DEF FormInv, FormTypeOK, ServeAgain, Counted, Reaches, Places, modalVars
  <1> QED BY <1>1, <1>2

LEMMA FormModal ==
  ASSUME FormInv, ModalStep \/ \E c \in Calls : EndRetry(c)
  PROVE  FormInv'
  <1>1. CASE VerifyCode \/ VerifyFails
    BY <1>1 DEF FormInv, FormTypeOK, VerifyCode, VerifyFails
  <1>2. CASE Verified
    <2>1. request' \in [Calls -> Places]
      BY <1>2 DEF FormInv, FormTypeOK, Verified, Repeats, Places
    <2>2. \A c \in Calls : request'[c] = IF c = retry THEN "again" ELSE request[c]
      BY <1>2 DEF Verified, Repeats
    <2> QED BY <1>2, <2>1, <2>2, CallsAssumption DEF FormInv, FormTypeOK, Verified
  <1>3. CASE HandleClose
    BY <1>3, CallsAssumption DEF FormInv, FormTypeOK, HandleClose
  <1>4. ASSUME NEW c \in Calls, EndRetry(c) PROVE FormInv'
    BY <1>4, CallsAssumption DEF FormInv, FormTypeOK, EndRetry, Reaches, Places
  <1> QED BY <1>1, <1>2, <1>3, <1>4 DEF ModalStep

LEMMA FormInvHolds == FormSpec => []FormInv
  <1>1. FormInit => FormInv
    <2> SUFFICES ASSUME FormInit PROVE FormInv
      OBVIOUS
    <2>1. FormTypeOK
      <3>1. performed \in [Calls -> 0..2] /\ request \in [Calls -> Places]
        BY DEF FormInit, Places
      <3> QED BY <3>1, Zenon DEF FormInit, FormTypeOK
    <2> QED BY <2>1 DEF FormInit, FormInv, Places
  <1>2. FormInv /\ [FormNext]_formVars => FormInv'
    <2> SUFFICES ASSUME FormInv, [FormNext]_formVars PROVE FormInv'
      OBVIOUS
    <2>1. CASE UNCHANGED formVars
      BY <2>1 DEF FormInv, FormTypeOK, formVars
    <2> QED BY <2>1, FormFirst, FormServed, FormModal DEF FormNext, FormStep
  <1> QED BY <1>1, <1>2, PTL DEF FormSpec

(* No request of the form is performed twice, and none that was cancelled. *)
THEOREM RequestsAskedOnce == FormSpec => []AskedOnce
  BY FormInvHolds, FormInvImplies, PTL

(***************************************************************************)
(* The identity check                                                      *)
(***************************************************************************)

KycInv ==
  /\ KycTypeOK
  /\ kycVerified <=> kyc = "APPROVED"

Stands ==
  /\ kycVerified' <=> kyc' = "APPROVED"
  /\ kyc \in {"PENDING", "APPROVED"} /\ ~Submitting =>
       /\ ~Submitting'
       /\ \/ kyc' = kyc
          \/ kyc' = "APPROVED" /\ \E c \in Calls : Decided(c, "approved")
          \/ kyc' = "REJECTED" /\ \E c \in Calls : Decided(c, "rejected")

ReviewPlaces == {"start", "upload", "verify", "save", "done", "approved", "rejected"}

ReviewAt(x, p) == [x EXCEPT !.at = p]

LEMMA ReviewMoves ==
  ASSUME NEW x \in Review, NEW p \in ReviewPlaces
  PROVE  ReviewAt(x, p) \in Review /\ ReviewAt(x, p).at = p
  BY DEF Review, ReviewPlaces, ReviewAt

LEMMA ReviewTurns ==
  ASSUME review \in [Calls -> Review], NEW c \in Calls, NEW p \in ReviewPlaces, Turns(c, p)
  PROVE  /\ review' \in [Calls -> Review]
         /\ review'[c].at = p
         /\ \A d \in Calls \ {c} : review'[d] = review[d]
  <1>1. review' = [review EXCEPT ![c] = ReviewAt(review[c], p)]
    BY DEF Turns, ReviewAt
  <1>2. ReviewAt(review[c], p) \in Review /\ ReviewAt(review[c], p).at = p
    BY ReviewMoves
  <1> QED BY <1>1, <1>2

LEMMA KycSubmission ==
  ASSUME KycInv, NEW c \in Calls, Submit(c) \/ UploadFiles(c) \/ Verify(c) \/ SaveVerdict(c)
  PROVE  KycInv' /\ Stands
  <1>1. CASE Submit(c)
    <2>1. review' \in [Calls -> Review]
      BY <1>1, ReviewTurns DEF KycInv, KycTypeOK, Submit, ReviewPlaces
    <2> QED BY <1>1, <2>1 DEF KycInv, KycTypeOK, Submit, Stands
  <1>2. CASE UploadFiles(c)
    <2>1. review' \in [Calls -> Review]
      BY <1>2, ReviewTurns DEF KycInv, KycTypeOK, UploadFiles, ReviewPlaces
    <2> QED BY <1>2, <2>1 DEF KycInv, KycTypeOK, UploadFiles, Stands, Submitting
  <1>3. CASE Verify(c)
    <2>1. PICK r \in OpenAiResults \cup {MockResult} :
            review' = [review EXCEPT ![c] = [at |-> "save",
                                             verdict |-> Verdict(r.score, r.live, r.valid)]]
      BY <1>3 DEF Verify
    <2>2. Verdict(r.score, r.live, r.valid) \in Verdicts
      <3>1. r.score \in Int
        BY DEF OpenAiResults, MockResult, WorstResult, Scores
      <3> QED BY <3>1 DEF Verdict, Verdicts
    <2>3. review' \in [Calls -> Review]
      BY <2>1, <2>2 DEF KycInv, KycTypeOK, Review
    <2> QED BY <1>3, <2>3 DEF KycInv, KycTypeOK, Verify, Stands, Submitting
  <1>4. CASE SaveVerdict(c)
    <2>1. review' \in [Calls -> Review]
      BY <1>4, ReviewTurns DEF KycInv, KycTypeOK, SaveVerdict, ReviewPlaces
    <2>2. kyc' \in Verdicts
      BY <1>4 DEF KycInv, KycTypeOK, SaveVerdict, Review
    <2> QED BY <1>4, <2>1, <2>2 DEF KycInv, KycTypeOK, SaveVerdict, Stands, Submitting
  <1> QED BY <1>1, <1>2, <1>3, <1>4

LEMMA KycDecision ==
  ASSUME KycInv, NEW c \in Calls, ApproveVerification(c) \/ RejectVerification(c)
  PROVE  KycInv' /\ Stands
  <1>1. CASE ApproveVerification(c)
    <2>1. /\ review' \in [Calls -> Review]
          /\ review'[c].at = "approved"
          /\ \A d \in Calls \ {c} : review'[d] = review[d]
      BY <1>1, ReviewTurns DEF KycInv, KycTypeOK, ApproveVerification, ReviewPlaces
    <2>2. ~Submitting => ~Submitting'
      BY <2>1 DEF Submitting
    <2>3. Decided(c, "approved")
      BY <1>1, <2>1 DEF ApproveVerification, Decided
    <2> QED BY <1>1, <2>1, <2>2, <2>3 DEF KycInv, KycTypeOK, ApproveVerification, Stands, Verdicts
  <1>2. CASE RejectVerification(c)
    <2>1. /\ review' \in [Calls -> Review]
          /\ review'[c].at = "rejected"
          /\ \A d \in Calls \ {c} : review'[d] = review[d]
      BY <1>2, ReviewTurns DEF KycInv, KycTypeOK, RejectVerification, ReviewPlaces
    <2>2. ~Submitting => ~Submitting'
      BY <2>1 DEF Submitting
    <2>3. Decided(c, "rejected")
      BY <1>2, <2>1 DEF RejectVerification, Decided
    <2> QED BY <1>2, <2>1, <2>2, <2>3 DEF KycInv, KycTypeOK, RejectVerification, Stands, Verdicts
  <1> QED BY <1>1, <1>2

LEMMA KycStarts == KycInit => KycInv
  <1>1. [at |-> "start", verdict |-> "PENDING"] \in Review
    BY DEF Review, Verdicts
  <1> QED BY <1>1 DEF KycInit, KycInv, KycTypeOK

LEMMA KycMoves == KycInv /\ [KycNext]_kycVars => KycInv' /\ [Stands]_kycVars
  <1> SUFFICES ASSUME KycInv, [KycNext]_kycVars PROVE KycInv' /\ [Stands]_kycVars
    OBVIOUS
  <1>1. CASE UNCHANGED kycVars
    BY <1>1 DEF KycInv, KycTypeOK, kycVars
  <1> QED BY <1>1, KycSubmission, KycDecision DEF KycNext, KycStep, KycCall

LEMMA KycInvHolds == KycSpec => []KycInv
  BY KycStarts, KycMoves, PTL DEF KycSpec

(* A review stands until an admin decides, and the user's flag follows it. *)
THEOREM ReviewsStand == KycSpec => ReviewStands
  <1>1. Stands <=>
          (/\ kycVerified' <=> kyc' = "APPROVED"
           /\ kyc \in {"PENDING", "APPROVED"} /\ ~Submitting =>
                /\ ~Submitting'
                /\ \/ kyc' = kyc
                   \/ kyc' = "APPROVED" /\ \E c \in Calls : Decided(c, "approved")
                   \/ kyc' = "REJECTED" /\ \E c \in Calls : Decided(c, "rejected"))
    BY DEF Stands
  <1> QED BY <1>1, KycStarts, KycMoves, PTL DEF KycSpec, ReviewStands

(***************************************************************************)
(* The dispute                                                             *)
(***************************************************************************)

DispPlaces == {"start", "store", "asked", "write", "refund", "close", "done", "refused"}

Resolving(c) == disp[c].at \in {"write", "refund"} \/ c \in credited
Active(c) == disp[c].at \in {"asked", "write", "refund", "close"}

(* One call resolves the dispute, unless a second has overlapped with it;  *)
(* and as long as only the page asks, the one that is active is the one it *)
(* waits for.                                                              *)
DisputeInv ==
  /\ disp \in [Calls -> Disp]
  /\ credited \subseteq Calls
  /\ contract \in {"CANCELLED", "COMPLETED"} => dispute = "resolved"
  /\ contract = "CANCELLED" /\ hasWallet => credited # {}
  /\ \A c \in Calls : disp[c].at = "write" => dispute # "none"
  /\ \A c \in Calls : disp[c].at \in {"refund", "close"} \/ c \in credited
                        => dispute = "resolved"
  /\ \A c \in Calls : disp[c].at = "close" /\ disp[c].refund /\ hasWallet => c \in credited
  /\ overlapped \/ \A c, d \in Calls : Resolving(c) /\ Resolving(d) => c = d
  /\ elsewhere \/ unanswered \/ \A c \in Calls : Active(c) => posted = c
  /\ overlapped => elsewhere \/ unanswered

LEMMA DisputeInvImplies == DisputeInv => RefundedOnce
  BY DEF DisputeInv, RefundedOnce, Resolving

DispAt(x, p) == [x EXCEPT !.at = p]

LEMMA DispAtIs ==
  ASSUME NEW x \in Disp, NEW p \in DispPlaces
  PROVE  DispAt(x, p) \in Disp /\ DispAt(x, p).at = p /\ DispAt(x, p).refund = x.refund
  BY DEF Disp, DispPlaces, DispAt

(* What moving a call on changes, and what it does not.                    *)
Moved(c, p) ==
  /\ disp' \in [Calls -> Disp]
  /\ disp'[c].at = p /\ disp'[c].refund = disp[c].refund
  /\ \A d \in Calls \ {c} : disp'[d] = disp[d]

LEMMA DispMoves ==
  ASSUME disp \in [Calls -> Disp], NEW c \in Calls, NEW p \in DispPlaces, Moves(c, p)
  PROVE  Moved(c, p)
  <1>1. disp' = [disp EXCEPT ![c] = DispAt(disp[c], p)]
    BY DEF Moves, DispAt
  <1>2. /\ DispAt(disp[c], p) \in Disp
        /\ DispAt(disp[c], p).at = p /\ DispAt(disp[c], p).refund = disp[c].refund
    BY DispAtIs
  <1> QED BY <1>1, <1>2 DEF Moved

LEMMA DisputeOpened ==
  ASSUME DisputeInv, NEW c \in Calls, CreateDispute(c) \/ StoreDispute(c)
  PROVE  DisputeInv'
  <1>1. CASE CreateDispute(c)
    <2>1. Moved(c, "store")
      BY <1>1, DispMoves DEF DisputeInv, CreateDispute, DispPlaces
    <2> QED BY <1>1, <2>1 DEF DisputeInv, CreateDispute, Moved, Resolving, Active, page, record
  <1>2. CASE StoreDispute(c)
    <2>1. Moved(c, "done")
      BY <1>2, DispMoves DEF DisputeInv, StoreDispute, DispPlaces
    <2> QED BY <1>2, <2>1 DEF DisputeInv, StoreDispute, Moved, Resolving, Active, page, record
  <1> QED BY <1>1, <1>2

LEMMA DisputeAsked ==
  ASSUME DisputeInv, NEW c \in Calls, AdminResolve(c) \/ ResolveElsewhere(c) \/ HandleResolve(c)
  PROVE  DisputeInv'
  <1>1. CASE AdminResolve(c)
    <2>1. Moved(c, "done")
      BY <1>1, DispMoves DEF DisputeInv, AdminResolve, DispPlaces
    <2> QED BY <1>1, <2>1 DEF DisputeInv, AdminResolve, Moved, Resolving, Active, page, record
  <1>2. ASSUME NEW refund \in BOOLEAN, Asks(c, refund)
        PROVE  /\ disp' \in [Calls -> Disp]
               /\ disp[c].at = "start" /\ disp'[c].at = "asked"
               /\ \A d \in Calls \ {c} : disp'[d] = disp[d]
    <2>1. [at |-> "asked", refund |-> refund] \in Disp
      BY DEF Disp
    <2> QED BY <1>2, <2>1 DEF DisputeInv, Asks
  <1>3. CASE ResolveElsewhere(c)
    <2>1. PICK refund \in BOOLEAN : Asks(c, refund)
      BY <1>3 DEF ResolveElsewhere
    <2> QED BY <1>3, <1>2, <2>1 DEF DisputeInv, ResolveElsewhere, Resolving, Active, page
  <1>4. CASE HandleResolve(c)
    <2>1. PICK refund \in BOOLEAN : Asks(c, refund)
      BY <1>4 DEF HandleResolve
    <2>2. elsewhere \/ unanswered \/ \A d \in Calls : ~Active(d)
      BY <1>4, CallsAssumption DEF DisputeInv, HandleResolve
    <2> QED BY <1>4, <1>2, <2>1, <2>2
         DEF DisputeInv, HandleResolve, Resolving, Active, server, record
  <1> QED BY <1>1, <1>3, <1>4

LEMMA DisputeRead ==
  ASSUME DisputeInv, NEW c \in Calls, ReadDispute(c)
  PROVE  DisputeInv'
  <1> DEFINE place == IF dispute = "open" THEN "write" ELSE "refused"
             Another == \E d \in Calls : disp[d].at = "write"
  <1>1. Moved(c, place)
    BY DispMoves DEF DisputeInv, ReadDispute, DispPlaces
  <1>2. /\ disp[c].at = "asked"
        /\ overlapped' = (overlapped \/ Another)
        /\ UNCHANGED <<contract, dispute, hasWallet, credited, posted, elsewhere, unanswered>>
    BY DEF ReadDispute, page
  <1>3. Another => elsewhere \/ unanswered
    BY <1>2 DEF DisputeInv, Active
  <1>4. place = "write" => dispute = "open"
    OBVIOUS
  <1>5. place \in {"write", "refused"}
    OBVIOUS
  <1> HIDE DEF place
  <1>6. overlapped' \/ \A d, e \in Calls : Resolving(d)' /\ Resolving(e)' => d = e
    <2> SUFFICES ASSUME ~overlapped', NEW d \in Calls, NEW e \in Calls,
                        Resolving(d)', Resolving(e)'
                 PROVE d = e
      OBVIOUS
    <2>1. ~overlapped /\ \A b \in Calls : disp[b].at # "write"
      BY <1>2
    <2>2. \A b \in Calls \ {c} : Resolving(b)' => Resolving(b)
      BY <1>1, <1>2 DEF Moved, Resolving
    <2>3. ASSUME Resolving(c)', NEW b \in Calls \ {c}, Resolving(b) PROVE FALSE
      <3>1. dispute = "resolved"
        BY <2>1, <2>3 DEF DisputeInv, Resolving
      <3>2. c \notin credited
        BY <2>1, <2>3, <1>2 DEF DisputeInv, Resolving
      <3> QED BY <1>1, <1>2, <1>4, <1>5, <2>3, <3>1, <3>2 DEF Moved, Resolving
    <2>4. CASE d = c \/ e = c
      BY <2>2, <2>3, <2>4
    <2>5. CASE d # c /\ e # c
      BY <2>1, <2>2, <2>5 DEF DisputeInv
    <2> QED BY <2>4, <2>5
  <1>7. \A d \in Calls : /\ Active(d)' => Active(d)
                         /\ disp'[d].at = "write" => dispute # "none"
                         /\ disp'[d].at \in {"refund", "close"}
                              => disp[d].at = disp'[d].at /\ disp[d].refund = disp'[d].refund
    BY <1>1, <1>2, <1>4, <1>5 DEF DisputeInv, Moved, Active
  <1>8. disp' \in [Calls -> Disp]
    BY <1>1 DEF Moved
  <1> QED BY <1>2, <1>3, <1>6, <1>7, <1>8 DEF DisputeInv

LEMMA DisputeResolved ==
  ASSUME DisputeInv, NEW c \in Calls, WriteResolution(c) \/ CreditRefund(c) \/ CloseContract(c)
  PROVE  DisputeInv'
  <1>1. CASE WriteResolution(c)
    <2> DEFINE place == IF disp[c].refund /\ hasWallet THEN "refund" ELSE "close"
    <2>1. Moved(c, place)
      BY <1>1, DispMoves DEF DisputeInv, WriteResolution, DispPlaces
    <2>2. /\ disp[c].at = "write" /\ dispute' = "resolved"
          /\ UNCHANGED <<contract, hasWallet, credited, posted, overlapped, elsewhere, unanswered>>
      BY <1>1 DEF WriteResolution, page, record
    <2>3. place = "close" => ~(disp[c].refund /\ hasWallet)
      OBVIOUS
    <2>4. place \in {"refund", "close"}
      OBVIOUS
    <2> HIDE DEF place
    <2> QED BY <2>1, <2>2, <2>3, <2>4 DEF DisputeInv, Moved, Resolving, Active
  <1>2. CASE CreditRefund(c)
    <2>1. Moved(c, "close")
      BY <1>2, DispMoves DEF DisputeInv, CreditRefund, DispPlaces
    <2> QED BY <1>2, <2>1 DEF DisputeInv, CreditRefund, Moved, Resolving, Active, page, record
  <1>3. CASE CloseContract(c)
    <2>1. Moved(c, "done")
      BY <1>3, DispMoves DEF DisputeInv, CloseContract, DispPlaces
    <2> QED BY <1>3, <2>1 DEF DisputeInv, CloseContract, Moved, Resolving, Active, page, record
  <1> QED BY <1>1, <1>2, <1>3

LEMMA DisputePage ==
  ASSUME DisputeInv, PageStep \/ \E c \in Calls : Answered(c)
  PROVE  DisputeInv'
  <1>1. CASE ReadForPage \/ OpenModal \/ CloseModal
    BY <1>1 DEF DisputeInv, ReadForPage, OpenModal, CloseModal, server, record, Resolving, Active
  <1>2. ASSUME NEW v \in answers, SetData(v) PROVE DisputeInv'
    BY <1>2 DEF DisputeInv, SetData, server, record, Resolving, Active
  <1>3. ASSUME NEW c \in Calls, Answered(c) PROVE DisputeInv'
    BY <1>3 DEF DisputeInv, Answered, server, Resolving, Active
  <1> QED BY <1>1, <1>2, <1>3 DEF PageStep

(* The refund and the outcome of the contract follow the resolution, once. *)
THEOREM DisputesRefundOnce == DisputeSpec => []RefundedOnce
  <1>1. DisputeInit => DisputeInv
    <2>1. [at |-> "start", refund |-> FALSE] \in Disp
      BY DEF Disp
    <2> QED BY <2>1 DEF DisputeInit, DisputeInv, Resolving, Active
  <1>2. DisputeInv /\ [DisputeNext]_disputeVars => DisputeInv'
    <2> SUFFICES ASSUME DisputeInv, [DisputeNext]_disputeVars PROVE DisputeInv'
      OBVIOUS
    <2>1. CASE UNCHANGED disputeVars
      BY <2>1 DEF DisputeInv, disputeVars, page, record, Resolving, Active
    <2> QED BY <2>1, DisputeOpened, DisputeAsked, DisputeRead, DisputeResolved, DisputePage
         DEF DisputeNext, DisputeCall, DisputeStep
  <1> QED BY <1>1, <1>2, DisputeInvImplies, PTL DEF DisputeSpec

LEMMA DisputeRowsTyped ==
  ASSUME DisputeTypeOK, NEW c \in Calls,
         CreateDispute(c) \/ StoreDispute(c) \/ WriteResolution(c) \/ CreditRefund(c)
           \/ CloseContract(c) \/ AdminResolve(c)
  PROVE  DisputeTypeOK'
  <1>1. disp' \in [Calls -> Disp]
    <2>1. PICK p \in DispPlaces : Moves(c, p)
      BY DEF CreateDispute, StoreDispute, WriteResolution, CreditRefund, CloseContract,
             AdminResolve, DispPlaces
    <2> QED BY <2>1, DispMoves DEF DisputeTypeOK, Moved
  <1>2. contract' \in {"ACTIVE", "DISPUTED", "CANCELLED", "COMPLETED"} /\ dispute' \in Disputes
    BY DEF DisputeTypeOK, Disputes, CreateDispute, StoreDispute, WriteResolution, CreditRefund,
           CloseContract, AdminResolve
  <1>3. credited' \subseteq Calls /\ UNCHANGED <<hasWallet, page, record>>
    BY DEF DisputeTypeOK, CreateDispute, StoreDispute, WriteResolution, CreditRefund,
           CloseContract, AdminResolve
  <1> QED BY <1>1, <1>2, <1>3 DEF DisputeTypeOK, page, record

LEMMA DisputeCallsTyped ==
  ASSUME DisputeTypeOK, NEW c \in Calls,
         ReadDispute(c) \/ ResolveElsewhere(c) \/ HandleResolve(c) \/ Answered(c)
  PROVE  DisputeTypeOK'
  <1>1. ASSUME NEW refund \in BOOLEAN, Asks(c, refund) PROVE disp' \in [Calls -> Disp]
    <2>1. [at |-> "asked", refund |-> refund] \in Disp
      BY DEF Disp
    <2> QED BY <1>1, <2>1 DEF DisputeTypeOK, Asks
  <1>2. CASE ReadDispute(c)
    <2>1. PICK p \in DispPlaces : Moves(c, p)
      BY <1>2 DEF ReadDispute, DispPlaces
    <2>2. disp' \in [Calls -> Disp]
      BY <2>1, DispMoves DEF DisputeTypeOK, Moved
    <2>3. overlapped' \in BOOLEAN
      BY <1>2 DEF ReadDispute
    <2> QED BY <1>2, <2>2, <2>3 DEF DisputeTypeOK, ReadDispute, page
  <1>3. CASE ResolveElsewhere(c)
    <2>1. disp' \in [Calls -> Disp]
      BY <1>1, <1>3 DEF ResolveElsewhere
    <2> QED BY <1>3, <2>1 DEF DisputeTypeOK, ResolveElsewhere, page
  <1>4. CASE HandleResolve(c)
    <2>1. disp' \in [Calls -> Disp]
      BY <1>1, <1>4 DEF HandleResolve
    <2> QED BY <1>4, <2>1 DEF DisputeTypeOK, HandleResolve, server, record
  <1>5. CASE Answered(c)
    <2>1. unanswered' \in BOOLEAN
      BY <1>5 DEF Answered
    <2> QED BY <1>5, <2>1 DEF DisputeTypeOK, Answered, server
  <1> QED BY <1>2, <1>3, <1>4, <1>5

LEMMA DisputePageTyped ==
  ASSUME DisputeTypeOK, PageStep
  PROVE  DisputeTypeOK'
  <1>1. CASE ReadForPage \/ OpenModal \/ CloseModal
    BY <1>1 DEF DisputeTypeOK, ReadForPage, OpenModal, CloseModal, server, record
  <1>2. ASSUME NEW v \in answers, SetData(v) PROVE DisputeTypeOK'
    BY <1>2 DEF DisputeTypeOK, SetData, server, record
  <1> QED BY <1>1, <1>2 DEF PageStep

LEMMA DisputeTypesHold == DisputeSpec => []DisputeTypeOK
  <1>1. DisputeInit => DisputeTypeOK
    <2>1. [at |-> "start", refund |-> FALSE] \in Disp
      BY DEF Disp
    <2> QED BY <2>1 DEF DisputeInit, DisputeTypeOK, Disputes
  <1>2. DisputeTypeOK /\ [DisputeNext]_disputeVars => DisputeTypeOK'
    <2> SUFFICES ASSUME DisputeTypeOK, [DisputeNext]_disputeVars PROVE DisputeTypeOK'
      OBVIOUS
    <2>1. CASE UNCHANGED disputeVars
      BY <2>1 DEF DisputeTypeOK, disputeVars, page, record
    <2> QED BY <2>1, DisputeRowsTyped, DisputeCallsTyped, DisputePageTyped
         DEF DisputeNext, DisputeCall, DisputeStep
  <1> QED BY <1>1, <1>2, PTL DEF DisputeSpec

(***************************************************************************)
(* The chat                                                                *)
(***************************************************************************)

TalkPlaces == {"start", "read", "joined", "left", "saved", "emitted", "refused"}
TalkRow == [at : TalkPlaces, on : Instances \cup {None}, upto : Nat]

ChatRows ==
  /\ saved \in Seq(Calls)
  /\ talk \in [Calls -> TalkRow]
  /\ relay \subseteq Instances \X Calls
  /\ feed \in [Calls -> [Calls -> Nat]]
  /\ \A s \in Calls : talk[s].at \in {"read", "joined"} =>
       talk[s].on \in Instances /\ talk[s].upto <= Len(saved)
  /\ \A i \in Instances, m \in Calls : <<i, m>> \in relay => talk[m].at = "emitted"

(* The rows are the messages, each once.                                   *)
SavedOnce ==
  /\ \A k \in 1..Len(saved) : talk[saved[k]].at \in {"saved", "emitted"}
  /\ \A j, k \in 1..Len(saved) : saved[j] = saved[k] => j = k

(* A socket that has read the history sees an untroubled message there or  *)
(* has yet to be sent it.                                                  *)
Untroubled(s, k) == <<s, saved[k]>> \notin crossed

WillSee(s, k) ==
  talk[s].at = "read" /\ Untroubled(s, k) =>
    k <= talk[s].upto /\ ~UnderWay(saved[k], talk[s].on)

Sees(s, k) ==
  talk[s].at = "joined" /\ Untroubled(s, k) =>
    IF k <= talk[s].upto
      THEN /\ ~UnderWay(saved[k], talk[s].on)
           /\ feed[s][saved[k]] = IF k <= Take THEN 1 ELSE 0
      ELSE feed[s][saved[k]] = IF UnderWay(saved[k], talk[s].on) THEN 0 ELSE 1

Seeing == \A s \in Calls, k \in 1..Len(saved) : WillSee(s, k) /\ Sees(s, k)

Unsent ==
  \A s, n \in Calls :
    talk[s].at = "joined" /\ talk[n].at \notin {"saved", "emitted"} => feed[s][n] = 0

ChatInv == ChatRows /\ SavedOnce /\ Seeing /\ Unsent

LEMMA ChatInvImplies == ChatInv => SeenOnce
  BY DEF ChatInv, Seeing, Sees, Untroubled, SeenOnce

TalkAt(x, p) == [x EXCEPT !.at = p]

LEMMA TalkAtIs ==
  ASSUME NEW x \in TalkRow, NEW p \in TalkPlaces
  PROVE  /\ TalkAt(x, p) \in TalkRow
         /\ TalkAt(x, p).at = p /\ TalkAt(x, p).on = x.on /\ TalkAt(x, p).upto = x.upto
  BY DEF TalkRow, TalkPlaces, TalkAt

Spoken(c, p) ==
  /\ talk' \in [Calls -> TalkRow]
  /\ talk'[c].at = p /\ talk'[c].on = talk[c].on /\ talk'[c].upto = talk[c].upto
  /\ \A d \in Calls \ {c} : talk'[d] = talk[d]

LEMMA SaysMoves ==
  ASSUME talk \in [Calls -> TalkRow], NEW c \in Calls, NEW p \in TalkPlaces, Says(c, p)
  PROVE  Spoken(c, p)
  <1>1. talk' = [talk EXCEPT ![c] = TalkAt(talk[c], p)]
    BY DEF Says, TalkAt
  <1>2. /\ TalkAt(talk[c], p) \in TalkRow
        /\ TalkAt(talk[c], p).at = p
        /\ TalkAt(talk[c], p).on = talk[c].on /\ TalkAt(talk[c], p).upto = talk[c].upto
    BY TalkAtIs
  <1> QED BY <1>1, <1>2 DEF Spoken

LEMMA SavedAreCalls ==
  ASSUME ChatInv, NEW k \in 1..Len(saved)
  PROVE  saved[k] \in Calls
  BY DEF ChatInv, ChatRows

(* Sending m to an instance counts for the sockets in the room there.      *)
LEMMA SentToCounts ==
  ASSUME feed \in [Calls -> [Calls -> Nat]], NEW i, NEW m \in Calls, SentTo(i, m)
  PROVE  /\ feed' \in [Calls -> [Calls -> Nat]]
         /\ \A s, n \in Calls :
              feed'[s][n] = IF n = m /\ InRoom(s, i) THEN feed[s][n] + 1 ELSE feed[s][n]
  BY DEF SentTo

(* A call that is no message, and does not become one, leaves the messages *)
(* and where they are under way alone.                                     *)
LEMMA ChatQuiet ==
  ASSUME ChatInv, NEW c \in Calls,
         talk[c].at \notin {"saved", "emitted"}, talk'[c].at \notin {"saved", "emitted"},
         \A d \in Calls \ {c} : talk'[d] = talk[d],
         UNCHANGED <<saved, relay>>
  PROVE  /\ \A m \in Calls : \A i : UnderWay(m, i)' <=> UnderWay(m, i)
         /\ \A k \in 1..Len(saved) : saved[k] \in Calls \ {c}
         /\ SavedOnce'
  <1>1. \A m \in Calls : \A i : UnderWay(m, i)' <=> UnderWay(m, i)
    <2> SUFFICES ASSUME NEW m \in Calls PROVE \A i : UnderWay(m, i)' <=> UnderWay(m, i)
      OBVIOUS
    <2>1. talk'[m].at = "saved" <=> talk[m].at = "saved"
      OBVIOUS
    <2> QED BY <2>1 DEF UnderWay
  <1>2. \A k \in 1..Len(saved) : saved[k] \in Calls \ {c}
    BY SavedAreCalls DEF ChatInv, SavedOnce
  <1>3. SavedOnce'
    BY <1>2 DEF ChatInv, SavedOnce
  <1> QED BY <1>1, <1>2, <1>3

LEMMA ChatLeft ==
  ASSUME ChatInv, NEW c \in Calls, Refuse(c) \/ HandleDisconnect(c)
  PROVE  ChatInv'
  <1> DEFINE place == IF Refuse(c) THEN "refused" ELSE "left"
  <1>1. /\ place \in {"refused", "left"} /\ Says(c, place)
        /\ talk[c].at \in {"start", "joined"}
        /\ UNCHANGED <<saved, relay, feed, crossed>>
    BY DEF Refuse, HandleDisconnect
  <1> HIDE DEF place
  <1>2. Spoken(c, place)
    BY <1>1, SaysMoves DEF ChatInv, ChatRows, TalkPlaces
  <1>3. ChatRows'
    BY <1>1, <1>2 DEF ChatInv, ChatRows, Spoken
  <1>4. /\ \A m \in Calls : \A i : UnderWay(m, i)' <=> UnderWay(m, i)
        /\ \A k \in 1..Len(saved) : saved[k] \in Calls \ {c}
        /\ SavedOnce'
    BY <1>1, <1>2, ChatQuiet DEF Spoken
  <1>5. \A s \in Calls : talk'[s].at \in {"read", "joined"} => talk'[s] = talk[s]
    BY <1>1, <1>2 DEF Spoken
  <1>6. ASSUME NEW s \in Calls, NEW k \in 1..Len(saved)
        PROVE  WillSee(s, k)' /\ Sees(s, k)'
    <2>1. WillSee(s, k) /\ Sees(s, k)
      BY DEF ChatInv, Seeing
    <2> QED BY <1>1, <1>4, <1>5, <2>1 DEF WillSee, Sees, Untroubled
  <1>7. Unsent'
    BY <1>1, <1>2 DEF ChatInv, Unsent, Spoken
  <1> QED BY <1>1, <1>3, <1>4, <1>6, <1>7 DEF ChatInv, Seeing

LEMMA ChatHistory ==
  ASSUME ChatInv, NEW c \in Calls, ReadHistory(c)
  PROVE  ChatInv'
  <1>1. PICK i \in Instances :
          /\ talk' = [talk EXCEPT ![c] = [at |-> "read", on |-> i, upto |-> Len(saved)]]
          /\ crossed' = crossed \cup {<<c, m>> : m \in {n \in Messages : UnderWay(n, i)}}
    BY DEF ReadHistory
  <1>2. talk[c].at = "start" /\ UNCHANGED <<saved, relay, feed>>
    BY DEF ReadHistory
  <1>3. /\ talk' \in [Calls -> TalkRow]
        /\ talk'[c].at = "read" /\ talk'[c].on = i /\ talk'[c].upto = Len(saved)
        /\ \A d \in Calls \ {c} : talk'[d] = talk[d]
    <2>1. Len(saved) \in Nat
      BY DEF ChatInv, ChatRows
    <2>2. [at |-> "read", on |-> i, upto |-> Len(saved)] \in TalkRow
      BY <2>1 DEF TalkRow, TalkPlaces
    <2> QED BY <1>1, <2>2 DEF ChatInv, ChatRows
  <1>4. ChatRows'
    <2>1. Len(saved) \in Nat /\ Len(saved) <= Len(saved)
      BY DEF ChatInv, ChatRows
    <2>2. \A s \in Calls : talk'[s].at \in {"read", "joined"} =>
            talk'[s].on \in Instances /\ talk'[s].upto <= Len(saved)
      BY <1>3, <2>1 DEF ChatInv, ChatRows
    <2>3. \A j \in Instances, m \in Calls : <<j, m>> \in relay => talk'[m].at = "emitted"
      BY <1>2, <1>3 DEF ChatInv, ChatRows
    <2> QED BY <1>2, <1>3, <2>2, <2>3 DEF ChatInv, ChatRows
  <1>5. /\ \A m \in Calls : \A j : UnderWay(m, j)' <=> UnderWay(m, j)
        /\ \A k \in 1..Len(saved) : saved[k] \in Calls \ {c}
        /\ SavedOnce'
    BY <1>2, <1>3, ChatQuiet
  <1>6. \A s \in Calls, k \in 1..Len(saved) : Untroubled(s, k)' => Untroubled(s, k)
    BY <1>1, <1>2 DEF Untroubled
  <1>7. \A k \in 1..Len(saved) : Untroubled(c, k)' => ~UnderWay(saved[k], i)'
    <2> SUFFICES ASSUME NEW k \in 1..Len(saved), UnderWay(saved[k], i)'
                 PROVE  ~Untroubled(c, k)'
      OBVIOUS
    <2>1. saved[k] \in Messages
      BY SavedAreCalls DEF ChatInv, SavedOnce, Messages
    <2>2. UnderWay(saved[k], i)
      <3>1. saved'[k] = saved[k] /\ saved[k] \in Calls
        BY <1>2, <2>1 DEF Messages
      <3> QED BY <1>5, <3>1
    <2> QED BY <1>1, <1>2, <2>1, <2>2 DEF Untroubled
  <1>8. ASSUME NEW s \in Calls, NEW k \in 1..Len(saved)
        PROVE  WillSee(s, k)' /\ Sees(s, k)'
    <2>1. CASE s = c
      <3>1. k <= Len(saved)
        BY DEF ChatInv, ChatRows
      <3> QED BY <1>2, <1>3, <1>7, <2>1, <3>1 DEF WillSee, Sees
    <2>2. CASE s # c
      <3>1. talk'[s] = talk[s] /\ WillSee(s, k) /\ Sees(s, k)
        BY <1>3, <2>2 DEF ChatInv, Seeing
      <3> QED BY <1>2, <1>5, <1>6, <3>1 DEF WillSee, Sees
    <2> QED BY <2>1, <2>2
  <1>9. Unsent'
    BY <1>2, <1>3 DEF ChatInv, Unsent
  <1> QED BY <1>2, <1>4, <1>5, <1>8, <1>9 DEF ChatInv, Seeing

LEMMA ChatJoin ==
  ASSUME ChatInv, NEW c \in Calls, JoinRoom(c)
  PROVE  ChatInv'
  <1> DEFINE history == [m \in Calls |->
               IF \E k \in 1..talk[c].upto : k <= Take /\ saved[k] = m THEN 1 ELSE 0]
  <1>1. /\ talk[c].at = "read" /\ Says(c, "joined")
        /\ feed' = [feed EXCEPT ![c] = history]
        /\ UNCHANGED <<saved, relay, crossed>>
    BY DEF JoinRoom
  <1>2. Spoken(c, "joined")
    BY <1>1, SaysMoves DEF ChatInv, ChatRows, TalkPlaces
  <1>3. /\ feed' \in [Calls -> [Calls -> Nat]]
        /\ feed'[c] = history
        /\ \A d \in Calls \ {c} : feed'[d] = feed[d]
    BY <1>1 DEF ChatInv, ChatRows
  <1>4. talk[c].upto \in Nat /\ talk[c].upto <= Len(saved) /\ Len(saved) \in Nat
    BY <1>1 DEF ChatInv, ChatRows, TalkRow
  <1>5. \A k \in 1..Len(saved) : k <= talk[c].upto =>
          history[saved[k]] = IF k <= Take THEN 1 ELSE 0
    <2> SUFFICES ASSUME NEW k \in 1..Len(saved), k <= talk[c].upto
                 PROVE  history[saved[k]] = IF k <= Take THEN 1 ELSE 0
      OBVIOUS
    <2>1. saved[k] \in Calls
      BY SavedAreCalls
    <2>2. (\E j \in 1..talk[c].upto : j <= Take /\ saved[j] = saved[k]) <=> k <= Take
      BY <1>4 DEF ChatInv, SavedOnce
    <2> QED BY <2>1, <2>2
  <1>6. \A n \in Calls : talk[n].at \notin {"saved", "emitted"} => history[n] = 0
    BY <1>4 DEF ChatInv, SavedOnce
  <1> HIDE DEF history
  <1>7. ChatRows'
    <2>1. \A s \in Calls : talk'[s].at \in {"read", "joined"} =>
            talk'[s].on \in Instances /\ talk'[s].upto <= Len(saved)
      BY <1>1, <1>2 DEF ChatInv, ChatRows, Spoken
    <2>2. \A j \in Instances, m \in Calls : <<j, m>> \in relay => talk'[m].at = "emitted"
      BY <1>1, <1>2 DEF ChatInv, ChatRows, Spoken
    <2> QED BY <1>1, <1>2, <1>3, <2>1, <2>2 DEF ChatInv, ChatRows, Spoken
  <1>8. /\ \A m \in Calls : \A i : UnderWay(m, i)' <=> UnderWay(m, i)
        /\ \A k \in 1..Len(saved) : saved[k] \in Calls \ {c}
        /\ SavedOnce'
    BY <1>1, <1>2, ChatQuiet DEF Spoken
  <1>9. ASSUME NEW s \in Calls, NEW k \in 1..Len(saved)
        PROVE  WillSee(s, k)' /\ Sees(s, k)'
    <2>1. WillSee(s, k) /\ Sees(s, k) /\ (Untroubled(s, k)' => Untroubled(s, k))
      BY <1>1 DEF ChatInv, Seeing, Untroubled
    <2>2. CASE s = c
      BY <1>1, <1>2, <1>3, <1>5, <1>8, <2>1, <2>2 DEF WillSee, Sees, Spoken
    <2>3. CASE s # c
      <3>1. talk'[s] = talk[s] /\ feed'[s] = feed[s]
        BY <1>2, <1>3, <2>3 DEF Spoken
      <3> QED BY <1>1, <1>8, <2>1, <3>1 DEF WillSee, Sees
    <2> QED BY <2>2, <2>3
  <1>10. Unsent'
    BY <1>1, <1>2, <1>3, <1>6 DEF ChatInv, Unsent, Spoken
  <1> QED BY <1>1, <1>7, <1>8, <1>9, <1>10 DEF ChatInv, Seeing

LEMMA ChatSave ==
  ASSUME ChatInv, NEW c \in Calls, SaveMessage(c)
  PROVE  ChatInv'
  <1> DEFINE n == Len(saved)
  <1>1. PICK i \in Instances : talk' = [talk EXCEPT ![c] = [at |-> "saved", on |-> i, upto |-> 0]]
    BY DEF SaveMessage
  <1>2. /\ talk[c].at = "start"
        /\ saved' = Append(saved, c)
        /\ crossed' = crossed \cup {<<s, c>> : s \in {d \in Calls : talk[d].at = "read"}}
        /\ UNCHANGED <<relay, feed>>
    BY DEF SaveMessage
  <1>3. /\ talk' \in [Calls -> TalkRow]
        /\ talk'[c].at = "saved" /\ talk'[c].on = i
        /\ \A d \in Calls \ {c} : talk'[d] = talk[d]
    <2>1. [at |-> "saved", on |-> i, upto |-> 0] \in TalkRow
      BY DEF TalkRow, TalkPlaces
    <2> QED BY <1>1, <2>1 DEF ChatInv, ChatRows
  <1>4. /\ n \in Nat /\ saved' \in Seq(Calls) /\ Len(saved') = n + 1
        /\ saved'[n + 1] = c /\ \A k \in 1..n : saved'[k] = saved[k]
    BY <1>2 DEF ChatInv, ChatRows
  <1>5. \A k \in 1..n : saved[k] \in Calls \ {c}
    BY <1>2, SavedAreCalls DEF ChatInv, SavedOnce
  <1>6. ASSUME NEW k \in 1..Len(saved') PROVE k \in 1..n \/ k = n + 1
    BY <1>4
  <1> HIDE DEF n
  <1>7. ChatRows'
    <2>1. \A s \in Calls : talk'[s].at \in {"read", "joined"} =>
            talk'[s].on \in Instances /\ talk'[s].upto <= Len(saved')
      <3> SUFFICES ASSUME NEW s \in Calls, talk'[s].at \in {"read", "joined"}
                   PROVE  talk'[s].on \in Instances /\ talk'[s].upto <= Len(saved')
        OBVIOUS
      <3>1. talk'[s] = talk[s]
        BY <1>3
      <3>2. talk[s].on \in Instances /\ talk[s].upto \in Nat /\ talk[s].upto <= n
        BY <3>1 DEF ChatInv, ChatRows, TalkRow, n
      <3> QED BY <1>4, <3>1, <3>2
    <2>2. \A j \in Instances, m \in Calls : <<j, m>> \in relay => talk'[m].at = "emitted"
      BY <1>2, <1>3 DEF ChatInv, ChatRows
    <2> QED BY <1>2, <1>3, <1>4, <2>1, <2>2 DEF ChatInv, ChatRows
  <1>8. SavedOnce'
    <2>1. ASSUME NEW k \in 1..Len(saved') PROVE talk'[saved'[k]].at \in {"saved", "emitted"}
      <3>1. CASE k \in 1..n
        BY <1>3, <1>4, <1>5, <3>1 DEF ChatInv, SavedOnce, n
      <3> QED BY <1>3, <1>4, <1>6, <3>1
    <2>2. ASSUME NEW j \in 1..Len(saved'), NEW k \in 1..Len(saved'), saved'[j] = saved'[k]
          PROVE  j = k
      <3>1. CASE j \in 1..n /\ k \in 1..n
        BY <1>4, <2>2, <3>1 DEF ChatInv, SavedOnce, n
      <3>2. CASE j = n + 1 /\ k = n + 1
        BY <3>2
      <3>3. (j \in 1..n => saved'[j] # c) /\ (k \in 1..n => saved'[k] # c)
        BY <1>4, <1>5
      <3> QED BY <1>4, <1>6, <2>2, <3>1, <3>2, <3>3
    <2> QED BY <2>1, <2>2 DEF SavedOnce
  <1>9. ASSUME NEW s \in Calls, NEW k \in 1..Len(saved')
        PROVE  WillSee(s, k)' /\ Sees(s, k)'
    <2>1. CASE talk'[s].at \notin {"read", "joined"}
      BY <2>1 DEF WillSee, Sees
    <2>2. CASE talk'[s].at \in {"read", "joined"} /\ k \in 1..n
      <3>1. talk'[s] = talk[s]
        BY <1>3, <2>2
      <3>2. WillSee(s, k) /\ Sees(s, k)
        BY <2>2 DEF ChatInv, Seeing, n
      <3>3. Untroubled(s, k)' => Untroubled(s, k)
        BY <1>2, <1>4, <2>2 DEF Untroubled
      <3>4. \A j : UnderWay(saved[k], j)' <=> UnderWay(saved[k], j)
        <4>1. saved'[k] = saved[k] /\ talk'[saved[k]] = talk[saved[k]]
          BY <1>3, <1>4, <1>5, <2>2
        <4> QED BY <1>2, <4>1 DEF UnderWay
      <3> QED BY <1>2, <1>4, <2>2, <3>1, <3>2, <3>3, <3>4 DEF WillSee, Sees
    <2>3. CASE talk'[s].at \in {"read", "joined"} /\ k = n + 1
      <3>1. talk'[s] = talk[s] /\ saved'[k] = c
        BY <1>3, <1>4, <2>3
      <3>2. talk[s].at = "read" => ~Untroubled(s, k)'
        BY <1>2, <3>1 DEF Untroubled
      <3>3. talk[s].upto \in Nat /\ talk[s].upto <= n
        BY <2>3, <3>1 DEF ChatInv, ChatRows, TalkRow, n
      <3>4. ~(k <= talk[s].upto)
        BY <1>4, <2>3, <3>3
      <3>5. talk[s].at = "joined" => feed[s][c] = 0
        BY <1>2 DEF ChatInv, Unsent
      <3>6. \A j : UnderWay(c, j)'
        BY <1>3 DEF UnderWay
      <3> QED BY <1>2, <3>1, <3>2, <3>4, <3>5, <3>6 DEF WillSee, Sees
    <2> QED BY <1>6, <2>1, <2>2, <2>3
  <1>10. Unsent'
    BY <1>2, <1>3 DEF ChatInv, Unsent
  <1> QED BY <1>7, <1>8, <1>9, <1>10 DEF ChatInv, Seeing

(* Message m arrives on instance i.                                        *)
LEMMA ChatArrives ==
  ASSUME ChatInv, NEW m \in Calls, NEW i, SentTo(i, m),
         UnderWay(m, i), ~UnderWay(m, i)',
         \A j \in Instances \ {i} : UnderWay(m, j)' <=> UnderWay(m, j),
         \A n \in Calls \ {m}, j \in Instances : UnderWay(n, j)' <=> UnderWay(n, j),
         \A s \in Calls : /\ talk'[s].at \in {"read", "joined"} => talk'[s] = talk[s]
                          /\ talk[s].at \in {"read", "joined"} => talk'[s] = talk[s],
         UNCHANGED <<saved, crossed>>
  PROVE  Seeing'
  <1> SUFFICES ASSUME NEW s \in Calls, NEW k \in 1..Len(saved) PROVE WillSee(s, k)' /\ Sees(s, k)'
    BY DEF Seeing
  <1>1. CASE talk'[s].at \notin {"read", "joined"}
    BY <1>1 DEF WillSee, Sees
  <1>2. CASE talk'[s].at \in {"read", "joined"}
    <2>1. talk'[s] = talk[s] /\ talk[s].on \in Instances
      BY <1>2 DEF ChatInv, ChatRows
    <2>2. WillSee(s, k) /\ Sees(s, k) /\ (Untroubled(s, k)' => Untroubled(s, k))
      BY DEF ChatInv, Seeing, Untroubled
    <2>3. saved'[k] = saved[k] /\ saved[k] \in Calls
      BY SavedAreCalls
    <2>4. feed'[s][saved[k]] = IF saved[k] = m /\ InRoom(s, i) THEN feed[s][saved[k]] + 1
                               ELSE feed[s][saved[k]]
      BY <2>3, SentToCounts DEF ChatInv, ChatRows
    <2>5. CASE saved[k] = m /\ talk[s].on = i
      BY <1>2, <2>1, <2>2, <2>3, <2>4, <2>5 DEF WillSee, Sees, InRoom
    <2>6. CASE ~(saved[k] = m /\ talk[s].on = i)
      <3>1. \A j \in Instances :
              j = talk[s].on => (UnderWay(saved[k], j)' <=> UnderWay(saved[k], j))
        BY <2>3, <2>6
      <3>2. feed'[s][saved[k]] = feed[s][saved[k]]
        BY <2>4, <2>6 DEF InRoom
      <3> QED BY <2>1, <2>2, <2>3, <3>1, <3>2 DEF WillSee, Sees
    <2> QED BY <2>5, <2>6
  <1> QED BY <1>1, <1>2

LEMMA ChatEmit ==
  ASSUME ChatInv, NEW c \in Calls, EmitMessage(c)
  PROVE  ChatInv'
  <1>0. PICK i : i = talk[c].on
    OBVIOUS
  <1>1. /\ talk[c].at = "saved" /\ Says(c, "emitted") /\ SentTo(i, c)
        /\ relay' = relay \cup {<<j, c>> : j \in Instances \ {i}}
        /\ UNCHANGED <<saved, crossed>>
    BY <1>0 DEF EmitMessage
  <1>2. Spoken(c, "emitted")
    BY <1>1, SaysMoves DEF ChatInv, ChatRows, TalkPlaces
  <1>3. \A j \in Instances : <<j, c>> \notin relay
    BY <1>1 DEF ChatInv, ChatRows
  <1>4. UnderWay(c, i) /\ ~UnderWay(c, i)'
    <2>1. <<i, c>> \notin relay
      BY <1>3 DEF ChatInv, ChatRows
    <2>2. \A j \in Instances \ {i} : <<j, c>> # <<i, c>>
      OBVIOUS
    <2>3. <<i, c>> \notin relay'
      BY <1>1, <2>1, <2>2
    <2> QED BY <1>1, <1>2, <2>3 DEF UnderWay, Spoken
  <1>5. \A j \in Instances \ {i} : UnderWay(c, j)' <=> UnderWay(c, j)
    BY <1>1 DEF UnderWay
  <1>6. \A n \in Calls \ {c}, j \in Instances : UnderWay(n, j)' <=> UnderWay(n, j)
    BY <1>1, <1>2 DEF UnderWay, Spoken
  <1>7. \A s \in Calls : /\ talk'[s].at \in {"read", "joined"} => talk'[s] = talk[s]
                         /\ talk[s].at \in {"read", "joined"} => talk'[s] = talk[s]
    BY <1>1, <1>2 DEF Spoken
  <1>8. Seeing'
    BY <1>1, <1>4, <1>5, <1>6, <1>7, ChatArrives
  <1>9. /\ feed' \in [Calls -> [Calls -> Nat]]
        /\ \A s, n \in Calls : n # c => feed'[s][n] = feed[s][n]
    BY <1>1, SentToCounts DEF ChatInv, ChatRows
  <1>10. ChatRows'
    <2>1. \A s \in Calls : talk'[s].at \in {"read", "joined"} =>
            talk'[s].on \in Instances /\ talk'[s].upto <= Len(saved)
      BY <1>7 DEF ChatInv, ChatRows
    <2>2. \A j \in Instances, m \in Calls : <<j, m>> \in relay' => talk'[m].at = "emitted"
      BY <1>1, <1>2 DEF ChatInv, ChatRows, Spoken
    <2>3. relay' \subseteq Instances \X Calls
      BY <1>1 DEF ChatInv, ChatRows
    <2> QED BY <1>1, <1>2, <1>9, <2>1, <2>2, <2>3 DEF ChatInv, ChatRows, Spoken
  <1>11. SavedOnce'
    BY <1>1, <1>2, SavedAreCalls DEF ChatInv, SavedOnce, Spoken
  <1>12. Unsent'
    BY <1>1, <1>2, <1>9 DEF ChatInv, Unsent, Spoken
  <1> QED BY <1>8, <1>10, <1>11, <1>12 DEF ChatInv

LEMMA ChatRelay ==
  ASSUME ChatInv, NEW m \in Calls, NEW i \in Instances, Relay(i, m)
  PROVE  ChatInv'
  <1>1. /\ <<i, m>> \in relay /\ SentTo(i, m)
        /\ relay' = relay \ {<<i, m>>}
        /\ UNCHANGED <<saved, talk, crossed>>
    BY DEF Relay
  <1>2. talk[m].at = "emitted"
    BY <1>1 DEF ChatInv, ChatRows
  <1>3. UnderWay(m, i) /\ ~UnderWay(m, i)'
    BY <1>1, <1>2 DEF UnderWay
  <1>4. \A j \in Instances \ {i} : UnderWay(m, j)' <=> UnderWay(m, j)
    BY <1>1 DEF UnderWay
  <1>5. \A n \in Calls \ {m}, j \in Instances : UnderWay(n, j)' <=> UnderWay(n, j)
    BY <1>1 DEF UnderWay
  <1>6. Seeing'
    BY <1>1, <1>3, <1>4, <1>5, ChatArrives
  <1>7. /\ feed' \in [Calls -> [Calls -> Nat]]
        /\ \A s, n \in Calls : n # m => feed'[s][n] = feed[s][n]
    BY <1>1, SentToCounts DEF ChatInv, ChatRows
  <1>8. ChatRows' /\ SavedOnce'
    BY <1>1, <1>7 DEF ChatInv, ChatRows, SavedOnce
  <1>9. Unsent'
    BY <1>1, <1>2, <1>7 DEF ChatInv, Unsent
  <1> QED BY <1>6, <1>8, <1>9 DEF ChatInv

LEMMA ChatInvHolds == ChatSpec => []ChatInv
  <1>1. ChatInit => ChatInv
    <2> SUFFICES ASSUME ChatInit PROVE ChatInv
      OBVIOUS
    <2>1. [at |-> "start", on |-> None, upto |-> 0] \in TalkRow
      BY DEF TalkRow, TalkPlaces
    <2>2. saved = <<>> /\ Len(saved) = 0 /\ 1..Len(saved) = {}
      BY DEF ChatInit
    <2>3. ChatRows
      BY <2>1, <2>2 DEF ChatInit, ChatRows
    <2> QED BY <2>2, <2>3 DEF ChatInit, ChatInv, SavedOnce, Seeing, Unsent
  <1>2. ChatInv /\ [ChatNext]_chatVars => ChatInv'
    <2> SUFFICES ASSUME ChatInv, [ChatNext]_chatVars PROVE ChatInv'
      OBVIOUS
    <2>1. CASE UNCHANGED chatVars
      BY <2>1 DEF ChatInv, chatVars, ChatRows, SavedOnce, Seeing, WillSee, Sees, Unsent,
                  Untroubled, UnderWay
    <2> QED BY <2>1, ChatLeft, ChatHistory, ChatJoin, ChatSave, ChatEmit, ChatRelay
         DEF ChatNext, ChatCall, ChatStep
  <1> QED BY <1>1, <1>2, PTL DEF ChatSpec

(* Whatever sockets join and leave, on whichever instances, a message      *)
(* reaches each of those in the room once, but for the overlaps.           *)
THEOREM MessagesSeenOnce == ChatSpec => []SeenOnce
  BY ChatInvHolds, ChatInvImplies, PTL

(* A socket is sent a message at most twice: once more, at most, as long   *)
(* as the message is under way to its instance.  Calls are finitely many,  *)
(* so there is a bound on the messages.                                    *)
SentFew(s, m) ==
  /\ feed[s][m] <= 2
  /\ talk[s].at = "joined" /\ UnderWay(m, talk[s].on) => feed[s][m] <= 1

FewSent ==
  /\ crossed \subseteq Calls \X Calls
  /\ \A s \in Calls : talk[s].upto <= Len(saved)
  /\ \A s, m \in Calls : SentFew(s, m)

LEMMA SavedAreFew ==
  ASSUME ChatInv
  PROVE  Len(saved) <= Cardinality(Calls)
  <1>1. Len(saved) \in Nat /\ saved \in [1..Len(saved) -> Calls]
    BY DEF ChatInv, ChatRows
  <1>2. IsFiniteSet(1..Len(saved)) /\ Cardinality(1..Len(saved)) = Len(saved)
    BY <1>1, FS_Interval
  <1>3. Cardinality(Calls) \in Nat
    BY CallsAssumption, FS_CardinalityType
  <1>4. CASE Cardinality(Calls) < Len(saved)
    <2>1. \E j, k \in 1..Len(saved) : j # k /\ saved[j] = saved[k]
      BY <1>1, <1>2, <1>4, CallsAssumption, FS_PigeonHole
    <2> QED BY <2>1 DEF ChatInv, SavedOnce
  <1> QED BY <1>1, <1>3, <1>4

LEMMA ChatInvTyped ==
  ASSUME ChatInv, FewSent
  PROVE  ChatTypeOK
  <1>1. Len(saved) \in Nat /\ Len(saved) <= Cardinality(Calls) /\ Cardinality(Calls) \in Nat
    BY SavedAreFew, CallsAssumption, FS_CardinalityType DEF ChatInv, ChatRows
  <1>2. talk \in [Calls -> Talk]
    <2> SUFFICES ASSUME NEW s \in Calls PROVE talk[s] \in Talk
      BY DEF ChatInv, ChatRows
    <2>1. talk[s] \in TalkRow
      BY DEF ChatInv, ChatRows
    <2>2. talk[s].upto \in 0..Cardinality(Calls)
      BY <1>1, <2>1 DEF FewSent, SentFew, TalkRow
    <2> QED BY <2>1, <2>2 DEF TalkRow, TalkPlaces, Talk
  <1>3. feed \in [Calls -> [Calls -> 0..2]]
    BY DEF ChatInv, ChatRows, FewSent, SentFew
  <1> QED BY <1>1, <1>2, <1>3 DEF ChatInv, ChatRows, FewSent, ChatTypeOK

(* Sending a message to an instance, to which it was under way until then. *)
LEMMA FewMore ==
  ASSUME ChatInv, FewSent, NEW m \in Calls, NEW i, SentTo(i, m),
         UnderWay(m, i), ~UnderWay(m, i)',
         \A n \in Calls : \A j : UnderWay(n, j)' => UnderWay(n, j),
         \A s \in Calls : talk'[s].at = "joined" => talk'[s] = talk[s]
  PROVE  \A s, n \in Calls : SentFew(s, n)'
  <1> SUFFICES ASSUME NEW s \in Calls, NEW n \in Calls
               PROVE  SentFew(s, n)'
    OBVIOUS
  <1>1. feed'[s][n] = IF n = m /\ InRoom(s, i) THEN feed[s][n] + 1 ELSE feed[s][n]
    BY SentToCounts DEF ChatInv, ChatRows
  <1>2. feed[s][n] \in Nat
    BY DEF ChatInv, ChatRows
  <1>3. CASE n = m /\ InRoom(s, i)
    <2>1. feed[s][n] <= 1
      BY <1>3 DEF FewSent, SentFew, InRoom
    <2> QED BY <1>1, <1>2, <1>3, <2>1 DEF InRoom, SentFew
  <1>4. CASE ~(n = m /\ InRoom(s, i))
    BY <1>1, <1>4 DEF FewSent, SentFew
  <1> QED BY <1>3, <1>4

LEMMA FewSentStays ==
  ASSUME ChatInv, ChatInv', FewSent, NEW c \in Calls,
         Refuse(c) \/ HandleDisconnect(c) \/ ReadHistory(c) \/ SaveMessage(c)
  PROVE  FewSent'
  <1>1. saved \in Seq(Calls) /\ Len(saved) \in Nat
    BY DEF ChatInv, ChatRows
  <1>2. CASE Refuse(c) \/ HandleDisconnect(c)
    <2>1. PICK p \in {"refused", "left"} : Says(c, p)
      BY <1>2 DEF Refuse, HandleDisconnect
    <2>2. Spoken(c, p)
      BY <2>1, SaysMoves DEF ChatInv, ChatRows, TalkPlaces
    <2>3. UNCHANGED <<saved, relay, feed, crossed>>
      BY <1>2 DEF Refuse, HandleDisconnect
    <2>4. \A m \in Calls : \A i : UnderWay(m, i)' => UnderWay(m, i)
      BY <2>2, <2>3 DEF UnderWay, Spoken
    <2> QED BY <2>2, <2>3, <2>4 DEF FewSent, SentFew, Spoken
  <1>3. CASE ReadHistory(c)
    <2>1. PICK i \in Instances :
            /\ talk' = [talk EXCEPT ![c] = [at |-> "read", on |-> i, upto |-> Len(saved)]]
            /\ crossed' = crossed \cup {<<c, m>> : m \in {n \in Messages : UnderWay(n, i)}}
      BY <1>3 DEF ReadHistory
    <2>2. /\ talk'[c] = [at |-> "read", on |-> i, upto |-> Len(saved)]
          /\ \A d \in Calls \ {c} : talk'[d] = talk[d]
      BY <2>1 DEF ChatInv, ChatRows
    <2>3. UNCHANGED <<saved, relay, feed>>
      BY <1>3 DEF ReadHistory
    <2>4. \A m \in Calls : \A j : UnderWay(m, j)' => UnderWay(m, j)
      BY <2>2, <2>3 DEF UnderWay
    <2>5. crossed' \subseteq Calls \X Calls
      BY <2>1 DEF FewSent, SentFew, Messages
    <2> QED BY <1>1, <2>2, <2>3, <2>4, <2>5 DEF FewSent, SentFew
  <1>4. CASE SaveMessage(c)
    <2>1. PICK i \in Instances : talk' = [talk EXCEPT ![c] = [at |-> "saved", on |-> i, upto |-> 0]]
      BY <1>4 DEF SaveMessage
    <2>2. /\ talk'[c] = [at |-> "saved", on |-> i, upto |-> 0]
          /\ \A d \in Calls \ {c} : talk'[d] = talk[d]
      BY <2>1 DEF ChatInv, ChatRows
    <2>3. /\ talk[c].at = "start" /\ UNCHANGED <<relay, feed>>
          /\ saved' = Append(saved, c)
          /\ crossed' = crossed \cup {<<s, c>> : s \in {d \in Calls : talk[d].at = "read"}}
      BY <1>4 DEF SaveMessage
    <2>4. Len(saved') = Len(saved) + 1
      BY <1>1, <2>3
    <2>5. \A m \in Calls \ {c} : \A j : UnderWay(m, j)' => UnderWay(m, j)
      BY <2>2, <2>3 DEF UnderWay
    <2>6. \A s \in Calls : talk[s].at = "joined" => feed[s][c] = 0
      BY <2>3 DEF ChatInv, Unsent
    <2>7. \A s \in Calls : talk'[s].upto <= Len(saved')
      <3>1. \A s \in Calls : talk[s].upto \in Nat
        BY DEF ChatInv, ChatRows, TalkRow
      <3> QED BY <1>1, <2>2, <2>4, <3>1 DEF FewSent, SentFew
    <2>8. \A s, m \in Calls : SentFew(s, m)'
      BY <2>2, <2>3, <2>5, <2>6 DEF FewSent, SentFew
    <2> QED BY <2>3, <2>7, <2>8 DEF FewSent, SentFew
  <1> QED BY <1>2, <1>3, <1>4

LEMMA FewSentOnJoining ==
  ASSUME ChatInv, FewSent, NEW c \in Calls, JoinRoom(c)
  PROVE  FewSent'
  <1> DEFINE history == [m \in Calls |->
               IF \E k \in 1..talk[c].upto : k <= Take /\ saved[k] = m THEN 1 ELSE 0]
  <1>1. Spoken(c, "joined") /\ UNCHANGED <<saved, relay, crossed>>
    BY SaysMoves DEF JoinRoom, ChatInv, ChatRows, TalkPlaces
  <1>2. feed' = [feed EXCEPT ![c] = history]
    BY DEF JoinRoom
  <1>3. \A m \in Calls : history[m] <= 1 /\ history[m] <= 2
    OBVIOUS
  <1> HIDE DEF history
  <1>4. \A m \in Calls : feed'[c][m] <= 1 /\ feed'[c][m] <= 2
    BY <1>2, <1>3 DEF ChatInv, ChatRows
  <1>5. \A s \in Calls \ {c} : feed'[s] = feed[s]
    BY <1>2 DEF ChatInv, ChatRows
  <1>6. talk[c].at = "read"
    BY DEF JoinRoom
  <1>7. \A m \in Calls : \A j : UnderWay(m, j)' => UnderWay(m, j)
    BY <1>1, <1>6 DEF UnderWay, Spoken
  <1> QED BY <1>1, <1>4, <1>5, <1>7 DEF FewSent, SentFew, Spoken

LEMMA FewSentOnSending ==
  ASSUME ChatInv, FewSent, NEW c \in Calls, EmitMessage(c) \/ \E i \in Instances : Relay(i, c)
  PROVE  FewSent'
  <1>1. CASE EmitMessage(c)
    <2>0. PICK i : i = talk[c].on
      OBVIOUS
    <2>1. /\ talk[c].at = "saved" /\ Spoken(c, "emitted") /\ SentTo(i, c)
          /\ relay' = relay \cup {<<j, c>> : j \in Instances \ {i}}
          /\ UNCHANGED <<saved, crossed>>
      BY <1>1, <2>0, SaysMoves DEF EmitMessage, ChatInv, ChatRows, TalkPlaces
    <2>2. <<i, c>> \notin relay
      BY <2>1 DEF ChatInv, ChatRows
    <2>3. UnderWay(c, i) /\ ~UnderWay(c, i)'
      BY <2>1, <2>2 DEF UnderWay, Spoken
    <2>4. \A n \in Calls : \A j : UnderWay(n, j)' => UnderWay(n, j)
      BY <2>1 DEF UnderWay, Spoken
    <2>5. \A s \in Calls : talk'[s].at = "joined" => talk'[s] = talk[s]
      BY <2>1 DEF Spoken
    <2>6. \A s, n \in Calls : SentFew(s, n)'
      BY <2>1, <2>3, <2>4, <2>5, FewMore
    <2> QED BY <2>1, <2>6 DEF FewSent, SentFew, Spoken
  <1>2. ASSUME NEW i \in Instances, Relay(i, c) PROVE FewSent'
    <2>1. /\ <<i, c>> \in relay /\ SentTo(i, c)
          /\ relay' = relay \ {<<i, c>>}
          /\ UNCHANGED <<saved, talk, crossed>>
      BY <1>2 DEF Relay
    <2>2. talk[c].at = "emitted"
      BY <2>1 DEF ChatInv, ChatRows
    <2>3. UnderWay(c, i) /\ ~UnderWay(c, i)'
      BY <2>1, <2>2 DEF UnderWay
    <2>4. \A n \in Calls : \A j : UnderWay(n, j)' => UnderWay(n, j)
      BY <2>1 DEF UnderWay
    <2>5. \A s, n \in Calls : SentFew(s, n)'
      BY <2>1, <2>3, <2>4, FewMore
    <2> QED BY <2>1, <2>5 DEF FewSent, SentFew
  <1> QED BY <1>1, <1>2

LEMMA ChatTypesHold == ChatSpec => []ChatTypeOK
  <1>1. ChatInit => FewSent
    <2> SUFFICES ASSUME ChatInit PROVE FewSent
      OBVIOUS
    <2>1. Len(saved) = 0
      BY DEF ChatInit
    <2>2. \A s, m \in Calls : feed[s][m] = 0 /\ talk[s].at = "start" /\ talk[s].upto = 0
      BY DEF ChatInit
    <2> QED BY <2>1, <2>2 DEF ChatInit, FewSent, SentFew
  <1>2. ChatInv /\ ChatInv' /\ FewSent /\ [ChatNext]_chatVars => FewSent'
    <2> SUFFICES ASSUME ChatInv, ChatInv', FewSent, [ChatNext]_chatVars PROVE FewSent'
      OBVIOUS
    <2>1. CASE UNCHANGED chatVars
      BY <2>1 DEF FewSent, SentFew, chatVars, UnderWay
    <2> QED BY <2>1, FewSentStays, FewSentOnJoining, FewSentOnSending
         DEF ChatNext, ChatCall, ChatStep
  <1> QED BY <1>1, <1>2, ChatInvHolds, ChatInvTyped, PTL DEF ChatSpec

(***************************************************************************)
(* The CV builder                                                          *)
(***************************************************************************)

(* What the page says is stored is so in the browser, or it is in the row  *)
(* and nothing else is about to be written there.                          *)
Kept ==
  draftSaved /\ ~muddled =>
    \/ cv = localDraft
    \/ /\ cv = cvRow
       /\ \A c \in Calls : cvCall[c].at \in {"save", "late"} => cvCall[c].data = cv

(* A saving that has met no other and no change carries the CV that is     *)
(* shown, and is the only one.                                             *)
Lonely(c) ==
  cvCall[c].at \in {"save", "stored"} /\ cvCall[c].clean =>
    /\ cvCall[c].data = cv
    /\ cvCall[c].at = "stored" => cvRow = cv
    /\ \A d \in Calls : Saving(d) => d = c

CvInv == CvTypeOK /\ Kept /\ \A c \in Calls : Lonely(c)

CvRows == [at : CvPlaces, data : Cv, clean : BOOLEAN]

LEMMA CvInvImplies == CvInv => SavedIsStored
  BY DEF CvInv, Kept, SavedIsStored

LEMMA EmptyCvIs == EmptyCv \in Cv /\ CvOver \in CvRows
  <1>1. <<"">> \in Seq(Texts)
    <2>1. "" \in Texts
      BY DEF Texts
    <2>2. ASSUME NEW t \in Texts PROVE <<t>> \in Seq(Texts)
      OBVIOUS
    <2> QED BY <2>1, <2>2
  <1>2. EmptyCv \in Cv
    BY <1>1 DEF EmptyCv, Cv, Texts
  <1> QED BY <1>2 DEF CvOver, CvRows, CvPlaces

(* The list without one of its items is one of the same items.             *)
LEMMA WithoutIs ==
  ASSUME NEW list \in Seq(Texts), NEW i \in 1..Len(list)
  PROVE  Without(list, i) \in Seq(Texts)
  <1>1. Len(list) \in Nat /\ \A k \in 1..Len(list) : list[k] \in Texts
    OBVIOUS
  <1>2. SubSeq(list, 1, i - 1) \in Seq(Texts)
    BY <1>1, SubSeqProperties
  <1>3. SubSeq(list, i + 1, Len(list)) \in Seq(Texts)
    BY <1>1, SubSeqProperties
  <1> QED BY <1>2, <1>3, ConcatProperties DEF Without

(* Every change of the form makes a CV of it.                              *)
LEMMA EditsAre ==
  ASSUME CvTypeOK,
         \/ EditDetails \/ EditSummary
         \/ UpdateExperience \/ RemoveExperience \/ AddExperience
         \/ UpdateEducation \/ RemoveEducation \/ AddEducation
  PROVE  \E new \in Cv : Edits(new)
  <1>1. cv \in Cv /\ cv.experience \in Seq(Texts) /\ cv.education \in Seq(Texts)
    BY DEF CvTypeOK, Cv
  <1>2. CASE EditDetails \/ EditSummary
    <2>1. ASSUME NEW t \in Texts
          PROVE [cv EXCEPT !.title = t] \in Cv /\ [cv EXCEPT !.summary = t] \in Cv
      BY <1>1 DEF Cv
    <2> QED BY <1>2, <2>1 DEF EditDetails, EditSummary
  <1>3. ASSUME NEW list \in Seq(Texts)
        PROVE [cv EXCEPT !.experience = list] \in Cv /\ [cv EXCEPT !.education = list] \in Cv
    BY <1>1, <1>3 DEF Cv
  <1>4. CASE UpdateExperience
    <2>1. PICK i \in 1..Len(cv.experience), t \in Texts : Edits([cv EXCEPT !.experience[i] = t])
      BY <1>4 DEF UpdateExperience
    <2>2. [cv.experience EXCEPT ![i] = t] \in Seq(Texts)
      BY <1>1
    <2> QED BY <1>3, <2>1, <2>2
  <1>5. CASE UpdateEducation
    <2>1. PICK i \in 1..Len(cv.education), t \in Texts : Edits([cv EXCEPT !.education[i] = t])
      BY <1>5 DEF UpdateEducation
    <2>2. [cv.education EXCEPT ![i] = t] \in Seq(Texts)
      BY <1>1
    <2> QED BY <1>3, <2>1, <2>2
  <1>6. CASE RemoveExperience
    BY <1>1, <1>3, <1>6, WithoutIs DEF RemoveExperience
  <1>7. CASE RemoveEducation
    BY <1>1, <1>3, <1>7, WithoutIs DEF RemoveEducation
  <1>8. CASE AddExperience \/ AddEducation
    <2>1. "" \in Texts
      BY DEF Texts
    <2>2. Append(cv.experience, "") \in Seq(Texts) /\ Append(cv.education, "") \in Seq(Texts)
      BY <1>1, <2>1, AppendProperties
    <2> QED BY <1>3, <1>8, <2>2 DEF AddExperience, AddEducation
  <1> QED BY <1>2, <1>4, <1>5, <1>6, <1>7, <1>8

(* After a change no saving is clean any more.                             *)
LEMMA OutdatedIs ==
  ASSUME NEW calls \in [Calls -> CvRows], NEW c \in Calls
  PROVE  /\ Outdated(calls) \in [Calls -> CvRows]
         /\ Outdated(calls)[c].at = calls[c].at
         /\ Outdated(calls)[c].data = calls[c].data
         /\ Saving(c) => ~Outdated(calls)[c].clean
         /\ ~Saving(c) => Outdated(calls)[c] = calls[c]
  BY DEF Outdated, CvRows

(* A change of the form that leaves nothing saved, or all of it muddled,   *)
(* or that shows what the browser has.                                     *)
LEMMA CvChanged ==
  ASSUME CvInv, cv' \in Cv, NEW calls \in [Calls -> CvRows], cvCall' = Outdated(calls),
         \A d \in Calls : calls[d] = cvCall[d] \/ calls[d] = CvOver,
         draftSaved' \in BOOLEAN, aiLoading' \in BOOLEAN, muddled' \in BOOLEAN,
         UNCHANGED cvStore, cvUser' \in {"wait", "user", "none"}, cvActs' \in 0..MaxActs,
         ~draftSaved' \/ muddled' \/ cv' = localDraft
  PROVE  CvInv'
  <1>1. cvCall' \in [Calls -> CvRows]
    BY DEF Outdated, CvRows
  <1>2. CvTypeOK'
    BY <1>1 DEF CvInv, CvTypeOK, CvRows, cvStore
  <1>3. Kept'
    BY DEF Kept, cvStore
  <1>4. ASSUME NEW c \in Calls PROVE Lonely(c)'
    <2>1. cvCall'[c].at \notin {"save", "stored"} \/ ~cvCall'[c].clean
      BY OutdatedIs DEF Saving, CvOver
    <2> QED BY <2>1 DEF Lonely
  <1> QED BY <1>2, <1>3, <1>4 DEF CvInv

(* A call that is no saving, before or after the step.                     *)
LEMMA CvQuiet ==
  ASSUME CvInv, NEW c \in Calls, NEW r \in CvRows, cvCall' = [cvCall EXCEPT ![c] = r],
         UNCHANGED <<cv, draftSaved, muddled, cvStore, cvActs>>, aiLoading' \in BOOLEAN,
         cvUser' \in {"wait", "user", "none"},
         r.at \notin {"save", "stored", "late"}
  PROVE  CvInv'
  <1>1. /\ cvCall' \in [Calls -> CvRows] /\ cvCall'[c] = r
        /\ \A d \in Calls \ {c} : cvCall'[d] = cvCall[d]
    BY DEF CvInv, CvTypeOK, CvRows
  <1>2. CvTypeOK'
    BY <1>1 DEF CvInv, CvTypeOK, CvRows, cvStore
  <1>3. Kept'
    BY <1>1 DEF CvInv, Kept, cvStore
  <1>4. ASSUME NEW d \in Calls PROVE Lonely(d)'
    BY <1>1 DEF CvInv, Lonely, Saving, cvStore
  <1> QED BY <1>2, <1>3, <1>4 DEF CvInv

LEMMA CvLoads ==
  ASSUME CvInv, NEW c \in Calls,
         LoadDraft(c) \/ GetCvDraft(c) \/ NoDraft(c) \/ GenerateSummary(c) \/ NoSummary(c)
  PROVE  CvInv'
  <1>1. /\ cvCall[c] \in CvRows /\ cv \in Cv /\ aiLoading \in BOOLEAN
        /\ cvRow \in {None} \cup Cv /\ cvUser \in {"wait", "user", "none"}
    BY DEF CvInv, CvTypeOK, CvRows
  <1>2. CASE LoadDraft(c)
    <2>1. [cvCall[c] EXCEPT !.at = "read"] \in CvRows
      BY <1>1 DEF CvRows, CvPlaces
    <2>2. [cvCall[c] EXCEPT !.at = "read"].at = "read"
      BY <1>1 DEF CvRows
    <2> QED BY <1>1, <1>2, <2>1, <2>2, CvQuiet DEF LoadDraft, CvMoves, cvPage
  <1>3. CASE GetCvDraft(c)
    <2>1. [cvCall[c] EXCEPT !.at = "found", !.data = cvRow] \in CvRows
      BY <1>1, <1>3 DEF CvRows, CvPlaces, GetCvDraft
    <2>2. [cvCall[c] EXCEPT !.at = "found", !.data = cvRow].at = "found"
      BY <1>1 DEF CvRows
    <2> QED BY <1>1, <1>3, <2>1, <2>2, CvQuiet DEF GetCvDraft, cvPage
  <1>4. CASE GenerateSummary(c)
    <2>1. [cvCall[c] EXCEPT !.at = "assist", !.data = cv] \in CvRows
      BY <1>1 DEF CvRows, CvPlaces
    <2>2. [cvCall[c] EXCEPT !.at = "assist", !.data = cv].at = "assist"
      BY <1>1 DEF CvRows
    <2> QED BY <1>1, <1>4, <2>1, <2>2, CvQuiet DEF GenerateSummary
  <1>5. CASE NoDraft(c) \/ NoSummary(c)
    <2>1. CvOver.at = "ended"
      BY DEF CvOver
    <2> QED BY <1>1, <1>5, <2>1, EmptyCvIs, CvQuiet DEF NoDraft, NoSummary, CvEnds, cvPage
  <1> QED BY <1>2, <1>3, <1>4, <1>5

LEMMA CvEdited ==
  ASSUME CvInv, \/ LoadLocalDraft \/ \E new \in Cv : Edits(new)
                \/ \E c \in Calls : DraftArrives(c) \/ SummaryWritten(c)
  PROVE  CvInv'
  <1>1. /\ cvCall \in [Calls -> CvRows] /\ cv \in Cv /\ draftSaved \in BOOLEAN
        /\ aiLoading \in BOOLEAN /\ muddled \in BOOLEAN /\ cvUser \in {"wait", "user", "none"}
        /\ cvActs \in 0..MaxActs /\ localDraft \in {None} \cup Cv
    BY DEF CvInv, CvTypeOK, CvRows
  <1>2. CvActs => cvActs' \in 0..MaxActs
    BY <1>1, PagesAssumption DEF CvActs
  <1>3. CASE \E new \in Cv : Edits(new)
    <2>1. PICK new \in Cv : Edits(new)
      BY <1>3
    <2>2. /\ cv' = new /\ cvCall' = Outdated(cvCall) /\ draftSaved' = FALSE
          /\ cvActs' \in 0..MaxActs /\ UNCHANGED <<aiLoading, muddled, cvStore, cvUser>>
      BY <1>2, <2>1 DEF Edits, Field
    <2> QED BY <1>1, <2>2, CvChanged
  <1>4. CASE LoadLocalDraft
    <2>1. CASE localDraft # None
      <3>1. /\ cv' = localDraft /\ cvCall' = Outdated(cvCall) /\ cvUser' = "none"
            /\ cvActs' \in 0..MaxActs /\ UNCHANGED <<draftSaved, aiLoading, muddled, cvStore>>
        BY <1>2, <1>4, <2>1 DEF LoadLocalDraft
      <3> QED BY <1>1, <2>1, <3>1, CvChanged
    <2>2. CASE localDraft = None
      <3>1. /\ UNCHANGED <<cv, cvCall, draftSaved, aiLoading, muddled, cvStore>>
            /\ cvUser' = "none" /\ cvActs' \in 0..MaxActs
        BY <1>2, <1>4, <2>2 DEF LoadLocalDraft
      <3> QED BY <3>1 DEF CvInv, CvTypeOK, Kept, Lonely, Saving, cvStore
    <2> QED BY <2>1, <2>2
  <1>5. ASSUME NEW c \in Calls PROVE /\ CvEnds(c) \in [Calls -> CvRows]
                                     /\ \A d \in Calls : CvEnds(c)[d] \in {cvCall[d], CvOver}
    BY <1>1, EmptyCvIs DEF CvEnds
  <1>6. ASSUME NEW c \in Calls, DraftArrives(c) PROVE CvInv'
    <2>1. cvCall[c].data \in Cv
      BY <1>1 DEF CvRows
    <2> QED BY <1>1, <1>5, <1>6, <2>1, CvChanged DEF DraftArrives
  <1>7. ASSUME NEW c \in Calls, SummaryWritten(c) PROVE CvInv'
    <2>1. PICK w \in Words : Field([cv EXCEPT !.summary = w], CvEnds(c))
      BY <1>7 DEF SummaryWritten
    <2>2. [cv EXCEPT !.summary = w] \in Cv
      BY <1>1 DEF Cv, Texts
    <2>3. /\ cv' \in Cv /\ cvCall' = Outdated(CvEnds(c)) /\ draftSaved' = FALSE
          /\ aiLoading' = FALSE /\ UNCHANGED <<muddled, cvStore, cvUser, cvActs>>
      BY <1>7, <2>1, <2>2 DEF Field, SummaryWritten
    <2> QED BY <1>1, <1>5, <2>3, CvChanged
  <1> QED BY <1>3, <1>4, <1>6, <1>7

(* A saving begins; the others are no longer alone.                        *)
LEMMA CvSaves ==
  ASSUME CvInv, NEW c \in Calls, SaveDraft(c)
  PROVE  CvInv'
  <1> DEFINE alone == \A d \in Calls : ~Saving(d)
             r == [at |-> "save", data |-> cv, clean |-> alone]
  <1>1. cv \in Cv /\ cvCall \in [Calls -> CvRows]
    BY DEF CvInv, CvTypeOK, CvRows
  <1>2. r \in CvRows /\ alone \in BOOLEAN
    BY <1>1 DEF CvRows, CvPlaces
  <1>3. cvCall' = [Outdated(cvCall) EXCEPT ![c] = r]
    BY DEF SaveDraft
  <1>4. Outdated(cvCall) \in [Calls -> CvRows]
    BY <1>1, OutdatedIs
  <1>5. /\ cvCall' \in [Calls -> CvRows] /\ cvCall'[c] = r
        /\ \A d \in Calls \ {c} : cvCall'[d] = Outdated(cvCall)[d]
    BY <1>2, <1>3, <1>4
  <1>6. UNCHANGED <<cvPage, cvStore, cvUser, cvActs>>
    BY DEF SaveDraft
  <1>7. CvTypeOK'
    BY <1>5, <1>6 DEF CvInv, CvTypeOK, CvRows, cvPage, cvStore
  <1>8. \A d \in Calls \ {c} : /\ cvCall'[d].at = cvCall[d].at
                               /\ cvCall'[d].data = cvCall[d].data
                               /\ Saving(d) => ~cvCall'[d].clean
    BY <1>1, <1>5, OutdatedIs
  <1>9. cvCall'[c].at = "save" /\ cvCall'[c].data = cv /\ (cvCall'[c].clean <=> alone)
    BY <1>5
  <1>10. Kept'
    BY <1>6, <1>8, <1>9 DEF CvInv, Kept, cvPage, cvStore
  <1>11. ASSUME NEW d \in Calls PROVE Lonely(d)'
    BY <1>6, <1>8, <1>9 DEF Lonely, Saving, cvPage, cvStore
  <1> QED BY <1>7, <1>10, <1>11 DEF CvInv

(* The row is written; only a saving that was alone is still clean.        *)
LEMMA CvStored ==
  ASSUME CvInv, NEW c \in Calls, SaveCvDraft(c)
  PROVE  CvInv'
  <1>1. cvCall \in [Calls -> CvRows] /\ cvCall[c] \in CvRows
    BY DEF CvInv, CvTypeOK, CvRows
  <1>2. /\ cvCall' \in [Calls -> CvRows]
        /\ \A d \in Calls \ {c} : cvCall'[d] = cvCall[d]
        /\ cvCall'[c].at \in {"stored", "ended"}
        /\ cvCall'[c].at = "stored" =>
             /\ cvCall[c].at = "save" /\ cvCall'[c].data = cvCall[c].data
             /\ cvCall'[c].clean = cvCall[c].clean
    <2>1. CASE cvCall[c].at = "save"
      BY <1>1, <2>1 DEF SaveCvDraft, CvMoves, CvRows, CvPlaces
    <2>2. CASE cvCall[c].at # "save"
      <3>1. cvCall' = [cvCall EXCEPT ![c] = CvOver] /\ CvOver.at = "ended"
        BY <2>2 DEF SaveCvDraft, CvEnds, CvOver
      <3> QED BY <1>1, <3>1, EmptyCvIs
    <2> QED BY <2>1, <2>2
  <1>3. /\ cvRow' = cvCall[c].data /\ cvCall[c].at \in {"save", "late"}
        /\ UNCHANGED <<cvPage, localDraft, cvUser, cvActs>>
    BY DEF SaveCvDraft
  <1>4. CvTypeOK'
    BY <1>1, <1>2, <1>3 DEF CvInv, CvTypeOK, CvRows, cvPage
  <1>5. Kept'
    BY <1>2, <1>3 DEF CvInv, Kept, cvPage
  <1>6. ASSUME NEW d \in Calls PROVE Lonely(d)'
    BY <1>2, <1>3 DEF CvInv, Lonely, Saving, cvPage
  <1> QED BY <1>4, <1>5, <1>6 DEF CvInv

LEMMA CvAnswered ==
  ASSUME CvInv, NEW c \in Calls, DraftIsSaved(c) \/ SaveRefused(c) \/ SaveUnanswered(c)
  PROVE  CvInv'
  <1>1. cvCall \in [Calls -> CvRows] /\ cvCall[c] \in CvRows
    BY DEF CvInv, CvTypeOK, CvRows
  <1>2. CvOver \in CvRows /\ CvOver.at = "ended"
    BY EmptyCvIs DEF CvOver
  <1>3. CASE DraftIsSaved(c) \/ SaveRefused(c)
    <2>1. /\ cvCall' \in [Calls -> CvRows] /\ cvCall'[c].at = "ended"
          /\ \A d \in Calls \ {c} : cvCall'[d] = cvCall[d]
      BY <1>1, <1>2, <1>3 DEF DraftIsSaved, SaveRefused, CvEnds
    <2>2. UNCHANGED <<cv, aiLoading, cvStore, cvUser, cvActs>>
      BY <1>3 DEF DraftIsSaved, SaveRefused
    <2>3. CvTypeOK'
      BY <1>1, <1>3, <2>1, <2>2
      DEF CvInv, CvTypeOK, DraftIsSaved, SaveRefused, CvRows, cvStore
    <2>4. Kept'
      BY <1>1, <1>3, <2>1, <2>2
      DEF CvInv, Kept, Lonely, Saving, DraftIsSaved, SaveRefused, CvRows, cvStore
    <2>5. \A d \in Calls : Lonely(d)'
      BY <2>1, <2>2 DEF CvInv, Lonely, Saving, cvStore
    <2> QED BY <2>3, <2>4, <2>5 DEF CvInv
  <1>4. CASE SaveUnanswered(c)
    <2>1. /\ cvCall' \in [Calls -> CvRows]
          /\ cvCall'[c].at \in {"late", "ended"}
          /\ cvCall'[c].at = "late" => cvCall[c].at = "save" /\ cvCall'[c].data = cvCall[c].data
          /\ \A d \in Calls \ {c} : cvCall'[d] = cvCall[d]
      <3>1. CASE cvCall[c].at = "save"
        BY <1>1, <1>4, <3>1 DEF SaveUnanswered, CvMoves, CvRows, CvPlaces
      <3>2. CASE cvCall[c].at # "save"
        BY <1>1, <1>2, <1>4, <3>2 DEF SaveUnanswered, CvEnds
      <3> QED BY <3>1, <3>2
    <2>2. UNCHANGED <<cvPage, cvStore, cvUser, cvActs>> /\ Saving(c)
      BY <1>4 DEF SaveUnanswered, Saving
    <2>3. CvTypeOK'
      BY <2>1, <2>2 DEF CvInv, CvTypeOK, CvRows, cvPage, cvStore
    <2>4. Kept'
      BY <2>1, <2>2 DEF CvInv, Kept, cvPage, cvStore
    <2>5. \A d \in Calls : Lonely(d)'
      BY <2>1, <2>2 DEF CvInv, Lonely, Saving, cvPage, cvStore
    <2> QED BY <2>3, <2>4, <2>5 DEF CvInv
  <1> QED BY <1>3, <1>4

LEMMA CvByItself ==
  ASSUME CvInv, SaveLocally \/ OpenBuilder
  PROVE  CvInv'
  <1>1. cvActs \in 0..MaxActs /\ cvActs' \in 0..MaxActs
    BY PagesAssumption DEF CvInv, CvTypeOK, SaveLocally, OpenBuilder, CvActs
  <1>2. CASE SaveLocally
    BY <1>1, <1>2 DEF CvInv, CvTypeOK, Kept, Lonely, Saving, SaveLocally
  <1>3. CASE OpenBuilder
    <2>1. cvCall \in [Calls -> CvRows] /\ CvOver \in CvRows /\ CvOver.at = "ended"
      BY EmptyCvIs DEF CvInv, CvTypeOK, CvRows, CvOver
    <2>2. ASSUME NEW c \in Calls
          PROVE cvCall'[c] \in CvRows /\ cvCall'[c].at \in {"start", "late", "ended"}
      BY <1>3, <2>1 DEF OpenBuilder, CvRows, CvPlaces
    <2>3. cvCall' \in [Calls -> CvRows]
      BY <1>3, <2>2 DEF OpenBuilder
    <2>4. CvTypeOK'
      BY <1>1, <1>3, <2>3, EmptyCvIs DEF CvInv, CvTypeOK, CvRows, OpenBuilder, cvStore
    <2> QED BY <1>3, <2>2, <2>4 DEF CvInv, Kept, Lonely, OpenBuilder
  <1> QED BY <1>2, <1>3

LEMMA CvInvHolds == CvSpec => []CvInv
  <1>1. CvInit => CvInv
    <2> SUFFICES ASSUME CvInit PROVE CvInv
      OBVIOUS
    <2>1. \A w \in Words : [EmptyCv EXCEPT !.title = w] \in Cv
      BY EmptyCvIs DEF Cv, Texts
    <2>2. cvActs \in 0..MaxActs
      BY PagesAssumption DEF CvInit
    <2>3. CvTypeOK
      BY <2>1, <2>2, EmptyCvIs DEF CvInit, CvTypeOK, CvPlaces
    <2> QED BY <2>3 DEF CvInit, CvInv, Kept, Lonely
  <1>2. CvInv /\ [CvNext]_cvVars => CvInv'
    <2> SUFFICES ASSUME CvInv, [CvNext]_cvVars PROVE CvInv'
      OBVIOUS
    <2>1. CASE UNCHANGED cvVars
      BY <2>1 DEF CvInv, CvTypeOK, Kept, Lonely, Saving, cvVars, cvPage, cvStore
    <2>2. CASE CvPageAct
      <3>1. CvTypeOK
        BY DEF CvInv
      <3> QED BY <2>2, <3>1, EditsAre, CvEdited, CvByItself DEF CvPageAct
    <2> QED BY <2>1, <2>2, CvLoads, CvEdited, CvSaves, CvStored, CvAnswered
            DEF CvNext, CvPageCall, CvPageStep
  <1> QED BY <1>1, <1>2, PTL DEF CvSpec

(* The button says "Draft saved" of what is saved.                         *)
THEOREM SavedDraftsAreStored == CvSpec => []SavedIsStored
  BY CvInvHolds, CvInvImplies, PTL

(***************************************************************************)
(* The pages about a job                                                   *)
(***************************************************************************)

MarkServed(c) == Waits(c, "mark") /\ jobCall[c].at = "served"

(* While nothing is blurred, what was left behind asks for what is shown,  *)
(* and the row has it as well if no answer says otherwise.                 *)
MarkSettled ==
  ~blurred => /\ \A c \in Calls : MayWrite(c) /\ ~jobCall[c].heard => jobCall[c].to = mark
              /\ (\A c \in Calls : ~MarkServed(c)) => mark = markRow

(* An exchange that is alone agrees with all others that may change the    *)
(* bookmark, and with the row once it has written it.                      *)
AloneMark(c) ==
  Waits(c, "mark") /\ jobCall[c].alone =>
    /\ \A d \in Calls : ~Waits(d, "load")
    /\ \A d \in Calls : MayMark(d) => jobCall[d].to = jobCall[c].to
    /\ jobCall[c].at = "served" => markRow = jobCall[c].to

AloneLoad(c) ==
  Waits(c, "load") /\ jobCall[c].alone =>
    /\ \A d \in Calls : ~MayMark(d)
    /\ "mark" \in jobCall[c].got => jobCall[c].mark = markRow

(* A card makes one exchange at a time, for the contrary of what it shows. *)
OneOnCard ==
  opened = "card" =>
    /\ \A c, d \in Calls : Waits(c, "mark") /\ Waits(d, "mark") => c = d
    /\ \A c \in Calls : Waits(c, "mark") =>
         marking /\ (jobCall[c].alone => jobCall[c].to = ~mark)

JobTypes ==
  /\ opened \in {"none", "card", "job", "list"}
  /\ mark \in BOOLEAN /\ markRow \in BOOLEAN /\ appRow \in AppStatuses
  /\ jobCall \in [Calls -> JobCall]
  /\ \A c \in Calls : jobCall[c].at = "start" => jobCall[c].does = "none"
  /\ \A c \in Calls : Waits(c, "withdraw") => opened = "list"

JobRight ==
  opened \in {"card", "job"} =>
    MarkSettled /\ OneOnCard /\ \A c \in Calls : AloneMark(c) /\ AloneLoad(c)

JobInv == JobTypes /\ JobRight

LEMMA JobInvImplies == JobInv => MarkIsStored
  BY DEF JobInv, JobRight, MarkSettled, MarkServed, MarkIsStored

LEMMA NewJobCallIs ==
  /\ NewJobCall \in JobCall /\ NewJobCall.at = "start" /\ NewJobCall.does = "none"
  /\ JobCallOver \in JobCall /\ JobCallOver.at = "ended" /\ JobCallOver.does = "none"
  BY DEF NewJobCall, JobCallOver, JobCall, JobErrands, AppStatuses

LEMMA JobMoves ==
  ASSUME JobTypes, NEW c \in Calls, NEW r \in JobCall, jobCall' = [jobCall EXCEPT ![c] = r],
         opened' = opened, mark' \in BOOLEAN, markRow' \in BOOLEAN, appRow' \in AppStatuses,
         r.at # "start", r.does = "withdraw" /\ r.heard => opened = "list"
  PROVE  /\ JobTypes' /\ jobCall'[c] = r
         /\ \A d \in Calls \ {c} : jobCall'[d] = jobCall[d]
  BY DEF JobTypes, Waits

(* What a call does that is not about the bookmark leaves it alone, and so *)
(* does an exchange about it that is refused.                              *)
LEMMA JobElsewhere ==
  ASSUME JobInv, NEW c \in Calls, NEW r \in JobCall, jobCall' = [jobCall EXCEPT ![c] = r],
         UNCHANGED <<opened, mark, blurred, markRow>>, appRow' \in AppStatuses,
         marking' = marking \/ Waits(c, "mark"), ~MarkServed(c),
         r.at # "start", r.does \notin {"load", "mark"},
         r.does = "withdraw" /\ r.heard => opened = "list"
  PROVE  JobInv'
  <1>1. /\ JobTypes' /\ jobCall'[c] = r
        /\ \A d \in Calls \ {c} : jobCall'[d] = jobCall[d]
    BY JobMoves DEF JobInv, JobTypes
  <1>2. \A d \in Calls : /\ MayWrite(d)' <=> MayWrite(d) /\ d # c
                         /\ Waits(d, "mark")' <=> Waits(d, "mark") /\ d # c
                         /\ Waits(d, "load")' <=> Waits(d, "load") /\ d # c
                         /\ MarkServed(d)' <=> MarkServed(d)
    BY <1>1 DEF MayWrite, Waits, MarkServed
  <1>3. ASSUME opened \in {"card", "job"} PROVE MarkSettled'
    BY <1>1, <1>2, <1>3 DEF JobInv, JobRight, MarkSettled
  <1>4. ASSUME opened \in {"card", "job"} PROVE OneOnCard'
    BY <1>1, <1>2, <1>4 DEF JobInv, JobRight, OneOnCard
  <1>5. ASSUME opened \in {"card", "job"}, NEW d \in Calls PROVE (AloneMark(d) /\ AloneLoad(d))'
    <2>1. AloneMark(d) /\ AloneLoad(d)
      BY <1>5 DEF JobInv, JobRight
    <2>2. \A e \in Calls : MayMark(e)' <=> MayMark(e) /\ e # c
      BY <1>2 DEF MayMark
    <2> QED BY <1>1, <1>2, <2>1, <2>2 DEF AloneMark, AloneLoad
  <1> QED BY <1>1, <1>3, <1>4, <1>5 DEF JobInv, JobRight

LEMMA JobApplies ==
  ASSUME JobInv, NEW c \in Calls,
         \/ LoadFails(c) \/ SubmitApplication(c) \/ UploadResume(c) \/ StoreApplication(c)
         \/ ApplicationSubmitted(c) \/ ApplicationFails(c)
  PROVE  JobInv'
  <1>1. jobCall[c] \in JobCall /\ (jobCall[c].at = "start" => jobCall[c].does = "none")
    BY DEF JobInv, JobTypes
  <1>2. appRow' \in AppStatuses
    BY DEF JobInv, JobTypes, AppStatuses, LoadFails, SubmitApplication, UploadResume,
           StoreApplication, ApplicationSubmitted, ApplicationFails, jobStore
  <1>3. ASSUME NEW r \in JobCall, jobCall' = [jobCall EXCEPT ![c] = r], ~MarkServed(c),
               UNCHANGED jobView, markRow' = markRow, r.at # "start", r.does \in {"none", "resume", "apply"}
        PROVE  JobInv'
    BY <1>3, <1>2, JobElsewhere DEF jobView
  <1>4. CASE LoadFails(c) \/ ApplicationSubmitted(c)
    <2>1. ~MarkServed(c) /\ jobCall' = [jobCall EXCEPT ![c] = JobCallOver]
      BY <1>4 DEF LoadFails, ApplicationSubmitted, MarkServed, Waits, JobOver
    <2>2. UNCHANGED jobView /\ markRow' = markRow
      BY <1>4 DEF LoadFails, ApplicationSubmitted, jobStore
    <2> QED BY <1>3, <2>1, <2>2, NewJobCallIs
  <1>5. CASE SubmitApplication(c)
    <2>1. PICK errand \in {"resume", "apply"} :
            jobCall' = [jobCall EXCEPT ![c] = [NewJobCall EXCEPT
              !.does = errand, !.at = "asked", !.heard = TRUE]]
      BY <1>5 DEF SubmitApplication
    <2> DEFINE r == [NewJobCall EXCEPT !.does = errand, !.at = "asked", !.heard = TRUE]
    <2>2. r \in JobCall /\ r.at = "asked" /\ r.does = errand
      BY DEF NewJobCall, JobCall, JobErrands, AppStatuses
    <2>3. ~MarkServed(c) /\ UNCHANGED jobView /\ markRow' = markRow
      BY <1>1, <1>5 DEF SubmitApplication, MarkServed, Waits, jobStore
    <2> QED BY <1>3, <2>1, <2>2, <2>3
  <1>6. CASE UploadResume(c)
    <2> DEFINE r == [jobCall[c] EXCEPT !.does = "apply"]
    <2>1. r \in JobCall /\ r.at = jobCall[c].at /\ r.does = "apply"
      BY <1>1 DEF JobCall, JobErrands
    <2>2. jobCall[c].at # "start" /\ ~MarkServed(c) /\ UNCHANGED jobView /\ markRow' = markRow
      BY <1>1, <1>6 DEF UploadResume, MarkServed, Waits, jobStore
    <2>3. jobCall' = [jobCall EXCEPT ![c] = r]
      BY <1>6 DEF UploadResume
    <2> QED BY <1>3, <2>1, <2>2, <2>3
  <1>7. CASE StoreApplication(c)
    <2> DEFINE r == IF jobCall[c].heard THEN [jobCall[c] EXCEPT !.at = "served"] ELSE JobCallOver
    <2>1. r \in JobCall /\ r.at \in {"served", "ended"} /\ r.does \in {"none", "apply"}
      BY <1>1, <1>7, NewJobCallIs DEF StoreApplication, JobCall
    <2>2. ~MarkServed(c) /\ UNCHANGED jobView /\ markRow' = markRow
      BY <1>7 DEF StoreApplication, MarkServed, Waits
    <2>3. jobCall' = [jobCall EXCEPT ![c] = r]
      BY <1>7 DEF StoreApplication, JobServed
    <2> QED BY <1>3, <2>1, <2>2, <2>3
  <1>8. CASE ApplicationFails(c)
    <2>1. ~MarkServed(c) /\ UNCHANGED jobView /\ markRow' = markRow
      BY <1>8 DEF ApplicationFails, MarkServed, Waits, jobStore
    <2>2. CASE jobCall' = JobOver(c)
      BY <1>3, <2>1, <2>2, NewJobCallIs DEF JobOver
    <2>3. CASE jobCall[c].at = "asked" /\ Waits(c, "apply")
               /\ jobCall' = [jobCall EXCEPT ![c].heard = FALSE]
      <3> DEFINE r == [jobCall[c] EXCEPT !.heard = FALSE]
      <3>1. r \in JobCall /\ r.at = "asked" /\ r.does = "apply"
        BY <1>1, <2>3 DEF JobCall, Waits
      <3> QED BY <1>3, <2>1, <2>3, <3>1
    <2> QED BY <1>8, <2>2, <2>3 DEF ApplicationFails
  <1> QED BY <1>4, <1>5, <1>6, <1>7, <1>8

LEMMA JobWithdraws ==
  ASSUME JobInv, NEW c \in Calls,
         Withdraw(c) \/ FindOpen(c) \/ WriteWithdrawn(c) \/ WithdrawFails(c)
  PROVE  JobInv'
  <1>1. /\ jobCall[c] \in JobCall /\ (jobCall[c].at = "start" => jobCall[c].does = "none")
        /\ Waits(c, "withdraw") => opened = "list"
    BY DEF JobInv, JobTypes
  <1>2. /\ ~MarkServed(c) /\ markRow' = markRow
        /\ UNCHANGED <<opened, mark, marking, blurred>> /\ appRow' \in AppStatuses
    BY <1>1 DEF JobInv, JobTypes, AppStatuses, Withdraw, FindOpen, WriteWithdrawn, WithdrawFails, MarkServed, Waits, jobStore,
                jobView
  <1>3. ASSUME NEW r \in JobCall, jobCall' = [jobCall EXCEPT ![c] = r], r.at # "start",
               r.does = "none" \/ (r.does = "withdraw" /\ (r.heard => opened = "list"))
        PROVE  JobInv'
    BY <1>2, <1>3, JobElsewhere
  <1>4. CASE Withdraw(c)
    <2> DEFINE r == [NewJobCall EXCEPT !.does = "withdraw", !.at = "asked", !.heard = TRUE]
    <2>1. r \in JobCall /\ r.at = "asked" /\ r.does = "withdraw"
      BY DEF NewJobCall, JobCall, JobErrands, AppStatuses
    <2>2. jobCall' = [jobCall EXCEPT ![c] = r] /\ opened = "list"
      BY <1>4 DEF Withdraw
    <2> QED BY <1>3, <2>1, <2>2
  <1>5. CASE FindOpen(c)
    <2> DEFINE r == [jobCall[c] EXCEPT !.at = "half"]
    <2>1. r \in JobCall /\ r.at = "half" /\ r.does = "withdraw" /\ r.heard = jobCall[c].heard
      BY <1>1, <1>5 DEF FindOpen, JobCall
    <2>2. jobCall' = [jobCall EXCEPT ![c] = r] /\ jobCall[c].does = "withdraw"
      BY <1>5 DEF FindOpen
    <2> QED BY <1>1, <1>3, <2>1, <2>2 DEF Waits
  <1>6. CASE WriteWithdrawn(c)
    <2> DEFINE r == IF jobCall[c].heard THEN [jobCall[c] EXCEPT !.at = "served"] ELSE JobCallOver
    <2>1. /\ r \in JobCall /\ r.at \in {"served", "ended"}
          /\ r.does = "none" \/ (r.does = "withdraw" /\ jobCall[c].heard)
      BY <1>1, <1>6, NewJobCallIs DEF WriteWithdrawn, JobCall
    <2>2. jobCall' = [jobCall EXCEPT ![c] = r] /\ jobCall[c].does = "withdraw"
      BY <1>6 DEF WriteWithdrawn, JobServed
    <2> QED BY <1>1, <1>3, <2>1, <2>2 DEF Waits
  <1>7. CASE WithdrawFails(c)
    <2>1. CASE jobCall' = JobOver(c)
      BY <1>3, <2>1, NewJobCallIs DEF JobOver
    <2>2. CASE jobCall' = [jobCall EXCEPT ![c].heard = FALSE]
      <3> DEFINE r == [jobCall[c] EXCEPT !.heard = FALSE]
      <3>1. r \in JobCall /\ r.at # "start" /\ r.does = "withdraw" /\ ~r.heard
        BY <1>1, <1>7 DEF WithdrawFails, JobCall, Waits
      <3> QED BY <1>3, <2>2, <3>1
    <2> QED BY <1>7, <2>1, <2>2 DEF WithdrawFails
  <1> QED BY <1>4, <1>5, <1>6, <1>7

(* The bookmark of the list is not that of a card or a page.               *)
LEMMA JobLists ==
  ASSUME JobInv, NEW c \in Calls,
         FindByUser(c) \/ ListArrives(c) \/ UnsaveEnds(c) \/ Withdrawn(c)
  PROVE  JobInv'
  <1>1. /\ opened = "list" /\ UNCHANGED <<opened, mark, markRow, appRow>>
        /\ jobCall[c] \in JobCall /\ appRow \in AppStatuses
    BY DEF JobInv, JobTypes, FindByUser, ListArrives, UnsaveEnds, Withdrawn, jobView, jobStore
  <1>2. ASSUME NEW r \in JobCall, jobCall' = [jobCall EXCEPT ![c] = r], r.at # "start"
        PROVE  JobInv'
    BY <1>1, <1>2, JobMoves DEF JobInv, JobTypes, JobRight
  <1>3. CASE FindByUser(c)
    <2> DEFINE r == [jobCall[c] EXCEPT !.got = @ \cup {"app"}, !.app = appRow]
    <2>1. r \in JobCall /\ r.at = jobCall[c].at /\ jobCall[c].at # "start"
      BY <1>1, <1>3 DEF JobCall, FindByUser, Waits, JobInv, JobTypes
    <2> QED BY <1>2, <1>3, <2>1 DEF FindByUser
  <1>4. CASE ListArrives(c)
    BY <1>2, <1>4, NewJobCallIs DEF ListArrives, JobOver
  <1>5. CASE UnsaveEnds(c) \/ Withdrawn(c)
    <2>1. PICK closes \in BOOLEAN : jobCall' = Loading(jobCall, c, FALSE, closes)
      BY <1>5 DEF UnsaveEnds, Withdrawn
    <2> DEFINE r == [NewJobCall EXCEPT !.does = "load", !.at = "asked",
                       !.heard = TRUE, !.alone = FALSE, !.closes = closes]
    <2>2. r \in JobCall /\ r.at = "asked"
      BY DEF NewJobCall, JobCall, JobErrands, AppStatuses
    <2> QED BY <1>2, <2>1, <2>2 DEF Loading
  <1> QED BY <1>3, <1>4, <1>5

LEMMA JobVisits ==
  ASSUME JobInv, NEW c \in Calls, Visit(c)
  PROVE  JobInv'
  <1> DEFINE alone == \A d \in Calls : ~MayWrite(d)
             r == [NewJobCall EXCEPT !.does = "load", !.at = "asked",
                     !.heard = TRUE, !.alone = alone, !.closes = FALSE]
  <1>1. r \in JobCall /\ r.at = "asked" /\ r.does = "load" /\ r.got = {} /\ r.alone = alone
    BY DEF NewJobCall, JobCall, JobErrands, AppStatuses
  <1>2. jobCall' = [Leaving EXCEPT ![c] = r]
    BY DEF Visit, Loading
  <1>3. ASSUME NEW d \in Calls
        PROVE  /\ Leaving[d] \in JobCall
               /\ Leaving[d].at = "start" => Leaving[d].does = "none"
               /\ Leaving[d].does # "none" => ~Leaving[d].heard
               /\ Leaving[d].does = "mark" /\ Leaving[d].at = "asked" => MayWrite(d)
    BY NewJobCallIs DEF JobInv, JobTypes, Leaving, JobCall, MayWrite
  <1>4. /\ jobCall' \in [Calls -> JobCall] /\ jobCall'[c] = r
        /\ \A d \in Calls \ {c} : jobCall'[d] = Leaving[d]
    BY <1>1, <1>2, <1>3 DEF Leaving
  <1>5. /\ opened' \in {"card", "job", "list"} /\ mark' = FALSE /\ blurred' = TRUE
        /\ UNCHANGED <<markRow, appRow>>
    BY DEF Visit, jobStore
  <1>6. JobTypes'
    BY <1>1, <1>3, <1>4, <1>5 DEF JobInv, JobTypes, Waits
  <1>7. \A d \in Calls : ~Waits(d, "mark")' /\ (Waits(d, "load")' => d = c)
    BY <1>1, <1>3, <1>4 DEF Waits
  <1>8. alone => \A d \in Calls : ~MayMark(d)'
    BY <1>1, <1>3, <1>4, <1>7 DEF MayMark, MayWrite
  <1>9. \A d \in Calls : AloneMark(d)' /\ AloneLoad(d)'
    BY <1>1, <1>4, <1>7, <1>8 DEF AloneMark, AloneLoad
  <1> QED BY <1>5, <1>6, <1>7, <1>9 DEF JobInv, JobRight, MarkSettled, OneOnCard

LEMMA JobLoads ==
  ASSUME JobInv, NEW c \in Calls, GetSavedJobs(c) \/ LoadArrives(c)
  PROVE  JobInv'
  <1>1. jobCall[c] \in JobCall /\ jobCall[c].at # "start" /\ jobCall[c].does = "load"
    BY DEF JobInv, JobTypes, GetSavedJobs, LoadArrives, Waits
  <1>2. CASE GetSavedJobs(c)
    <2> DEFINE r == [jobCall[c] EXCEPT !.got = @ \cup {"mark"}, !.mark = markRow]
    <2>1. /\ r \in JobCall /\ r.at = jobCall[c].at /\ r.does = "load"
          /\ r.heard = jobCall[c].heard /\ r.alone = jobCall[c].alone /\ r.mark = markRow
      BY <1>1 DEF JobInv, JobTypes, JobCall
    <2>2. jobCall' = [jobCall EXCEPT ![c] = r] /\ UNCHANGED <<jobView, jobStore>>
      BY <1>2 DEF GetSavedJobs
    <2>3. /\ JobTypes' /\ jobCall'[c] = r
          /\ \A d \in Calls \ {c} : jobCall'[d] = jobCall[d]
      BY <1>1, <2>1, <2>2, JobMoves DEF JobInv, JobTypes, jobView, jobStore
    <2>4. \A d \in Calls : /\ MayWrite(d)' <=> MayWrite(d)
                           /\ Waits(d, "mark")' <=> Waits(d, "mark")
                           /\ Waits(d, "load")' <=> Waits(d, "load")
                           /\ MarkServed(d)' <=> MarkServed(d)
                           /\ d # c => jobCall'[d] = jobCall[d]
      BY <1>1, <2>1, <2>3 DEF MayWrite, Waits, MarkServed
    <2>5. ASSUME opened \in {"card", "job"} PROVE MarkSettled' /\ OneOnCard'
      BY <1>1, <2>2, <2>4, <2>5
      DEF JobInv, JobRight, MarkSettled, OneOnCard, MayWrite, Waits, jobView, jobStore
    <2>6. ASSUME opened \in {"card", "job"}, NEW d \in Calls
          PROVE  (AloneMark(d) /\ AloneLoad(d))'
      <3>1. AloneMark(d) /\ AloneLoad(d) /\ \A e \in Calls : MayMark(e)' <=> MayMark(e)
        BY <2>4, <2>6 DEF JobInv, JobRight, MayMark
      <3>2. AloneMark(d)'
        BY <1>1, <2>2, <2>4, <3>1 DEF AloneMark, MayMark, MayWrite, Waits, jobStore
      <3>3. AloneLoad(d)'
        BY <2>1, <2>2, <2>3, <2>4, <3>1 DEF AloneLoad, jobStore
      <3> QED BY <3>2, <3>3
    <2> QED BY <2>2, <2>3, <2>5, <2>6 DEF JobInv, JobRight, jobView
  <1>3. CASE LoadArrives(c)
    <2>1. /\ jobCall' = [jobCall EXCEPT ![c] = JobCallOver] /\ mark' = jobCall[c].mark
          /\ blurred' = ~jobCall[c].alone /\ UNCHANGED <<opened, marking, jobStore>>
          /\ Waits(c, "load") /\ "mark" \in jobCall[c].got
      BY <1>3 DEF LoadArrives, JobOver
    <2>2. mark' \in BOOLEAN
      BY <1>1, <2>1 DEF JobCall
    <2>3. /\ JobTypes' /\ jobCall'[c] = JobCallOver
          /\ \A d \in Calls \ {c} : jobCall'[d] = jobCall[d]
      BY <2>1, <2>2, JobMoves, NewJobCallIs DEF JobInv, JobTypes, jobStore
    <2>4. \A d \in Calls : /\ MayWrite(d)' <=> MayWrite(d)
                           /\ Waits(d, "mark")' <=> Waits(d, "mark")
                           /\ Waits(d, "mark") => d # c
                           /\ Waits(d, "load")' <=> Waits(d, "load") /\ d # c
                           /\ MarkServed(d)' <=> MarkServed(d)
      BY <1>1, <2>3, NewJobCallIs DEF MayWrite, Waits, MarkServed
    <2>5. ASSUME opened \in {"card", "job"} PROVE JobRight'
      <3>1. \A d \in Calls : AloneMark(d) /\ AloneLoad(d)
        BY <2>5 DEF JobInv, JobRight
      <3>2. \A d \in Calls : Waits(d, "mark") => ~jobCall[d].alone
        BY <2>1, <3>1 DEF AloneMark
      <3>3. \A d \in Calls : AloneMark(d)'
        BY <2>3, <2>4, <3>2, NewJobCallIs DEF AloneMark
      <3>4. \A d \in Calls : AloneLoad(d)'
        BY <2>1, <2>3, <2>4, <3>1 DEF AloneLoad, MayMark, jobStore
      <3>5. MarkSettled'
        <4>1. jobCall[c].alone => markRow' = mark' /\ \A d \in Calls : ~MayWrite(d)'
          BY <2>1, <2>4, <3>1 DEF AloneLoad, MayMark, jobStore
        <4> QED BY <2>1, <4>1 DEF MarkSettled
      <3>6. OneOnCard'
        BY <2>1, <2>3, <2>4, <2>5, <3>2, NewJobCallIs DEF JobInv, JobRight, OneOnCard
      <3> QED BY <3>3, <3>4, <3>5, <3>6 DEF JobRight
    <2> QED BY <2>1, <2>3, <2>5 DEF JobInv, JobRight
  <1> QED BY <1>2, <1>3

(* A button is pressed: the exchange clashes with those that do not agree, *)
(* and they with it.                                                       *)
LEMMA TogglesAre ==
  ASSUME JobTypes, NEW c \in Calls, NEW to \in BOOLEAN, Toggles(c, to), jobCall[c].at = "start"
  PROVE  /\ jobCall' \in [Calls -> JobCall]
         /\ jobCall'[c].does = "mark" /\ jobCall'[c].at = "asked" /\ jobCall'[c].heard
         /\ jobCall'[c].to = to
         /\ jobCall'[c].alone => \A d \in Calls : /\ ~Waits(d, "load")
                                                  /\ MayMark(d) => jobCall[d].to = to
         /\ \A d \in Calls \ {c} :
              /\ jobCall'[d].does = jobCall[d].does /\ jobCall'[d].at = jobCall[d].at
              /\ jobCall'[d].heard = jobCall[d].heard /\ jobCall'[d].to = jobCall[d].to
              /\ jobCall'[d].got = jobCall[d].got /\ jobCall'[d].mark = jobCall[d].mark
              /\ jobCall'[d].alone =>
                   /\ jobCall[d].alone /\ ~Waits(d, "load")
                   /\ MayMark(d) => jobCall[d].to = to
  <1> DEFINE clash(d) == Waits(d, "load") \/ (MayMark(d) /\ jobCall[d].to # to)
             r == [NewJobCall EXCEPT !.does = "mark", !.at = "asked", !.heard = TRUE,
                     !.to = to, !.alone = \A e \in Calls : ~clash(e)]
  <1>1. jobCall' = [d \in Calls |->
          IF d = c THEN r
          ELSE IF clash(d) THEN [jobCall[d] EXCEPT !.alone = FALSE] ELSE jobCall[d]]
    BY DEF Toggles
  <1>2. /\ r \in JobCall /\ r.does = "mark" /\ r.at = "asked" /\ r.heard /\ r.to = to
        /\ r.alone <=> \A e \in Calls : ~clash(e)
    BY DEF NewJobCall, JobCall, JobErrands, AppStatuses
  <1>3. ASSUME NEW d \in Calls \ {c}
        PROVE  /\ jobCall'[d] \in JobCall
               /\ jobCall'[d].does = jobCall[d].does /\ jobCall'[d].at = jobCall[d].at
               /\ jobCall'[d].heard = jobCall[d].heard /\ jobCall'[d].to = jobCall[d].to
               /\ jobCall'[d].got = jobCall[d].got /\ jobCall'[d].mark = jobCall[d].mark
               /\ jobCall'[d].alone => jobCall[d].alone /\ ~clash(d)
    <2>1. jobCall[d] \in JobCall
      BY DEF JobTypes
    <2>2. CASE clash(d)
      <3>1. jobCall'[d] = [jobCall[d] EXCEPT !.alone = FALSE]
        BY <1>1, <2>2
      <3> QED BY <2>1, <3>1 DEF JobCall
    <2>3. CASE ~clash(d)
      <3>1. jobCall'[d] = jobCall[d]
        BY <1>1, <2>3
      <3> QED BY <2>1, <2>3, <3>1
    <2> QED BY <2>2, <2>3
  <1>4. jobCall'[c] = r
    BY <1>1
  <1>5. jobCall' \in [Calls -> JobCall]
    <2>1. \A d \in Calls : jobCall'[d] \in JobCall
      BY <1>2, <1>3, <1>4
    <2> QED BY <1>1, <2>1
  <1> QED BY <1>2, <1>3, <1>4, <1>5

LEMMA JobToggles ==
  ASSUME JobInv, NEW c \in Calls, ToggleCard(c) \/ ToggleSaved(c) \/ Unsave(c)
  PROVE  JobInv'
  <1>1. /\ jobCall[c].at = "start" /\ ~Waits(c, "mark") /\ ~Waits(c, "load") /\ ~MayWrite(c)
        /\ UNCHANGED <<opened, mark, blurred, jobStore>>
    BY DEF JobInv, JobTypes, ToggleCard, ToggleSaved, Unsave, Waits, MayWrite, jobView
  <1>2. (~mark) \in BOOLEAN /\ JobTypes
    BY DEF JobInv, JobTypes
  <1>3. PICK to \in BOOLEAN : Toggles(c, to) /\ (opened \in {"card", "job"} => to = ~mark)
    BY <1>2 DEF ToggleCard, ToggleSaved, Unsave
  <1>4. /\ jobCall' \in [Calls -> JobCall]
        /\ jobCall'[c].does = "mark" /\ jobCall'[c].at = "asked" /\ jobCall'[c].heard
        /\ jobCall'[c].to = to
        /\ jobCall'[c].alone => \A d \in Calls : /\ ~Waits(d, "load")
                                                 /\ MayMark(d) => jobCall[d].to = to
        /\ \A d \in Calls \ {c} :
             /\ jobCall'[d].does = jobCall[d].does /\ jobCall'[d].at = jobCall[d].at
             /\ jobCall'[d].heard = jobCall[d].heard /\ jobCall'[d].to = jobCall[d].to
             /\ jobCall'[d].got = jobCall[d].got /\ jobCall'[d].mark = jobCall[d].mark
             /\ jobCall'[d].alone =>
                  /\ jobCall[d].alone /\ ~Waits(d, "load")
                  /\ MayMark(d) => jobCall[d].to = to
    BY <1>1, <1>2, <1>3, TogglesAre
  <1>5. \A d \in Calls : /\ MayWrite(d)' <=> MayWrite(d) \/ d = c
                         /\ Waits(d, "mark")' <=> Waits(d, "mark") \/ d = c
                         /\ Waits(d, "load")' <=> Waits(d, "load")
                         /\ MarkServed(d)' <=> MarkServed(d)
                         /\ MayMark(d)' <=> MayMark(d) \/ d = c
    BY <1>1, <1>4 DEF MayWrite, MayMark, Waits, MarkServed
  <1>6. JobTypes'
    BY <1>1, <1>4, <1>5 DEF JobInv, JobTypes, Waits, jobStore
  <1>7. ASSUME opened \in {"card", "job"} PROVE MarkSettled'
    BY <1>1, <1>4, <1>5, <1>7 DEF JobInv, JobRight, MarkSettled, jobStore
  <1>8. ASSUME opened \in {"card", "job"}, NEW d \in Calls PROVE (AloneMark(d) /\ AloneLoad(d))'
    <2>1. AloneMark(d) /\ AloneLoad(d)
      BY <1>8 DEF JobInv, JobRight
    <2>2. AloneMark(d)'
      BY <1>1, <1>4, <1>5, <2>1 DEF AloneMark, MayMark, jobStore
    <2>3. AloneLoad(d)'
      BY <1>1, <1>4, <1>5 DEF AloneLoad
    <2> QED BY <2>2, <2>3
  <1>9. ASSUME opened = "card" PROVE OneOnCard'
    <2>1. marking' = TRUE /\ ~marking
      BY <1>9 DEF ToggleCard, ToggleSaved, Unsave
    <2>2. \A d \in Calls : ~Waits(d, "mark")
      BY <1>9, <2>1 DEF JobInv, JobRight, OneOnCard
    <2> QED BY <1>1, <1>3, <1>4, <1>5, <1>9, <2>1, <2>2 DEF OneOnCard
  <1> QED BY <1>1, <1>6, <1>7, <1>8, <1>9 DEF JobInv, JobRight, OneOnCard

(* The row is written.  What is left behind writes what is shown; what is  *)
(* waited for is an answer that will say so.                               *)
LEMMA JobSaves ==
  ASSUME JobInv, NEW c \in Calls, SaveJob(c)
  PROVE  JobInv'
  <1> DEFINE r == IF jobCall[c].heard THEN [jobCall[c] EXCEPT !.at = "served"] ELSE JobCallOver
  <1>1. jobCall[c] \in JobCall /\ jobCall[c].does = "mark" /\ jobCall[c].at = "asked"
    BY DEF JobInv, JobTypes, SaveJob, MayWrite
  <1>2. /\ r \in JobCall /\ r.at # "start" /\ r.does # "withdraw"
        /\ IF jobCall[c].heard
           THEN /\ r.does = "mark" /\ r.at = "served" /\ r.heard
                /\ r.to = jobCall[c].to /\ r.alone = jobCall[c].alone
           ELSE r.does = "none"
    BY <1>1, NewJobCallIs DEF JobCall
  <1>3. /\ jobCall' = [jobCall EXCEPT ![c] = r] /\ markRow' = jobCall[c].to
        /\ UNCHANGED <<jobView, appRow>>
    BY DEF SaveJob, JobServed
  <1>4. jobCall[c].to \in BOOLEAN
    BY <1>1 DEF JobCall
  <1>5. /\ JobTypes' /\ jobCall'[c] = r
        /\ \A d \in Calls \ {c} : jobCall'[d] = jobCall[d]
    BY <1>2, <1>3, <1>4, JobMoves DEF JobInv, JobTypes, jobView
  <1> HIDE DEF r
  <1>6. \A d \in Calls : /\ MayWrite(d)' <=> MayWrite(d) /\ d # c
                         /\ Waits(d, "mark")' <=> Waits(d, "mark")
                         /\ Waits(d, "load")' <=> Waits(d, "load")
                         /\ MarkServed(d)' <=> MarkServed(d) \/ (d = c /\ jobCall[c].heard)
    BY <1>1, <1>2, <1>5 DEF MayWrite, Waits, MarkServed
  <1>7. MayWrite(c) /\ MayMark(c) /\ \A d \in Calls : MayMark(d)' => MayMark(d)
    BY <1>1, <1>6 DEF MayMark, MayWrite
  <1>8. \A d \in Calls : Waits(d, "mark") => /\ jobCall'[d].to = jobCall[d].to
                                             /\ jobCall'[d].alone = jobCall[d].alone
    BY <1>2, <1>5 DEF Waits
  <1>9. ASSUME opened \in {"card", "job"} PROVE MarkSettled'
    BY <1>3, <1>5, <1>6, <1>7, <1>9 DEF JobInv, JobRight, MarkSettled, jobView
  <1>10. ASSUME opened \in {"card", "job"} PROVE OneOnCard'
    BY <1>3, <1>6, <1>8, <1>10 DEF JobInv, JobRight, OneOnCard, jobView
  <1>11. ASSUME opened \in {"card", "job"}, NEW d \in Calls PROVE (AloneMark(d) /\ AloneLoad(d))'
    <2>1. AloneMark(d) /\ AloneLoad(d)
      BY <1>11 DEF JobInv, JobRight
    <2>2. AloneMark(d)'
      <3>1. \A e \in Calls : MayMark(e)' => jobCall'[e].to = jobCall[e].to
        BY <1>5, <1>6, <1>8 DEF MayMark
      <3> QED BY <1>3, <1>6, <1>7, <1>8, <2>1, <3>1 DEF AloneMark
    <2>3. AloneLoad(d)'
      <3>1. Waits(d, "load") => d # c
        BY <1>1 DEF Waits
      <3> QED BY <1>5, <1>6, <1>7, <2>1, <3>1 DEF AloneLoad
    <2> QED BY <2>2, <2>3
  <1> QED BY <1>3, <1>5, <1>9, <1>10, <1>11 DEF JobInv, JobRight, jobView

(* The answer is there, or is not to come.                                 *)
LEMMA JobAnswered ==
  ASSUME JobInv, NEW c \in Calls,
         CardMarked(c) \/ JobMarked(c) \/ MarkRefused(c) \/ MarkUnanswered(c)
  PROVE  JobInv'
  <1>1. /\ jobCall[c] \in JobCall /\ jobCall[c].at # "start" /\ Waits(c, "mark")
        /\ UNCHANGED <<opened, jobStore>> /\ MayMark(c)
    BY DEF JobInv, JobTypes, CardMarked, JobMarked, MarkRefused, MarkUnanswered, Waits, MayMark
  <1>2. CASE MarkRefused(c)
    <2>1. ~MarkServed(c)
      BY <1>2 DEF MarkRefused, MarkServed
    <2> QED BY <1>1, <1>2, <2>1, NewJobCallIs, JobElsewhere
            DEF MarkRefused, JobOver, JobInv, JobTypes, jobStore
  <1>3. ASSUME NEW r \in JobCall, jobCall' = [jobCall EXCEPT ![c] = r], mark' \in BOOLEAN,
               r.at # "start",
               r = JobCallOver \/ (r.does = "mark" /\ ~r.heard /\ MayWrite(c) /\ r.to = jobCall[c].to),
               opened \in {"card", "job"} => MarkSettled',
               opened = "card" => marking' = marking \/ r = JobCallOver
        PROVE  JobInv'
    <2>1. /\ JobTypes' /\ jobCall'[c] = r
          /\ \A d \in Calls \ {c} : jobCall'[d] = jobCall[d]
      BY <1>1, <1>3, JobMoves, NewJobCallIs DEF JobInv, JobTypes, jobStore
    <2>2. \A d \in Calls : /\ Waits(d, "mark")' <=> Waits(d, "mark") /\ d # c
                           /\ Waits(d, "load")' <=> Waits(d, "load")
                           /\ MayMark(d)' => MayMark(d) /\ jobCall'[d].to = jobCall[d].to
                           /\ Waits(d, "load") => d # c
      BY <1>1, <1>3, <2>1, NewJobCallIs DEF Waits, MayMark, MayWrite
    <2>3. ASSUME opened \in {"card", "job"}, NEW d \in Calls PROVE (AloneMark(d) /\ AloneLoad(d))'
      BY <1>1, <2>1, <2>2, <2>3 DEF JobInv, JobRight, AloneMark, AloneLoad, jobStore
    <2>4. ASSUME opened = "card" PROVE \A d \in Calls : ~Waits(d, "mark")'
      BY <1>1, <2>2, <2>4 DEF JobInv, JobRight, OneOnCard
    <2> QED BY <1>1, <1>3, <2>1, <2>3, <2>4 DEF JobInv, JobRight, OneOnCard
  <1>4. CASE MarkUnanswered(c)
    <2>1. blurred' = TRUE /\ mark' = mark /\ marking' = marking /\ mark \in BOOLEAN
      BY <1>4 DEF MarkUnanswered, JobInv, JobTypes
    <2>2. CASE MayWrite(c)
      <3> DEFINE r == [jobCall[c] EXCEPT !.heard = FALSE]
      <3>1. /\ r \in JobCall /\ r.at = jobCall[c].at /\ r.does = "mark" /\ ~r.heard
            /\ r.to = jobCall[c].to
        BY <1>1, <2>2 DEF JobCall, MayWrite
      <3>2. jobCall' = [jobCall EXCEPT ![c] = r]
        BY <1>4, <2>2 DEF MarkUnanswered
      <3> QED BY <1>1, <1>3, <2>1, <2>2, <3>1, <3>2 DEF MarkSettled
    <2>3. CASE ~MayWrite(c)
      BY <1>3, <1>4, <2>1, <2>3, NewJobCallIs DEF MarkUnanswered, JobOver, MarkSettled
    <2> QED BY <2>2, <2>3
  <1>5. CASE CardMarked(c) \/ JobMarked(c)
    <2>1. /\ jobCall' = [jobCall EXCEPT ![c] = JobCallOver] /\ blurred' = ~jobCall[c].alone
          /\ MarkServed(c) /\ opened \in {"card", "job"}
      BY <1>5 DEF CardMarked, JobMarked, JobOver, MarkServed
    <2>2. AloneMark(c) /\ mark' \in BOOLEAN /\ (jobCall[c].alone => mark' = jobCall[c].to)
      <3>1. CASE CardMarked(c)
        <4>1. AloneMark(c) /\ mark' = ~mark /\ (jobCall[c].alone => jobCall[c].to = ~mark)
          BY <1>1, <3>1 DEF JobInv, JobRight, OneOnCard, CardMarked
        <4> QED BY <4>1
      <3>2. CASE JobMarked(c)
        <4>1. AloneMark(c) /\ mark' = jobCall[c].to
          BY <3>2 DEF JobInv, JobRight, JobMarked
        <4> QED BY <1>1, <4>1 DEF JobCall
      <3> QED BY <1>5, <3>1, <3>2
    <2>3. \A d \in Calls \ {c} : jobCall'[d] = jobCall[d]
      BY <2>1 DEF JobInv, JobTypes
    <2>4. MarkSettled'
      <3>1. \A d \in Calls : MayWrite(d)' => MayMark(d) /\ jobCall'[d].to = jobCall[d].to
        BY <1>1, <2>1, <2>3, NewJobCallIs DEF MayWrite, MayMark, JobInv, JobTypes
      <3>2. jobCall[c].at = "served"
        BY <2>1 DEF MarkServed
      <3> QED BY <1>1, <2>1, <2>2, <3>1, <3>2 DEF MarkSettled, AloneMark, jobStore
    <2> QED BY <1>3, <2>1, <2>2, <2>4, NewJobCallIs
  <1> QED BY <1>2, <1>4, <1>5

(* What is done without a call does not concern the bookmark.              *)
LEMMA JobActsQuiet ==
  ASSUME JobInv, JobPageAct \/ UNCHANGED jobVars
  PROVE  JobInv'
  <1>1. UNCHANGED <<opened, mark, marking, blurred, markRow, jobCall>> /\ appRow' \in AppStatuses
    <2>1. CASE StartApplication \/ CloseForm \/ AskWithdraw \/ CancelWithdraw
      BY <2>1 DEF JobInv, JobTypes, StartApplication, CloseForm, AskWithdraw, CancelWithdraw,
                  jobView, jobStore
    <2>2. CASE Reject \/ CloseJob
      BY <2>2 DEF JobInv, JobTypes, AppStatuses, Reject, CloseJob, jobView
    <2>3. CASE UNCHANGED jobVars
      BY <2>3 DEF JobInv, JobTypes, jobVars, jobView, jobStore
    <2> QED BY <2>1, <2>2, <2>3 DEF JobPageAct
  <1>2. JobTypes'
    BY <1>1 DEF JobInv, JobTypes, Waits
  <1>3. ASSUME opened \in {"card", "job"} PROVE JobRight'
    BY <1>1, <1>3 DEF JobInv, JobRight, MarkSettled, OneOnCard, AloneMark, AloneLoad, MayMark,
                      MayWrite, Waits, MarkServed
  <1> QED BY <1>1, <1>2, <1>3 DEF JobInv, JobRight

LEMMA JobInvHolds == JobSpec => []JobInv
  <1>1. JobInit => JobInv
    <2> SUFFICES ASSUME JobInit PROVE JobInv
      OBVIOUS
    <2>1. jobCall \in [Calls -> JobCall] /\ \A c \in Calls : jobCall[c] = NewJobCall
      BY NewJobCallIs DEF JobInit
    <2> QED BY <2>1, NewJobCallIs DEF JobInit, JobInv, JobTypes, JobRight, Waits, NewJobCall,
                                      AppStatuses
  <1>2. JobInv /\ [JobNext]_jobVars => JobInv'
    BY JobApplies, JobWithdraws, JobLists, JobVisits, JobLoads, JobToggles, JobSaves,
       JobAnswered, JobActsQuiet
    DEF JobNext, JobPageCall, JobPageStep
  <1> QED BY <1>1, <1>2, PTL DEF JobSpec

(* The bookmark shows what is stored.                                      *)
THEOREM MarksAreStored == JobSpec => []MarkIsStored
  BY JobInvHolds, JobInvImplies, PTL

(* What the pages and the job have besides.                                *)
JobRest ==
  /\ marking \in BOOLEAN /\ blurred \in BOOLEAN
  /\ applyOpen \in BOOLEAN /\ applying \in BOOLEAN /\ applied \in BOOLEAN
  /\ listed \in [app : AppStatuses, mark : BOOLEAN]
  /\ asking \in BOOLEAN /\ jobOpen \in BOOLEAN
  /\ jobActs \in 0..MaxActs

jobRest == <<marking, blurred, jobForm, listed, asking, jobOpen, jobActs>>

LEMMA JobRestQuiet ==
  ASSUME JobRest, UNCHANGED jobRest
  PROVE  JobRest'
  BY DEF JobRest, jobRest, jobForm

LEMMA JobRestOfBookmark ==
  ASSUME JobTypes, JobRest, NEW c \in Calls,
         \/ Visit(c) \/ LoadArrives(c) \/ ListArrives(c)
         \/ ToggleCard(c) \/ CardMarked(c) \/ JobMarked(c) \/ MarkRefused(c) \/ MarkUnanswered(c)
  PROVE  JobRest'
  <1>1. CASE Visit(c)
    <2>1. listed' \in [app : AppStatuses, mark : BOOLEAN]
      BY <1>1 DEF Visit, AppStatuses
    <2> QED BY <1>1, <2>1 DEF JobRest, Visit, jobStore
  <1>2. CASE LoadArrives(c) \/ CardMarked(c) \/ JobMarked(c)
    <2>1. marking' \in BOOLEAN /\ blurred' \in BOOLEAN
      BY <1>2 DEF JobRest, LoadArrives, CardMarked, JobMarked
    <2>2. UNCHANGED <<listed, asking, jobForm, jobStore, jobActs>>
      BY <1>2 DEF LoadArrives, CardMarked, JobMarked
    <2> QED BY <2>1, <2>2 DEF JobRest, jobForm, jobStore
  <1>3. CASE ListArrives(c)
    <2>1. jobCall[c].mark \in BOOLEAN /\ jobCall[c].app \in AppStatuses
      BY DEF JobTypes, JobCall
    <2>2. listed' \in [app : AppStatuses, mark : BOOLEAN]
      BY <1>3, <2>1 DEF JobRest, ListArrives
    <2>3. asking' \in BOOLEAN
      BY <1>3 DEF ListArrives
    <2> QED BY <1>3, <2>2, <2>3 DEF JobRest, ListArrives, jobForm, jobStore
  <1>4. CASE ToggleCard(c) \/ MarkRefused(c) \/ MarkUnanswered(c)
    BY <1>4 DEF JobRest, ToggleCard, MarkRefused, MarkUnanswered, jobForm, jobStore
  <1> QED BY <1>1, <1>2, <1>3, <1>4

LEMMA JobRestOfApplication ==
  ASSUME JobRest, NEW c \in Calls,
         \/ SubmitApplication(c) \/ ApplicationSubmitted(c) \/ ApplicationFails(c)
         \/ Withdraw(c) \/ WithdrawFails(c)
  PROVE  JobRest'
  <1>1. CASE SubmitApplication(c) \/ ApplicationSubmitted(c) \/ ApplicationFails(c)
    BY <1>1 DEF JobRest, SubmitApplication, ApplicationSubmitted, ApplicationFails,
                jobView, jobStore
  <1>2. CASE Withdraw(c) \/ WithdrawFails(c)
    <2>1. asking' \in BOOLEAN
      BY <1>2 DEF JobRest, Withdraw, WithdrawFails
    <2>2. UNCHANGED <<marking, listed, blurred, jobForm, jobStore, jobActs>>
      BY <1>2 DEF Withdraw, WithdrawFails
    <2> QED BY <2>1, <2>2 DEF JobRest, jobForm, jobStore
  <1> QED BY <1>1, <1>2

LEMMA JobRestOfActs ==
  ASSUME JobRest, JobPageAct
  PROVE  JobRest'
  <1>1. CASE StartApplication \/ CloseForm \/ AskWithdraw \/ CancelWithdraw
    <2>1. jobActs' \in 0..MaxActs
      BY <1>1, PagesAssumption DEF JobRest, JobActs, StartApplication, CloseForm, AskWithdraw,
                                   CancelWithdraw
    <2>2. applyOpen' \in BOOLEAN /\ asking' \in BOOLEAN
      BY <1>1 DEF JobRest, StartApplication, CloseForm, AskWithdraw, CancelWithdraw,
                  jobView, jobForm
    <2>3. UNCHANGED <<marking, blurred, applying, applied, listed, jobOpen>>
      BY <1>1 DEF StartApplication, CloseForm, AskWithdraw, CancelWithdraw,
                  jobView, jobForm, jobStore
    <2> QED BY <2>1, <2>2, <2>3 DEF JobRest
  <1>2. CASE Reject \/ CloseJob
    BY <1>2 DEF JobRest, Reject, CloseJob, jobView, jobForm
  <1> QED BY <1>1, <1>2 DEF JobPageAct

LEMMA JobRestOfLoads ==
  ASSUME JobRest, NEW c \in Calls,
         \/ ToggleSaved(c) \/ Unsave(c) \/ GetSavedJobs(c) \/ FindByUser(c) \/ LoadFails(c)
         \/ SaveJob(c) \/ UnsaveEnds(c) \/ UploadResume(c) \/ StoreApplication(c)
         \/ FindOpen(c) \/ WriteWithdrawn(c) \/ Withdrawn(c)
  PROVE  JobRest'
  <1>1. UNCHANGED jobRest
    BY DEF jobRest, jobView, jobForm, jobStore, ToggleSaved, Unsave, GetSavedJobs, FindByUser,
           LoadFails, SaveJob, UnsaveEnds, UploadResume, StoreApplication, FindOpen,
           WriteWithdrawn, Withdrawn
  <1> QED BY <1>1, JobRestQuiet

LEMMA JobTypesHold == JobSpec => []JobTypeOK
  <1>1. JobInit => JobRest
    <2> SUFFICES ASSUME JobInit PROVE JobRest
      OBVIOUS
    <2>1. listed \in [app : AppStatuses, mark : BOOLEAN]
      BY DEF JobInit, AppStatuses
    <2>2. jobActs \in 0..MaxActs
      BY PagesAssumption DEF JobInit
    <2> QED BY <2>1, <2>2 DEF JobInit, JobRest
  <1>2. JobInv /\ JobRest /\ [JobNext]_jobVars => JobRest'
    <2> SUFFICES ASSUME JobInv, JobRest, [JobNext]_jobVars PROVE JobRest'
      OBVIOUS
    <2>1. CASE UNCHANGED jobVars
      BY <2>1, JobRestQuiet DEF jobVars, jobRest, jobView, jobStore
    <2> QED BY <2>1, JobRestOfBookmark, JobRestOfApplication, JobRestOfActs, JobRestOfLoads
            DEF JobInv, JobNext, JobPageCall, JobPageStep
  <1>3. JobInv /\ JobRest => JobTypeOK
    BY DEF JobInv, JobTypes, JobRest, JobTypeOK
  <1> QED BY <1>1, <1>2, <1>3, JobInvHolds, PTL DEF JobSpec

(***************************************************************************)
(* The page that posts a job                                               *)
(***************************************************************************)

(* The page waits for the answer to its request to post c.                 *)
Awaits(c) == Awaited(c) /\ post[c] \in {"job", "create", "posted", "refused"}

(* While it waits its button is blocked, and nothing is published.  What   *)
(* is not lost and has been posted is what it waits for or shows.          *)
PostInv ==
  /\ PostTypeOK
  /\ \A c \in Calls : Awaits(c) => publishing /\ publishedId = None
  /\ \A c, d \in Calls : Awaits(c) /\ Awaits(d) => c = d
  /\ \A c \in jobRows : post[c] \in {"posted", "ended"}
  /\ \A c \in jobRows : Awaited(c) => post[c] = "posted" \/ publishedId = c
  /\ \A c \in Calls : /\ post[c] = "posted" => c \in jobRows
                      /\ post[c] = "create" => companyRow
  /\ publishedId # None => publishedId \in jobRows
  /\ jobRows # {} => companyRow

LEMMA PostInvImplies == PostInv => PostedOnce
  <1> SUFFICES ASSUME PostInv PROVE PostedOnce
    OBVIOUS
  <1>1. \A c, d \in (visit \cap jobRows) \ unheard : c = d
    BY CallsAssumption DEF PostInv, PostTypeOK, Awaits, Awaited
  <1> QED BY <1>1 DEF PostInv, PostedOnce

(* What a call about the company, or the job, does to the other calls.     *)
LEMMA PostElsewhere ==
  ASSUME PostInv, NEW c \in Calls, NEW place \in PostPlaces, PostMoves(c, place)
  PROVE  /\ post' \in [Calls -> PostPlaces] /\ post'[c] = place
         /\ \A d \in Calls \ {c} : post'[d] = post[d]
  BY DEF PostInv, PostTypeOK, PostMoves

LEMMA CompanyQuiet ==
  ASSUME PostInv, NEW c \in Calls,
         \/ CheckCompany(c) \/ GetCompany(c) \/ CompanyChecked(c) \/ CheckFails(c)
         \/ CreateCompany(c) \/ StoreCompany(c) \/ CompanyCreated(c) \/ CompanyRefused(c)
  PROVE  PostInv'
  <1>1. \E place \in {"check", "none", "some", "ended", "company", "created", "taken"} :
          PostMoves(c, place)
    BY DEF CheckCompany, GetCompany, CompanyChecked, CheckFails, CreateCompany, StoreCompany,
           CompanyCreated, CompanyRefused
  <1>2. PICK place \in {"check", "none", "some", "ended", "company", "created", "taken"} :
          PostMoves(c, place)
    BY <1>1
  <1>3. /\ post' \in [Calls -> PostPlaces] /\ post'[c] = place
        /\ \A d \in Calls \ {c} : post'[d] = post[d]
    BY <1>2, PostElsewhere DEF PostPlaces
  <1>4. post[c] \notin {"job", "create", "posted", "refused"} /\ c \notin jobRows
    <2>1. post[c] \notin {"job", "create", "posted", "refused", "ended"}
      BY DEF CheckCompany, GetCompany, CompanyChecked, CheckFails, CreateCompany, StoreCompany,
             CompanyCreated, CompanyRefused
    <2> QED BY <2>1 DEF PostInv
  <1>5. /\ UNCHANGED <<categories, publishing, publishedId, jobRows, unheard, postActs>>
        /\ companyRow => companyRow'
        /\ visit' \in {visit, visit \cup {c}}
    BY DEF CheckCompany, GetCompany, CompanyChecked, CheckFails, CreateCompany, StoreCompany,
           CompanyCreated, CompanyRefused, postView, postRows
  <1>6. /\ hasCompany' \in {"unknown", "no", "yes"} /\ checkError' \in BOOLEAN
        /\ companyLoading' \in BOOLEAN /\ companyRow' \in BOOLEAN
    BY DEF PostInv, PostTypeOK, CheckCompany, GetCompany, CompanyChecked, CheckFails,
           CreateCompany, StoreCompany, CompanyCreated, CompanyRefused, postView, postRows
  <1>7. PostTypeOK'
    BY <1>3, <1>5, <1>6 DEF PostInv, PostTypeOK
  <1>8. \A d \in Calls : Awaits(d)' => Awaits(d)
    BY <1>3, <1>5 DEF Awaits, Awaited
  <1>9. \A d \in jobRows : Awaited(d)' => Awaited(d)
    BY <1>4, <1>5 DEF Awaited
  <1> QED BY <1>3, <1>4, <1>5, <1>7, <1>8, <1>9 DEF PostInv, PostTypeOK

LEMMA PostUnheard ==
  ASSUME PostInv, NEW c \in Calls, CompanyUnanswered(c) \/ PostUnanswered(c)
  PROVE  PostInv'
  <1>1. PostTypeOK'
    BY DEF PostInv, PostTypeOK, CompanyUnanswered, PostUnanswered, Awaited, postRows
  <1>2. \A d \in Calls : /\ Awaited(d)' <=> Awaited(d) /\ d # c
                         /\ Awaits(d)' <=> Awaits(d) /\ d # c
    BY DEF CompanyUnanswered, PostUnanswered, Awaited, Awaits
  <1>3. CASE CompanyUnanswered(c)
    BY <1>1, <1>2, <1>3 DEF PostInv, PostTypeOK, CompanyUnanswered, postRows
  <1>4. CASE PostUnanswered(c)
    <2>1. \A d \in Calls : ~Awaits(d)'
      BY <1>2, <1>4 DEF PostInv, PostUnanswered, Awaits
    <2> QED BY <1>1, <1>2, <1>4, <2>1 DEF PostInv, PostTypeOK, PostUnanswered, postRows
  <1> QED BY <1>3, <1>4

LEMMA PostAsked ==
  ASSUME PostInv, NEW c \in Calls, PostJob(c)
  PROVE  PostInv'
  <1>1. /\ post' \in [Calls -> PostPlaces] /\ post'[c] = "job"
        /\ \A d \in Calls \ {c} : post'[d] = post[d]
    BY PostElsewhere DEF PostJob, PostPlaces
  <1>2. PostTypeOK'
    BY <1>1 DEF PostInv, PostTypeOK, PostJob, postRows
  <1>3. \A d \in Calls : Awaits(d)' => d = c
    BY <1>1 DEF PostInv, PostJob, Awaits, Awaited
  <1>4. c \notin jobRows
    BY DEF PostInv, PostJob
  <1> QED BY <1>1, <1>2, <1>3, <1>4 DEF PostInv, PostTypeOK, PostJob, JobFormOpen, postRows, Awaited

LEMMA PostServed ==
  ASSUME PostInv, NEW c \in Calls, FindCompany(c) \/ CreateJob(c)
  PROVE  PostInv'
  <1>1. post[c] \in {"job", "create"} /\ UNCHANGED <<postView, companyRow, visit, unheard, postActs>>
    BY DEF FindCompany, CreateJob, postRows
  <1>2. \E place \in {"create", "refused", "posted"} : PostMoves(c, place)
    BY DEF FindCompany, CreateJob
  <1>3. PICK place \in {"create", "refused", "posted"} : PostMoves(c, place)
    BY <1>2
  <1>4. /\ post' \in [Calls -> PostPlaces] /\ post'[c] = place
        /\ \A d \in Calls \ {c} : post'[d] = post[d]
    BY <1>3, PostElsewhere DEF PostPlaces
  <1>5. \A d \in Calls : (Awaits(d)' <=> Awaits(d)) /\ (Awaited(d)' <=> Awaited(d))
    BY <1>1, <1>4 DEF Awaits, Awaited
  <1>6. CASE FindCompany(c)
    <2>1. PostTypeOK'
      BY <1>4, <1>6 DEF PostInv, PostTypeOK, FindCompany, postView, postRows
    <2>2. post'[c] = IF companyRow THEN "create" ELSE "refused"
      BY <1>6, PostElsewhere DEF FindCompany, PostPlaces
    <2> QED BY <1>1, <1>4, <1>5, <1>6, <2>1, <2>2
            DEF PostInv, PostTypeOK, FindCompany, postView, postRows
  <1>7. CASE CreateJob(c)
    <2>1. PostTypeOK'
      BY <1>4, <1>7 DEF PostInv, PostTypeOK, CreateJob, postView
    <2>2. post'[c] = "posted"
      BY <1>7, PostElsewhere DEF CreateJob, PostPlaces
    <2> QED BY <1>1, <1>4, <1>5, <1>7, <2>1, <2>2
            DEF PostInv, PostTypeOK, CreateJob, postView, postRows
  <1> QED BY <1>6, <1>7

LEMMA PostAnswered ==
  ASSUME PostInv, NEW c \in Calls, Published(c) \/ PostRefused(c)
  PROVE  PostInv'
  <1>1. /\ post' \in [Calls -> PostPlaces] /\ post'[c] = "ended"
        /\ \A d \in Calls \ {c} : post'[d] = post[d]
    BY PostElsewhere DEF Published, PostRefused, PostPlaces
  <1>2. PostTypeOK'
    BY <1>1 DEF PostInv, PostTypeOK, Published, PostRefused, postRows
  <1>3. Awaits(c) /\ UNCHANGED <<postRows, visit, unheard>>
    BY DEF Published, PostRefused, Awaits, postRows
  <1>4. \A d \in Calls : ~Awaits(d)' /\ (Awaited(d)' <=> Awaited(d))
    BY <1>1, <1>3 DEF PostInv, Awaits, Awaited
  <1>5. \A d \in jobRows : Awaited(d) => d = c
    BY <1>3, CallsAssumption DEF PostInv, PostTypeOK, Awaits
  <1>6. publishedId = None
    BY <1>3 DEF PostInv
  <1>7. CASE Published(c)
    BY <1>1, <1>2, <1>3, <1>4, <1>5, <1>6, <1>7 DEF PostInv, PostTypeOK, Published, postRows
  <1>8. CASE PostRefused(c)
    <2>1. c \notin jobRows
      BY <1>8 DEF PostInv, PostRefused
    <2> QED BY <1>1, <1>2, <1>3, <1>4, <1>5, <1>6, <1>8, <2>1
            DEF PostInv, PostTypeOK, PostRefused, postRows
  <1> QED BY <1>7, <1>8

LEMMA PostOpened ==
  ASSUME PostInv, OpenPost
  PROVE  PostInv'
  <1>1. \A c \in Calls : post'[c] = IF post[c] = "start" \/ Under(c) THEN post[c] ELSE "ended"
    BY DEF OpenPost
  <1>2. post' \in [Calls -> PostPlaces]
    BY DEF PostInv, PostTypeOK, OpenPost, PostPlaces
  <1>3. PostTypeOK'
    <2>1. postActs' \in 0..MaxActs
      BY PagesAssumption DEF PostInv, PostTypeOK, OpenPost
    <2> QED BY <1>2, <2>1 DEF PostInv, PostTypeOK, OpenPost, postRows
  <1>4. \A c \in Calls : ~Awaited(c)' /\ ~Awaits(c)'
    BY DEF OpenPost, Awaits, Awaited
  <1> QED BY <1>1, <1>3, <1>4 DEF PostInv, PostTypeOK, OpenPost, postRows, Under

LEMMA PostInvHolds == PostSpec => []PostInv
  <1>1. PostInit => PostInv
    <2> SUFFICES ASSUME PostInit PROVE PostInv
      OBVIOUS
    <2>1. postActs \in 0..MaxActs
      BY PagesAssumption DEF PostInit
    <2>2. PostTypeOK
      BY <2>1 DEF PostInit, PostTypeOK, PostPlaces
    <2> QED BY <2>2 DEF PostInit, PostInv, Awaits, Awaited
  <1>2. PostInv /\ [PostNext]_postVars => PostInv'
    <2> SUFFICES ASSUME PostInv, [PostNext]_postVars PROVE PostInv'
      OBVIOUS
    <2>1. CASE UNCHANGED postVars
      BY <2>1 DEF PostInv, PostTypeOK, Awaits, Awaited, postVars, postView, postRows
    <2>2. CASE CategoriesArrive
      BY <2>2 DEF PostInv, PostTypeOK, Awaits, Awaited, CategoriesArrive, postRows
    <2> QED BY <2>1, <2>2, CompanyQuiet, PostUnheard, PostAsked, PostServed, PostAnswered,
               PostOpened
            DEF PostNext, PostCall, PostStep, PostAct
  <1> QED BY <1>1, <1>2, PTL DEF PostSpec

(* In one visit of the page a job is posted once.                          *)
THEOREM JobsPostedOnce == PostSpec => []PostedOnce
  BY PostInvHolds, PostInvImplies, PTL

(***************************************************************************)
(* The employer's dashboard                                                *)
(***************************************************************************)

(* As long as no list has gone astray, only one is being loaded, and it is *)
(* the one of the heading.                                                 *)
WorkInv ==
  /\ WorkTypeOK
  /\ \A c \in Calls : /\ ListLoading(c) => work[c].job \in Listings
                      /\ work[c].at \in {"status", "set"} =>
                           work[c].job \in Listings /\ work[c].for \in Listings
  /\ ~astray => /\ \A c \in Calls : ListLoading(c) => work[c].job = selected
                /\ \A c, d \in Calls : ListLoading(c) /\ ListLoading(d) => c = d
  /\ ListMatchesHeading

LEMMA WorkOpens ==
  ASSUME WorkInv, NEW c \in Calls, NEW job \in Listings,
         ~ListLoading(c), OpenApplicants(c, job)
  PROVE  WorkInv'
  <1>1. WorkTypeOK'
    BY DEF WorkInv, WorkTypeOK, OpenApplicants, OtherLoading, Work, NewWork, Statuses
  <1>2. \A d \in Calls \ {c} : work'[d] = work[d]
    BY DEF WorkInv, WorkTypeOK, OpenApplicants
  <1>3. work'[c].at = "list" /\ work'[c].job = job
    BY DEF WorkInv, WorkTypeOK, OpenApplicants, Work, NewWork
  <1> QED BY <1>1, <1>2, <1>3
          DEF WorkInv, ListMatchesHeading, ListLoading, OpenApplicants, OtherLoading

LEMMA WorkListed ==
  ASSUME WorkInv, NEW c \in Calls, FindByJob(c) \/ ApplicantsArrive(c) \/ ApplicantsFail(c)
  PROVE  WorkInv'
  <1>1. \A d \in Calls \ {c} : work'[d] = work[d]
    BY DEF WorkInv, WorkTypeOK, FindByJob, ApplicantsArrive, ApplicantsFail, WorkEnds
  <1>2. CASE FindByJob(c)
    <2>1. WorkTypeOK'
      BY <1>2 DEF WorkInv, WorkTypeOK, FindByJob, ListLoading, Work, workView
    <2>2. work'[c].at = "found" /\ work'[c].job = work[c].job
      BY <1>2 DEF WorkInv, WorkTypeOK, FindByJob, Work
    <2> QED BY <1>1, <1>2, <2>1, <2>2
            DEF WorkInv, ListMatchesHeading, ListLoading, FindByJob, workView
  <1>3. ASSUME ApplicantsArrive(c) \/ ApplicantsFail(c)
        PROVE WorkTypeOK' /\ work'[c].at = "ended"
    <2>1. [NewWork EXCEPT !.at = "ended"] \in Work /\ work[c] \in Work
      BY DEF WorkInv, WorkTypeOK, Work, NewWork, Statuses
    <2>2. work' \in [Calls -> Work] /\ work'[c].at = "ended"
      BY <1>3, <2>1 DEF WorkInv, WorkTypeOK, ApplicantsArrive, ApplicantsFail, WorkEnds, NewWork
    <2>3. applicants' \in [job : Listings \cup {None}, status : Statuses]
      BY <1>3, <2>1 DEF WorkInv, WorkTypeOK, ApplicantsArrive, ApplicantsFail, Work
    <2> QED BY <1>3, <2>2, <2>3 DEF WorkInv, WorkTypeOK, ApplicantsArrive, ApplicantsFail
  <1>4. CASE ApplicantsArrive(c)
    <2>1. applicants'.job = work[c].job
      BY <1>4 DEF ApplicantsArrive
    <2> QED BY <1>1, <1>3, <1>4, <2>1
            DEF WorkInv, ListMatchesHeading, ListLoading, ApplicantsArrive
  <1>5. CASE ApplicantsFail(c)
    BY <1>1, <1>3, <1>5 DEF WorkInv, ListMatchesHeading, ListLoading, ApplicantsFail
  <1> QED BY <1>2, <1>4, <1>5

LEMMA WorkChanged ==
  ASSUME WorkInv, NEW c \in Calls, ChangeStatus(c) \/ UpdateStatusOf(c) \/ StatusFails(c)
  PROVE  WorkInv'
  <1>1. \A d \in Calls \ {c} : work'[d] = work[d]
    BY DEF WorkInv, WorkTypeOK, ChangeStatus, UpdateStatusOf, StatusFails, WorkEnds
  <1>2. CASE ChangeStatus(c)
    <2>1. PICK s \in Statuses \ {applicants.status} :
            work' = [work EXCEPT ![c] = [at |-> "status", job |-> applicants.job,
                                         for |-> selected, status |-> s]]
      BY <1>2 DEF ChangeStatus
    <2>2. WorkTypeOK'
      BY <1>2, <2>1 DEF WorkInv, WorkTypeOK, ChangeStatus, Work, workView
    <2>3. /\ work'[c].at = "status" /\ work'[c].job = applicants.job
          /\ work'[c].for = selected
      BY <2>1 DEF WorkInv, WorkTypeOK
    <2> QED BY <1>1, <1>2, <2>2, <2>3
            DEF WorkInv, WorkTypeOK, ListMatchesHeading, ListLoading, ChangeStatus, workView
  <1>3. CASE UpdateStatusOf(c)
    <2>1. WorkTypeOK'
      BY <1>3 DEF WorkInv, WorkTypeOK, UpdateStatusOf, Work, workView
    <2>2. /\ work'[c].at = "set" /\ work'[c].job = work[c].job
          /\ work'[c].for = work[c].for
      BY <1>3 DEF WorkInv, WorkTypeOK, UpdateStatusOf, Work
    <2> QED BY <1>1, <1>3, <2>1, <2>2
            DEF WorkInv, ListMatchesHeading, ListLoading, UpdateStatusOf, workView
  <1>4. CASE StatusFails(c)
    <2>1. WorkTypeOK' /\ work'[c].at = "ended"
      BY <1>4 DEF WorkInv, WorkTypeOK, StatusFails, WorkEnds, Work, NewWork, Statuses, workView
    <2> QED BY <1>1, <1>4, <2>1
            DEF WorkInv, ListMatchesHeading, ListLoading, StatusFails, workView
  <1> QED BY <1>2, <1>3, <1>4

LEMMA WorkInvHolds == WorkSpec => []WorkInv
  <1>1. WorkInit => WorkInv
    <2> SUFFICES ASSUME WorkInit PROVE WorkInv
      OBVIOUS
    <2>1. NewWork \in Work
      BY DEF NewWork, Work, Statuses
    <2>2. WorkTypeOK
      BY <2>1 DEF WorkInit, WorkTypeOK, Statuses
    <2>3. \A c \in Calls : work[c].at = "start"
      BY DEF WorkInit, NewWork
    <2> QED BY <2>2, <2>3 DEF WorkInit, WorkInv, ListMatchesHeading, ListLoading
  <1>2. WorkInv /\ [WorkNext]_workVars => WorkInv'
    <2> SUFFICES ASSUME WorkInv, [WorkNext]_workVars PROVE WorkInv'
      OBVIOUS
    <2>1. CASE UNCHANGED workVars
      BY <2>1 DEF WorkInv, WorkTypeOK, ListMatchesHeading, ListLoading, workVars, workView
    <2>2. CASE JobsArrive
      BY <2>2 DEF WorkInv, WorkTypeOK, ListMatchesHeading, ListLoading, JobsArrive
    <2>3. ASSUME NEW c \in Calls, ManageApplicants(c) PROVE WorkInv'
      BY <2>3, WorkOpens DEF ManageApplicants, ListLoading
    <2>4. ASSUME NEW c \in Calls, StatusChanged(c) PROVE WorkInv'
      <3>1. work[c].for \in Listings /\ ~ListLoading(c)
        BY <2>4 DEF WorkInv, StatusChanged, ListLoading
      <3> QED BY <2>4, <3>1, WorkOpens DEF StatusChanged
    <2> QED BY <2>1, <2>2, <2>3, <2>4, WorkListed, WorkChanged
            DEF WorkNext, WorkCall, WorkStep, WorkAct
  <1> QED BY <1>1, <1>2, PTL DEF WorkSpec

(* The applicants under a heading are those of the job in it.              *)
THEOREM HeadingsMatch == WorkSpec => []ListMatchesHeading
  <1>1. WorkInv => ListMatchesHeading
    BY DEF WorkInv
  <1> QED BY <1>1, WorkInvHolds, PTL

(***************************************************************************)
(* The bell                                                                *)
(***************************************************************************)

Seen == {"read", "unread"}
NoticeLists == UNION {[S -> Seen] : S \in SUBSET Nat}
RingRows == [does : {"none", "load", "read", "readAll"},
             at : {"start", "asked", "served", "late", "ended"},
             note : Nat, upto : Nat, list : NoticeLists]

BellTypes ==
  /\ notices \in Seq(Seen) /\ items \in NoticeLists
  /\ ring \in [Calls -> RingRows]

(* A list agrees with the rows: it has only notices that there are, and    *)
(* shows none as read that is not.                                         *)
Agrees(list, trusted) ==
  /\ DOMAIN list \subseteq 1..Len(notices)
  /\ \A k \in trusted : list[k] = "read" => notices[k] = "read"

(* A call that was performed has marked what it was to mark, as far as the *)
(* notices had come by then.                                               *)
RingInv(c) ==
  /\ ring[c].does = "load" /\ ring[c].at = "served"
       => Agrees(ring[c].list, DOMAIN ring[c].list)
  /\ ring[c].does = "read" => ring[c].note \in 1..Len(notices)
  /\ ring[c].does = "read" /\ ring[c].at = "served" => notices[ring[c].note] = "read"
  /\ ring[c].does = "readAll" /\ ring[c].at = "served"
       => \A k \in 1..ring[c].upto : notices[k] = "read"
  /\ ring[c].upto <= Len(notices)

BellInv ==
  /\ BellTypes
  /\ Agrees(items, DOMAIN items \ doubtful)
  /\ \A c \in Calls : RingInv(c)

bellVars == <<notices, items, doubtful, ring>>

LEMMA NewRingIs == NewRing \in RingRows /\ RingOver \in RingRows
  <1>1. <<>> \in NoticeLists
    <2>1. <<>> \in Seq(Seen) /\ Len(<<>>) = 0
      OBVIOUS
    <2>2. <<>> \in [1..0 -> Seen]
      BY <2>1, LenProperties
    <2> QED BY <2>2 DEF NoticeLists
  <1>2. NewRing \in RingRows
    BY <1>1 DEF NewRing, RingRows
  <1> QED BY <1>2 DEF RingOver, RingRows

(* When a call moves, the others do not.                                   *)
LEMMA RingMoves ==
  ASSUME BellTypes, NEW c \in Calls, NEW r \in RingRows, ring' = [ring EXCEPT ![c] = r]
  PROVE  /\ ring' \in [Calls -> RingRows] /\ ring'[c] = r
         /\ \A d \in Calls \ {c} : ring'[d] = ring[d]
  BY DEF BellTypes

(* Notices that come, and ones that are marked, leave agreement alone.     *)
LEMMA NoticesGrow ==
  ASSUME BellInv, notices' \in Seq(Seen), Len(notices) <= Len(notices'),
         \A k \in 1..Len(notices) : notices[k] = "read" => notices'[k] = "read",
         UNCHANGED <<items, doubtful>>
  PROVE  /\ items' \in NoticeLists /\ Agrees(items, DOMAIN items \ doubtful)'
         /\ \A d \in Calls : ring'[d] = ring[d] => RingInv(d)'
  <1>1. Len(notices) \in Nat /\ Len(notices') \in Nat
    BY DEF BellInv, BellTypes
  <1>2. Agrees(items, DOMAIN items \ doubtful)'
    BY <1>1 DEF BellInv, Agrees
  <1>3. ASSUME NEW d \in Calls, ring'[d] = ring[d] PROVE RingInv(d)'
    <2>1. RingInv(d)
      BY DEF BellInv
    <2>2. Agrees(ring[d].list, DOMAIN ring[d].list)
            => /\ DOMAIN ring[d].list \subseteq 1..Len(notices')
               /\ \A k \in DOMAIN ring[d].list : ring[d].list[k] = "read" => notices'[k] = "read"
      BY <1>1 DEF Agrees
    <2>3. ring[d].upto \in Nat
      BY DEF BellInv, BellTypes, RingRows
    <2> QED BY <1>1, <1>3, <2>1, <2>2, <2>3 DEF RingInv, Agrees
  <1> QED BY <1>2, <1>3 DEF BellInv, BellTypes

LEMMA NoticeComes ==
  ASSUME BellInv, notices' = Append(notices, "unread"), UNCHANGED <<items, doubtful, ring>>
  PROVE  BellInv'
  <1>1. /\ notices' \in Seq(Seen) /\ Len(notices) <= Len(notices')
        /\ \A k \in 1..Len(notices) : notices'[k] = notices[k]
    BY DEF BellInv, BellTypes, Seen
  <1> QED BY <1>1, NoticesGrow DEF BellInv, BellTypes

(* Of a call that only moves, or that fails, nothing is required anew.     *)
LEMMA RingQuiet ==
  ASSUME BellInv, NEW c \in Calls, NEW r \in RingRows, ring' = [ring EXCEPT ![c] = r],
         UNCHANGED <<notices, items, doubtful>>,
         r.at # "served", r.upto <= Len(notices),
         r.does = "read" => r.note \in 1..Len(notices)
  PROVE  BellInv'
  <1>1. /\ ring' \in [Calls -> RingRows] /\ ring'[c] = r
        /\ \A d \in Calls \ {c} : ring'[d] = ring[d]
    BY RingMoves DEF BellInv
  <1>2. BellTypes' /\ Agrees(items, DOMAIN items \ doubtful)'
    BY <1>1 DEF BellInv, BellTypes, Agrees
  <1>3. RingInv(c)'
    BY <1>1 DEF RingInv
  <1>4. \A d \in Calls \ {c} : RingInv(d)'
    BY <1>1 DEF BellInv, RingInv, Agrees
  <1> QED BY <1>2, <1>3, <1>4 DEF BellInv

LEMMA RingAsks ==
  ASSUME BellInv, NEW c \in Calls, PollNotices(c) \/ OpenNotice(c) \/ ReadAll(c) \/ RingFails(c)
  PROVE  BellInv'
  <1>1. Len(notices) \in Nat /\ ring[c] \in RingRows
    BY DEF BellInv, BellTypes
  <1>2. ASSUME NEW errand \in {"load", "readAll"}, ring' = [ring EXCEPT ![c] = Ringing(errand)],
               UNCHANGED <<notices, items, doubtful>>
        PROVE  BellInv'
    <2>1. /\ Ringing(errand) \in RingRows /\ Ringing(errand).at = "asked"
          /\ Ringing(errand).upto = 0 /\ Ringing(errand).does = errand
      BY NewRingIs DEF Ringing, RingRows, NewRing
    <2>2. Ringing(errand).upto <= Len(notices)
      BY <1>1, <2>1
    <2> QED BY <1>2, <2>1, <2>2, RingQuiet
  <1>3. CASE PollNotices(c) \/ ReadAll(c)
    BY <1>2, <1>3 DEF PollNotices, ReadAll, Rings, centerRows
  <1>4. CASE OpenNotice(c)
    <2>1. PICK k \in DOMAIN items : Read(c, k)
      BY <1>4 DEF OpenNotice
    <2> DEFINE r == [Ringing("read") EXCEPT !.note = k]
    <2>2. k \in 1..Len(notices)
      BY DEF BellInv, Agrees
    <2>3. /\ Ringing("read") \in RingRows /\ Ringing("read").at = "asked"
          /\ Ringing("read").upto = 0
      BY NewRingIs DEF Ringing, RingRows, NewRing
    <2>4. r \in RingRows /\ r.at = "asked" /\ r.upto <= Len(notices) /\ r.note = k
      BY <1>1, <2>2, <2>3 DEF RingRows
    <2>5. ring' = [ring EXCEPT ![c] = r] /\ UNCHANGED <<notices, items, doubtful>>
      BY <2>1 DEF Read, Rings, centerRows
    <2> QED BY <2>2, <2>4, <2>5, RingQuiet
  <1>5. CASE RingFails(c)
    <2>1. RingInv(c) /\ UNCHANGED <<notices, items, doubtful>>
      BY <1>5 DEF RingFails, centerRows, BellInv
    <2>2. CASE RingEnds(c)
      <3>1. RingOver.at = "ended" /\ RingOver.upto = 0 /\ RingOver.does = "none"
        BY DEF RingOver, NewRing
      <3>2. RingOver.upto <= Len(notices)
        BY <1>1, <3>1
      <3> QED BY <2>1, <2>2, <3>1, <3>2, NewRingIs, RingQuiet DEF RingEnds
    <2>3. CASE ring' = [ring EXCEPT ![c].at = "late"]
      <3> DEFINE r == [ring[c] EXCEPT !.at = "late"]
      <3>1. /\ r \in RingRows /\ r.at = "late" /\ r.upto = ring[c].upto
            /\ r.note = ring[c].note /\ r.does = ring[c].does
        BY <1>1 DEF RingRows
      <3> QED BY <1>1, <2>1, <2>3, <3>1, RingQuiet DEF RingInv
    <2> QED BY <1>5, <2>2, <2>3 DEF RingFails
  <1> QED BY <1>3, <1>4, <1>5

LEMMA RingLoads ==
  ASSUME BellInv, NEW c \in Calls, GetNotifications(c)
  PROVE  BellInv'
  <1> DEFINE newest == {k \in 1..Len(notices) : k + Window > Len(notices)}
             list == [k \in newest |-> notices[k]]
             r == [ring[c] EXCEPT !.at = "served", !.list = list]
  <1>1. Len(notices) \in Nat /\ ring[c] \in RingRows /\ RingInv(c)
    BY DEF BellInv, BellTypes
  <1>2. list \in [newest -> Seen]
    BY DEF BellInv, BellTypes
  <1>3. list \in NoticeLists
    <2>1. newest \in SUBSET Nat
      BY <1>1
    <2> QED BY <1>2, <2>1 DEF NoticeLists
  <1>4. /\ r \in RingRows /\ r.at = "served" /\ r.list = list /\ r.does = "load"
        /\ r.upto = ring[c].upto
    BY <1>1, <1>3 DEF GetNotifications, RingRows
  <1>5. ring' = [ring EXCEPT ![c] = r] /\ UNCHANGED <<notices, items, doubtful>>
    BY DEF GetNotifications, centerRows
  <1>6. /\ ring' \in [Calls -> RingRows] /\ ring'[c] = r
        /\ \A d \in Calls \ {c} : ring'[d] = ring[d]
    BY <1>4, <1>5, RingMoves DEF BellInv
  <1>7. BellTypes' /\ Agrees(items, DOMAIN items \ doubtful)'
    BY <1>5, <1>6 DEF BellInv, BellTypes, Agrees
  <1>8. \A d \in Calls \ {c} : RingInv(d)'
    BY <1>5, <1>6 DEF BellInv, RingInv, Agrees
  <1>9. RingInv(c)'
    <2>1. DOMAIN list \subseteq 1..Len(notices) /\ \A k \in DOMAIN list : list[k] = notices[k]
      OBVIOUS
    <2> HIDE DEF list, r
    <2> QED BY <1>1, <1>4, <1>5, <1>6, <2>1 DEF RingInv, Agrees
  <1> QED BY <1>7, <1>8, <1>9 DEF BellInv

LEMMA RingArrives ==
  ASSUME BellInv, NEW c \in Calls, NoticesArrive(c)
  PROVE  BellInv'
  <1>1. /\ ring' \in [Calls -> RingRows] /\ ring'[c] = RingOver
        /\ \A d \in Calls \ {c} : ring'[d] = ring[d]
    BY NewRingIs, RingMoves DEF BellInv, NoticesArrive, RingEnds
  <1>2. items' = ring[c].list /\ doubtful' = {} /\ notices' = notices /\ RingInv(c)
    BY DEF NoticesArrive, centerRows, BellInv
  <1>3. BellTypes'
    BY <1>1, <1>2 DEF BellInv, BellTypes, RingRows
  <1>4. Agrees(items, DOMAIN items \ doubtful)'
    BY <1>2 DEF RingInv, Agrees, NoticesArrive
  <1>5. \A d \in Calls \ {c} : RingInv(d)'
    BY <1>1, <1>2 DEF BellInv, RingInv, Agrees
  <1>6. RingInv(c)'
    <2>1. RingOver.at = "ended" /\ RingOver.does = "none" /\ RingOver.upto = 0
      BY DEF RingOver, NewRing
    <2>2. Len(notices) \in Nat
      BY DEF BellInv, BellTypes
    <2> QED BY <1>1, <1>2, <2>1, <2>2 DEF RingInv
  <1> QED BY <1>3, <1>4, <1>5, <1>6 DEF BellInv

(* The rows are marked; the call is then over, or has all of them behind   *)
(* it.                                                                     *)
LEMMA RingMarks ==
  ASSUME BellInv, NEW c \in Calls, MarkNotificationRead(c) \/ MarkAllNotificationsRead(c)
  PROVE  BellInv'
  <1> DEFINE r == IF ring[c].at = "late" THEN RingOver
                  ELSE [ring[c] EXCEPT !.at = "served", !.upto = Len(notices)]
  <1>1. notices \in Seq(Seen) /\ Len(notices) \in Nat /\ ring[c] \in RingRows /\ RingInv(c)
    BY DEF BellInv, BellTypes
  <1>2. ring' = [ring EXCEPT ![c] = r] /\ UNCHANGED <<items, doubtful>>
    BY DEF MarkNotificationRead, MarkAllNotificationsRead, RingServed
  <1>3. r \in RingRows
    BY <1>1, NewRingIs DEF RingRows
  <1>4. /\ ring' \in [Calls -> RingRows] /\ ring'[c] = r
        /\ \A d \in Calls \ {c} : ring'[d] = ring[d]
    BY <1>2, <1>3, RingMoves DEF BellInv
  <1>5. /\ notices' \in Seq(Seen) /\ Len(notices') = Len(notices)
        /\ \A k \in 1..Len(notices) : notices[k] = "read" => notices'[k] = "read"
        /\ ring[c].does = "read" => notices'[ring[c].note] = "read"
        /\ ring[c].does = "readAll" => \A k \in 1..Len(notices) : notices'[k] = "read"
    <2>1. CASE MarkNotificationRead(c)
      <3>1. ring[c].note \in 1..Len(notices) /\ ring[c].does = "read"
        BY <1>1, <2>1 DEF RingInv, MarkNotificationRead
      <3>2. notices' = [notices EXCEPT ![ring[c].note] = "read"]
        BY <2>1 DEF MarkNotificationRead
      <3>3. "read" \in Seen
        BY DEF Seen
      <3> QED BY <1>1, <3>1, <3>2, <3>3
    <2>2. CASE MarkAllNotificationsRead(c)
      <3>1. notices' = [k \in 1..Len(notices) |-> "read"] /\ ring[c].does = "readAll"
        BY <2>2 DEF MarkAllNotificationsRead
      <3>2. notices' \in [1..Len(notices) -> Seen]
        BY <3>1 DEF Seen
      <3>3. notices' \in Seq(Seen) /\ Len(notices') = Len(notices)
        BY <1>1, <3>1, <3>2
      <3> QED BY <3>1, <3>3
    <2> QED BY <2>1, <2>2
  <1>6. BellTypes' /\ Agrees(items, DOMAIN items \ doubtful)'
        /\ \A d \in Calls \ {c} : RingInv(d)'
    BY <1>1, <1>2, <1>4, <1>5, NoticesGrow DEF BellInv, BellTypes
  <1>7. RingInv(c)'
    <2>1. CASE ring[c].at = "late"
      <3>1. RingOver.at = "ended" /\ RingOver.does = "none" /\ RingOver.upto = 0
        BY DEF RingOver, NewRing
      <3> QED BY <1>1, <1>4, <1>5, <2>1, <3>1 DEF RingInv
    <2>2. CASE ring[c].at # "late"
      <3>1. /\ r.at = "served" /\ r.upto = Len(notices) /\ r.does = ring[c].does
            /\ r.note = ring[c].note /\ r.does \in {"read", "readAll"}
        BY <1>1, <2>2 DEF RingRows, MarkNotificationRead, MarkAllNotificationsRead
      <3> HIDE DEF r
      <3> QED BY <1>1, <1>4, <1>5, <3>1 DEF RingInv
    <2> QED BY <2>1, <2>2
  <1> QED BY <1>6, <1>7 DEF BellInv

(* The page takes a notice to be read that is, or puts it among the        *)
(* doubtful ones.                                                          *)
LEMMA RingMarked ==
  ASSUME BellInv, NEW c \in Calls, Marked(c)
  PROVE  BellInv'
  <1> DEFINE meant == IF ring[c].does = "read" THEN {ring[c].note} ELSE DOMAIN items
             wrong == {k \in meant : ring[c].at = "asked" \/ k > ring[c].upto}
  <1>1. /\ ring' \in [Calls -> RingRows] /\ ring'[c] = RingOver
        /\ \A d \in Calls \ {c} : ring'[d] = ring[d]
    BY NewRingIs, RingMoves DEF BellInv, Marked, RingEnds
  <1>2. /\ items' = [k \in DOMAIN items |-> IF k \in meant THEN "read" ELSE items[k]]
        /\ doubtful' = doubtful \cup {k \in DOMAIN items : k \in wrong /\ items[k] = "unread"}
        /\ notices' = notices /\ ring[c].does \in {"read", "readAll"}
        /\ ring[c].at \in {"asked", "served"}
    BY DEF Marked, centerRows
  <1>3. /\ RingInv(c) /\ ring[c] \in RingRows /\ Len(notices) \in Nat
        /\ Agrees(items, DOMAIN items \ doubtful)
        /\ DOMAIN items \subseteq Nat /\ \A k \in DOMAIN items : items[k] \in Seen
    <2>1. PICK S \in SUBSET Nat : items \in [S -> Seen]
      BY DEF BellInv, BellTypes, NoticeLists
    <2> QED BY <2>1 DEF BellInv, BellTypes
  <1>4. items' \in NoticeLists
    <2>1. items' \in [DOMAIN items -> Seen]
      BY <1>2, <1>3 DEF Seen
    <2> QED BY <1>3, <2>1 DEF NoticeLists
  <1>5. ASSUME NEW k \in DOMAIN items \ doubtful', items'[k] = "read" PROVE notices[k] = "read"
    <2>1. CASE items[k] = "read"
      BY <1>2, <1>3, <2>1 DEF Agrees
    <2>2. CASE items[k] # "read"
      <3>1. items[k] = "unread" /\ k \in meant
        BY <1>2, <1>3, <1>5, <2>2 DEF Seen
      <3>2. ring[c].at = "served" /\ ~(k > ring[c].upto)
        BY <1>2, <1>5, <3>1
      <3>3. k \in 1..ring[c].upto
        BY <1>3, <3>2 DEF Agrees, RingRows
      <3> QED BY <1>2, <1>3, <3>1, <3>2, <3>3 DEF RingInv
    <2> QED BY <2>1, <2>2
  <1>6. Agrees(items, DOMAIN items \ doubtful)'
    <2>1. DOMAIN items' = DOMAIN items
      BY <1>2
    <2> QED BY <1>2, <1>3, <1>5, <2>1 DEF Agrees
  <1>7. \A d \in Calls \ {c} : RingInv(d)'
    BY <1>1, <1>2 DEF BellInv, RingInv, Agrees
  <1>8. RingInv(c)'
    <2>1. RingOver.at = "ended" /\ RingOver.does = "none" /\ RingOver.upto = 0
      BY DEF RingOver, NewRing
    <2> QED BY <1>1, <1>2, <1>3, <2>1 DEF RingInv
  <1> QED BY <1>1, <1>2, <1>4, <1>6, <1>7, <1>8 DEF BellInv, BellTypes

(* The rest of the administrator's page, and the contact page, do not      *)
(* touch the bell; what they do to the notices is to send them.            *)
RingStep(c) ==
  \/ PollNotices(c) \/ OpenNotice(c) \/ ReadAll(c) \/ RingFails(c)
  \/ GetNotifications(c) \/ NoticesArrive(c)
  \/ MarkNotificationRead(c) \/ MarkAllNotificationsRead(c) \/ Marked(c)

LEMMA CenterSteps ==
  ASSUME [CenterNext]_centerVars
  PROVE  \/ UNCHANGED bellVars
         \/ notices' = Append(notices, "unread") /\ UNCHANGED <<items, doubtful, ring>>
         \/ \E c \in Calls : RingStep(c)
  <1>1. CASE NotifyUser \/ \E c \in Calls : DeliverNotices(c)
    BY <1>1 DEF NotifyUser, DeliverNotices, bell
  <1>2. CASE UNCHANGED centerVars
    BY <1>2 DEF centerVars, centerRows, bell, bellVars
  <1>3. CASE CenterAct /\ ~NotifyUser
    BY <1>3 DEF CenterAct, AskDelete, CancelDelete, SetTargetType, SelectUser, DropUser,
         SendAnother, CloseBell, centerRows, bell, bellVars
  <1>4. ASSUME NEW c \in Calls,
               \/ LoadCenter(c) \/ CreateUser(c) \/ ChangeRole(c) \/ ChangeActive(c)
               \/ RemoveUser(c) \/ ChangeContact(c) \/ Broadcast(c) \/ SubmitContact(c)
        PROVE UNCHANGED bellVars
    BY <1>4 DEF LoadCenter, CreateUser, ChangeRole, ChangeActive, RemoveUser, ChangeContact,
         Broadcast, SubmitContact, centerRows, bell, bellVars
  <1>5. ASSUME NEW c \in Calls,
               \/ GetUsers(c) \/ GetContacts(c) \/ CenterLoaded(c)
               \/ StoreUser(c) \/ UpdateUser(c) \/ DeleteUser(c) \/ RemoveEnds(c)
               \/ UpdateContact(c) \/ ChangeDone(c) \/ TaskFails(c)
        PROVE UNCHANGED bellVars
    BY <1>5 DEF GetUsers, GetContacts, CenterLoaded, StoreUser, UpdateUser, DeleteUser,
         RemoveEnds, UpdateContact, ChangeDone, TaskFails, centerRows, bell, bellVars
  <1>6. ASSUME NEW c \in Calls,
               \/ FindRecipients(c) \/ NoRecipients(c) \/ Delivered(c)
               \/ StoreContact(c) \/ ContactSent(c) \/ ContactFails(c)
        PROVE UNCHANGED bellVars
    BY <1>6 DEF FindRecipients, NoRecipients, Delivered, StoreContact, ContactSent,
         ContactFails, centerRows, bell, bellVars
  <1> QED BY <1>1, <1>2, <1>3, <1>4, <1>5, <1>6
          DEF CenterNext, CenterCall, CenterStep, RingStep

LEMMA CenterBells ==
  ASSUME BellInv, [CenterNext]_centerVars
  PROVE  BellInv'
  <1>1. CASE UNCHANGED bellVars
    BY <1>1 DEF BellInv, BellTypes, RingInv, Agrees, bellVars
  <1> QED BY <1>1, CenterSteps, NoticeComes, RingAsks, RingLoads, RingArrives, RingMarks,
             RingMarked
          DEF RingStep

LEMMA CenterStarts == CenterInit => BellInv
  <1> SUFFICES ASSUME CenterInit PROVE BellInv
    OBVIOUS
  <1>1. \A c \in Calls : ring[c] = NewRing
    BY DEF CenterInit
  <1>2. NewRing.at = "start" /\ NewRing.does = "none" /\ NewRing.upto = 0 /\ NewRing.list = <<>>
    BY DEF NewRing
  <1>3. notices \in Seq(Seen) /\ Len(notices) \in Nat
    <2>1. notices = <<>> \/ notices = <<"unread">>
      BY DEF CenterInit
    <2>2. "unread" \in Seen /\ \A s \in Seen : <<s>> \in Seq(Seen)
      BY DEF Seen
    <2>3. <<>> \in Seq(Seen)
      OBVIOUS
    <2> QED BY <2>1, <2>2, <2>3
  <1>4. items = NewRing.list /\ DOMAIN items = {}
    BY <1>2 DEF CenterInit
  <1>5. BellTypes
    <2>1. items \in NoticeLists
      BY <1>4, NewRingIs DEF RingRows
    <2> QED BY <1>3, <2>1, NewRingIs DEF BellTypes, CenterInit
  <1> QED BY <1>1, <1>2, <1>3, <1>4, <1>5 DEF BellInv, RingInv, Agrees

(* A notice that is shown as read is stored as read.                       *)
THEOREM ShownReadIsRead == CenterSpec => []ReadShownIsRead
  <1>1. BellInv => ReadShownIsRead
    BY DEF BellInv, Agrees, ReadShownIsRead
  <1> QED BY <1>1, CenterStarts, CenterBells, PTL DEF CenterSpec

(* What the bell keeps of the notices are notices that there are.          *)
BellRest ==
  /\ doubtful \subseteq DOMAIN items
  /\ \A c \in Calls : /\ ring[c].note <= Len(notices)
                      /\ DOMAIN ring[c].list \subseteq 1..Len(notices)

LEMMA BellRestTyped ==
  ASSUME BellInv, BellRest
  PROVE  /\ notices \in Seq({"read", "unread"})
         /\ items \in Lists(Len(notices)) /\ doubtful \subseteq DOMAIN items
         /\ ring \in [Calls -> [does : {"none", "load", "read", "readAll"},
                                at : {"start", "asked", "served", "late", "ended"},
                                note : 0..Len(notices), upto : 0..Len(notices),
                                list : Lists(Len(notices))]]
  <1>1. Len(notices) \in Nat
    BY DEF BellInv, BellTypes
  <1>2. ASSUME NEW list \in NoticeLists, DOMAIN list \subseteq 1..Len(notices)
        PROVE  list \in Lists(Len(notices))
    <2>1. PICK S \in SUBSET Nat : list \in [S -> Seen]
      BY DEF NoticeLists
    <2>2. S \in SUBSET (1..Len(notices)) /\ list \in [S -> {"read", "unread"}]
      BY <1>2, <2>1 DEF Seen
    <2> QED BY <2>2 DEF Lists
  <1>3. items \in Lists(Len(notices))
    BY <1>2 DEF BellInv, BellTypes, Agrees
  <1>4. ASSUME NEW c \in Calls
        PROVE  ring[c] \in [does : {"none", "load", "read", "readAll"},
                            at : {"start", "asked", "served", "late", "ended"},
                            note : 0..Len(notices), upto : 0..Len(notices),
                            list : Lists(Len(notices))]
    <2>1. ring[c] \in RingRows /\ RingInv(c)
      BY DEF BellInv, BellTypes
    <2>2. ring[c].list \in Lists(Len(notices))
      BY <1>2, <2>1 DEF BellRest, RingRows
    <2>3. ring[c].note \in 0..Len(notices) /\ ring[c].upto \in 0..Len(notices)
      BY <1>1, <2>1 DEF BellRest, RingRows, RingInv
    <2> QED BY <2>1, <2>2, <2>3 DEF RingRows
  <1> QED BY <1>3, <1>4 DEF BellInv, BellTypes, BellRest, Seen

(* A call that moves keeps to the notices that there are.                  *)
LEMMA RestMoves ==
  ASSUME BellInv, BellRest, NEW c \in Calls, NEW r, ring' = [ring EXCEPT ![c] = r],
         r.note <= Len(notices), DOMAIN r.list \subseteq 1..Len(notices),
         Len(notices') = Len(notices), doubtful' \subseteq DOMAIN items'
  PROVE  BellRest'
  <1>1. ring'[c] = r /\ \A d \in Calls \ {c} : ring'[d] = ring[d]
    BY DEF BellInv, BellTypes
  <1> QED BY <1>1 DEF BellRest

LEMMA RestOfOver ==
  ASSUME BellInv, BellRest, NEW c \in Calls, ring' = [ring EXCEPT ![c] = RingOver],
         Len(notices') = Len(notices), doubtful' \subseteq DOMAIN items'
  PROVE  BellRest'
  <1>1. RingOver.note = 0 /\ RingOver.list = <<>> /\ Len(notices) \in Nat
    BY DEF RingOver, NewRing, BellInv, BellTypes
  <1>2. RingOver.note <= Len(notices) /\ DOMAIN RingOver.list \subseteq 1..Len(notices)
    BY <1>1
  <1> QED BY <1>2, RestMoves

LEMMA RestOfNotices ==
  ASSUME BellInv, BellRest, notices' = Append(notices, "unread"),
         UNCHANGED <<items, doubtful, ring>>
  PROVE  BellRest'
  <1>1. notices \in Seq(Seen) /\ Len(notices') = Len(notices) + 1 /\ Len(notices) \in Nat
    BY DEF BellInv, BellTypes
  <1>2. \A c \in Calls : ring[c].note \in Nat
    BY DEF BellInv, BellTypes, RingRows
  <1> QED BY <1>1, <1>2 DEF BellRest

LEMMA RestOfAsking ==
  ASSUME BellInv, BellRest, NEW c \in Calls,
         PollNotices(c) \/ OpenNotice(c) \/ ReadAll(c) \/ RingFails(c)
  PROVE  BellRest'
  <1>1. Len(notices) \in Nat /\ ring[c] \in RingRows
    BY DEF BellInv, BellTypes
  <1>2. UNCHANGED <<notices, items, doubtful>>
    BY DEF PollNotices, OpenNotice, Read, ReadAll, RingFails, centerRows
  <1>3. doubtful' \subseteq DOMAIN items' /\ Len(notices') = Len(notices)
    BY <1>2 DEF BellRest
  <1>4. CASE PollNotices(c) \/ ReadAll(c)
    <2>1. PICK errand \in {"load", "readAll"} : ring' = [ring EXCEPT ![c] = Ringing(errand)]
      BY <1>4 DEF PollNotices, ReadAll, Rings
    <2>2. Ringing(errand).note = 0 /\ Ringing(errand).list = <<>>
      BY DEF Ringing, NewRing
    <2>3. Ringing(errand).note <= Len(notices) /\ DOMAIN Ringing(errand).list \subseteq 1..Len(notices)
      BY <1>1, <2>2
    <2> QED BY <1>3, <2>1, <2>3, RestMoves
  <1>5. CASE OpenNotice(c)
    <2>1. PICK k \in DOMAIN items : Read(c, k)
      BY <1>5 DEF OpenNotice
    <2>2. k \in 1..Len(notices)
      BY DEF BellInv, Agrees
    <2> DEFINE r == [Ringing("read") EXCEPT !.note = k]
    <2>3. ring' = [ring EXCEPT ![c] = r]
      BY <2>1 DEF Read, Rings
    <2>4. r.note = k /\ r.list = <<>>
      BY DEF Ringing, NewRing
    <2> HIDE DEF r
    <2>5. r.note <= Len(notices) /\ DOMAIN r.list \subseteq 1..Len(notices)
      BY <1>1, <2>2, <2>4
    <2> QED BY <1>3, <2>3, <2>5, RestMoves
  <1>6. CASE RingFails(c)
    <2>1. CASE RingEnds(c)
      BY <1>3, <2>1, RestOfOver DEF RingEnds
    <2>2. CASE ring' = [ring EXCEPT ![c].at = "late"]
      <3> DEFINE r == [ring[c] EXCEPT !.at = "late"]
      <3>1. r.note = ring[c].note /\ r.list = ring[c].list
        BY <1>1 DEF RingRows
      <3>2. ring' = [ring EXCEPT ![c] = r]
        BY <2>2
      <3> HIDE DEF r
      <3>3. r.note <= Len(notices) /\ DOMAIN r.list \subseteq 1..Len(notices)
        BY <3>1 DEF BellRest
      <3> QED BY <1>3, <3>2, <3>3, RestMoves
    <2> QED BY <1>6, <2>1, <2>2 DEF RingFails
  <1> QED BY <1>4, <1>5, <1>6

LEMMA RestOfLoads ==
  ASSUME BellInv, BellRest, NEW c \in Calls, GetNotifications(c) \/ NoticesArrive(c)
  PROVE  BellRest'
  <1>1. CASE GetNotifications(c)
    <2> DEFINE newest == {k \in 1..Len(notices) : k + Window > Len(notices)}
               list == [k \in newest |-> notices[k]]
               r == [ring[c] EXCEPT !.at = "served", !.list = list]
    <2>1. ring[c] \in RingRows
      BY DEF BellInv, BellTypes
    <2>2. ring' = [ring EXCEPT ![c] = r] /\ UNCHANGED <<notices, items, doubtful>>
      BY <1>1 DEF GetNotifications, centerRows
    <2>3. DOMAIN list \subseteq 1..Len(notices)
      OBVIOUS
    <2> HIDE DEF list
    <2>4. r.note = ring[c].note /\ r.list = list
      BY <2>1 DEF RingRows
    <2> HIDE DEF r
    <2>5. r.note <= Len(notices) /\ DOMAIN r.list \subseteq 1..Len(notices)
      BY <2>3, <2>4 DEF BellRest
    <2> QED BY <2>2, <2>5, RestMoves DEF BellRest
  <1>2. CASE NoticesArrive(c)
    <2>1. doubtful' \subseteq DOMAIN items' /\ notices' = notices
      BY <1>2 DEF NoticesArrive, centerRows
    <2> QED BY <1>2, <2>1, RestOfOver DEF NoticesArrive, RingEnds
  <1> QED BY <1>1, <1>2

LEMMA RestOfMarks ==
  ASSUME BellInv, BellRest, NEW c \in Calls,
         MarkNotificationRead(c) \/ MarkAllNotificationsRead(c) \/ Marked(c)
  PROVE  BellRest'
  <1>1. notices \in Seq(Seen) /\ Len(notices) \in Nat /\ ring[c] \in RingRows /\ RingInv(c)
    BY DEF BellInv, BellTypes
  <1>2. CASE MarkNotificationRead(c) \/ MarkAllNotificationsRead(c)
    <2>1. Len(notices') = Len(notices)
      <3>1. CASE MarkNotificationRead(c)
        <4>1. notices' = [notices EXCEPT ![ring[c].note] = "read"] /\ "read" \in Seen
          BY <3>1 DEF MarkNotificationRead, Seen
        <4> QED BY <1>1, <4>1
      <3>2. CASE MarkAllNotificationsRead(c)
        <4>1. notices' = [k \in 1..Len(notices) |-> "read"]
          BY <3>2 DEF MarkAllNotificationsRead
        <4> QED BY <1>1, <4>1
      <3> QED BY <1>2, <3>1, <3>2
    <2>2. UNCHANGED <<items, doubtful>> /\ RingServed(c)
      BY <1>2 DEF MarkNotificationRead, MarkAllNotificationsRead
    <2>3. doubtful' \subseteq DOMAIN items'
      BY <2>2 DEF BellRest
    <2>4. CASE ring[c].at = "late"
      BY <2>1, <2>2, <2>3, <2>4, RestOfOver DEF RingServed
    <2>5. CASE ring[c].at # "late"
      <3> DEFINE r == [ring[c] EXCEPT !.at = "served", !.upto = Len(notices)]
      <3>1. ring' = [ring EXCEPT ![c] = r]
        BY <2>2, <2>5 DEF RingServed
      <3>2. r.note = ring[c].note /\ r.list = ring[c].list
        BY <1>1 DEF RingRows
      <3> HIDE DEF r
      <3>3. r.note <= Len(notices) /\ DOMAIN r.list \subseteq 1..Len(notices)
        BY <3>2 DEF BellRest
      <3> QED BY <2>1, <2>3, <3>1, <3>3, RestMoves
    <2> QED BY <2>4, <2>5
  <1>3. CASE Marked(c)
    <2>1. DOMAIN items' = DOMAIN items /\ notices' = notices
      BY <1>3 DEF Marked, centerRows
    <2>2. \A k \in doubtful' : k \in doubtful \/ k \in DOMAIN items
      BY <1>3 DEF Marked
    <2>3. doubtful' \subseteq DOMAIN items'
      BY <2>1, <2>2 DEF BellRest
    <2> QED BY <1>3, <2>1, <2>3, RestOfOver DEF Marked, RingEnds
  <1> QED BY <1>2, <1>3

LEMMA BellTypesHold == CenterSpec => [](BellInv /\ BellRest)
  <1>1. CenterInit => BellRest
    <2> SUFFICES ASSUME CenterInit PROVE BellRest
      OBVIOUS
    <2>1. \A c \in Calls : ring[c].note = 0 /\ ring[c].list = <<>>
      BY DEF CenterInit, NewRing
    <2>2. Len(notices) \in Nat
      BY CenterStarts DEF BellInv, BellTypes
    <2> QED BY <2>1, <2>2 DEF CenterInit, BellRest
  <1>2. BellInv /\ BellRest /\ [CenterNext]_centerVars => BellRest'
    <2> SUFFICES ASSUME BellInv, BellRest, [CenterNext]_centerVars PROVE BellRest'
      OBVIOUS
    <2>1. CASE UNCHANGED bellVars
      BY <2>1 DEF BellRest, bellVars
    <2> QED BY <2>1, CenterSteps, RestOfNotices, RestOfAsking, RestOfLoads, RestOfMarks
            DEF RingStep
  <1> QED BY <1>1, <1>2, CenterStarts, CenterBells, PTL DEF CenterSpec

TaskErrands == {"load", "create", "role", "status", "remove", "contact",
                "all", "oneRole", "specific", "submit"}

(* What the administrator's page, the contact page and the rows behind     *)
(* them hold.                                                              *)
CenterRest ==
  /\ account \in Accounts /\ letters \in Letters
  /\ shownUser \in Accounts /\ shownLetters \in Letters
  /\ target \in {"all", "oneRole", "specific"} /\ chosen \in BOOLEAN /\ confirming \in BOOLEAN
  /\ task \in [Calls -> Task]
  /\ contacting \in BOOLEAN /\ contactError \in BOOLEAN /\ reference \in Calls \cup {None}
  /\ bellOpen \in BOOLEAN
  /\ centerActs \in 0..MaxActs

LEMMA NewTaskIs == NewTask \in Task /\ TaskOver \in Task
  <1>1. NoAccount \in Accounts /\ NoLetters \in Letters
    BY DEF NoAccount, Accounts, AccountRoles, NoLetters, Letters
  <1> QED BY <1>1 DEF NewTask, TaskOver, Task, LetterStatuses

LEMMA AskingIs ==
  ASSUME NEW errand \in TaskErrands
  PROVE  /\ Asking(errand) \in Task
         /\ \A u \in Accounts : [Asking(errand) EXCEPT !.user = u] \in Task
         /\ \A r \in AccountRoles : [Asking(errand) EXCEPT !.user.role = r] \in Task
         /\ \A l \in Calls, s \in LetterStatuses :
              [Asking(errand) EXCEPT !.letter = l, !.status = s] \in Task
  <1>1. Asking(errand) \in Task /\ Asking(errand).user \in Accounts
    BY NewTaskIs DEF Asking, Task, TaskErrands
  <1>2. \A r \in AccountRoles : [Asking(errand).user EXCEPT !.role = r] \in Accounts
    BY <1>1 DEF Accounts
  <1> QED BY <1>1, <1>2 DEF Task

LEMMA TaskMoves ==
  ASSUME task \in [Calls -> Task], NEW c \in Calls, NEW t \in Task, task' = [task EXCEPT ![c] = t]
  PROVE  task' \in [Calls -> Task]
  OBVIOUS

LEMMA TaskTurns ==
  ASSUME task \in [Calls -> Task], NEW c \in Calls, TaskServed(c) \/ TaskEnds(c) \/ TaskLoads(c)
  PROVE  task' \in [Calls -> Task]
  <1>1. CASE TaskServed(c)
    <2>1. [task[c] EXCEPT !.at = "served"] \in Task
      BY DEF Task
    <2> QED BY <1>1, <2>1, NewTaskIs DEF TaskServed
  <1>2. CASE TaskEnds(c)
    BY <1>2, NewTaskIs DEF TaskEnds
  <1>3. CASE TaskLoads(c)
    <2>1. Asking("load") \in Task
      BY AskingIs DEF TaskErrands
    <2> QED BY <1>3, <2>1 DEF TaskLoads
  <1> QED BY <1>1, <1>2, <1>3

LEMMA CenterAsksTyped ==
  ASSUME CenterRest, NEW c \in Calls,
         \/ LoadCenter(c) \/ CreateUser(c) \/ ChangeRole(c) \/ ChangeActive(c)
         \/ RemoveUser(c) \/ ChangeContact(c) \/ Broadcast(c) \/ SubmitContact(c)
  PROVE  CenterRest'
  <1>1. task' \in [Calls -> Task]
    <2> SUFFICES \E t \in Task : Requests(c, t)
      BY DEF CenterRest, Requests
    <2>1. CASE LoadCenter(c) \/ RemoveUser(c) \/ SubmitContact(c)
      BY <2>1, AskingIs DEF LoadCenter, RemoveUser, SubmitContact, TaskErrands
    <2>2. CASE CreateUser(c)
      <3>1. PICK r \in AccountRoles :
              Requests(c, [Asking("create") EXCEPT !.user = [status |-> "active", role |-> r]])
        BY <2>2 DEF CreateUser
      <3>2. [status |-> "active", role |-> r] \in Accounts
        BY DEF Accounts
      <3> QED BY <3>1, <3>2, AskingIs DEF TaskErrands
    <2>3. CASE ChangeRole(c)
      <3>1. PICK r \in AccountRoles :
              Requests(c, [Asking("role") EXCEPT !.user = [shownUser EXCEPT !.role = r]])
        BY <2>3 DEF ChangeRole
      <3>2. [shownUser EXCEPT !.role = r] \in Accounts
        BY DEF CenterRest, Accounts
      <3> QED BY <3>1, <3>2, AskingIs DEF TaskErrands
    <2>4. CASE ChangeActive(c)
      <3>1. PICK status \in {"active", "suspended"} :
              Requests(c, [Asking("status") EXCEPT !.user = [shownUser EXCEPT !.status = status]])
        BY <2>4 DEF ChangeActive
      <3>2. [shownUser EXCEPT !.status = status] \in Accounts
        BY DEF CenterRest, Accounts
      <3> QED BY <3>1, <3>2, AskingIs DEF TaskErrands
    <2>5. CASE ChangeContact(c)
      <3>1. PICK l \in Calls, s \in LetterStatuses :
              Requests(c, [Asking("contact") EXCEPT !.letter = l, !.status = s])
        BY <2>5 DEF ChangeContact
      <3> QED BY <3>1, AskingIs DEF TaskErrands
    <2>6. CASE Broadcast(c)
      <3>1. PICK r \in TargetRoles : Requests(c, [Asking(target) EXCEPT !.user.role = r])
        BY <2>6 DEF Broadcast
      <3>2. r \in AccountRoles /\ target \in TaskErrands
        BY DEF TargetRoles, NoAccount, AccountRoles, CenterRest, TaskErrands
      <3> QED BY <3>1, <3>2, AskingIs
    <2> QED BY <2>1, <2>2, <2>3, <2>4, <2>5, <2>6
  <1>2. UNCHANGED <<centerRows, shownUser, shownLetters, target, chosen, reference, bell, centerActs>>
    BY DEF LoadCenter, CreateUser, ChangeRole, ChangeActive, RemoveUser, ChangeContact, Broadcast,
           SubmitContact, centerPage, contactPage
  <1>3. confirming' \in BOOLEAN /\ contacting' \in BOOLEAN /\ contactError' \in BOOLEAN
    BY DEF CenterRest, LoadCenter, CreateUser, ChangeRole, ChangeActive, RemoveUser,
           ChangeContact, Broadcast, SubmitContact, centerPage, contactPage
  <1> QED BY <1>1, <1>2, <1>3 DEF CenterRest, centerRows, bell

LEMMA CenterLoadsTyped ==
  ASSUME CenterRest, NEW c \in Calls, GetUsers(c) \/ GetContacts(c) \/ CenterLoaded(c)
  PROVE  CenterRest'
  <1>1. task[c] \in Task
    BY DEF CenterRest
  <1>2. CASE GetUsers(c) \/ GetContacts(c)
    <2>1. PICK t \in Task : task' = [task EXCEPT ![c] = t]
      <3>1. CASE GetUsers(c)
        <4> DEFINE t == [task[c] EXCEPT !.got = @ \cup {"users"}, !.user = account]
        <4>1. t \in Task
          BY <1>1 DEF CenterRest, Task
        <4>2. task' = [task EXCEPT ![c] = t]
          BY <3>1 DEF GetUsers
        <4> QED BY <4>1, <4>2
      <3>2. CASE GetContacts(c)
        <4> DEFINE t == [task[c] EXCEPT !.got = @ \cup {"contacts"}, !.list = letters]
        <4>1. t \in Task
          BY <1>1 DEF CenterRest, Task
        <4>2. task' = [task EXCEPT ![c] = t]
          BY <3>2 DEF GetContacts
        <4> QED BY <4>1, <4>2
      <3> QED BY <1>2, <3>1, <3>2
    <2>2. UNCHANGED <<centerRows, centerPage, contactPage, bell, centerActs>>
      BY <1>2 DEF GetUsers, GetContacts
    <2> QED BY <2>1, <2>2, TaskMoves DEF CenterRest, centerRows, centerPage, contactPage, bell
  <1>3. CASE CenterLoaded(c)
    <2>1. task' \in [Calls -> Task]
      BY <1>3, TaskTurns DEF CenterRest, CenterLoaded
    <2>2. shownUser' \in Accounts /\ shownLetters' \in Letters
      BY <1>1, <1>3 DEF CenterRest, CenterLoaded, Task
    <2> QED BY <1>3, <2>1, <2>2 DEF CenterRest, CenterLoaded, centerRows, contactPage, bell
  <1> QED BY <1>2, <1>3

LEMMA CenterServesTyped ==
  ASSUME CenterRest, NEW c \in Calls,
         \/ StoreUser(c) \/ UpdateUser(c) \/ DeleteUser(c) \/ UpdateContact(c)
         \/ NoRecipients(c) \/ DeliverNotices(c) \/ StoreContact(c)
  PROVE  CenterRest'
  <1>1. task[c] \in Task
    BY DEF CenterRest
  <1>2. task' \in [Calls -> Task]
    BY TaskTurns DEF CenterRest, StoreUser, UpdateUser, DeleteUser, UpdateContact, NoRecipients,
                     DeliverNotices, StoreContact
  <1>3. account' \in Accounts
    <2>1. CASE StoreUser(c)
      BY <1>1, <2>1 DEF StoreUser, Task
    <2>2. CASE UpdateUser(c)
      <3>1. task[c].user \in Accounts
        BY <1>1 DEF Task
      <3> QED BY <2>2, <3>1 DEF CenterRest, UpdateUser, Accounts
    <2>3. CASE DeleteUser(c)
      BY <2>3 DEF DeleteUser, NoAccount, Accounts, AccountRoles
    <2>4. CASE UpdateContact(c) \/ NoRecipients(c) \/ DeliverNotices(c) \/ StoreContact(c)
      BY <2>4 DEF CenterRest, UpdateContact, NoRecipients, DeliverNotices, StoreContact, centerRows
    <2> QED BY <2>1, <2>2, <2>3, <2>4
  <1>4. letters' \in Letters
    <2>1. CASE UpdateContact(c)
      <3>1. task[c].status \in LetterStatuses
        BY <1>1 DEF Task
      <3> QED BY <2>1, <3>1 DEF CenterRest, UpdateContact, Letters
    <2>2. CASE StoreContact(c)
      BY <2>2 DEF CenterRest, StoreContact, Letters, LetterStatuses
    <2>3. CASE ~UpdateContact(c) /\ ~StoreContact(c)
      BY <2>3 DEF CenterRest, StoreUser, UpdateUser, DeleteUser, NoRecipients, DeliverNotices,
                  centerRows
    <2> QED BY <2>1, <2>2, <2>3
  <1>5. UNCHANGED <<centerPage, contactPage, bell, centerActs>>
    BY DEF StoreUser, UpdateUser, DeleteUser, UpdateContact, NoRecipients, DeliverNotices,
           StoreContact
  <1> QED BY <1>2, <1>3, <1>4, <1>5 DEF CenterRest, centerPage, contactPage, bell

LEMMA CenterAnswersTyped ==
  ASSUME CenterRest, NEW c \in Calls,
         \/ RemoveEnds(c) \/ ChangeDone(c) \/ TaskFails(c) \/ FindRecipients(c)
         \/ Delivered(c) \/ ContactSent(c) \/ ContactFails(c)
  PROVE  CenterRest'
  <1>1. task[c] \in Task
    BY DEF CenterRest
  <1>2. [task[c] EXCEPT !.heard = FALSE] \in Task /\ [task[c] EXCEPT !.at = "half"] \in Task
    BY <1>1 DEF Task
  <1>3. task' \in [Calls -> Task]
    <2>1. CASE TaskEnds(c) \/ TaskLoads(c)
      BY <2>1, TaskTurns DEF CenterRest
    <2>2. CASE \/ task' = [task EXCEPT ![c].heard = FALSE]
               \/ task' = [task EXCEPT ![c].at = "half"]
      BY <1>2, <2>2 DEF CenterRest
    <2> QED BY <2>1, <2>2 DEF RemoveEnds, ChangeDone, TaskFails, FindRecipients, Delivered,
                              ContactSent, ContactFails
  <1>4. /\ confirming' \in BOOLEAN /\ chosen' \in BOOLEAN /\ target' \in {"all", "oneRole", "specific"}
        /\ contacting' \in BOOLEAN /\ contactError' \in BOOLEAN /\ reference' \in Calls \cup {None}
    BY DEF CenterRest, RemoveEnds, ChangeDone, TaskFails, FindRecipients, Delivered, ContactSent,
           ContactFails, centerPage, contactPage
  <1>5. UNCHANGED <<centerRows, shownUser, shownLetters, bell, centerActs>>
    BY DEF RemoveEnds, ChangeDone, TaskFails, FindRecipients, Delivered, ContactSent,
           ContactFails, centerPage
  <1> QED BY <1>3, <1>4, <1>5 DEF CenterRest, centerRows, bell

LEMMA CenterActsTyped ==
  ASSUME CenterRest, CenterAct
  PROVE  CenterRest'
  <1>1. centerActs' \in 0..MaxActs
    BY PagesAssumption DEF CenterRest, CenterActs, CenterAct, AskDelete, CancelDelete,
       SetTargetType, SelectUser, DropUser, SendAnother, CloseBell, NotifyUser
  <1>2. CASE AskDelete \/ CancelDelete \/ SetTargetType \/ SelectUser \/ DropUser
    BY <1>1, <1>2 DEF CenterRest, AskDelete, CancelDelete, SetTargetType, SelectUser, DropUser,
                      centerRows, contactPage, bell
  <1>3. CASE SendAnother \/ CloseBell \/ NotifyUser
    BY <1>1, <1>3 DEF CenterRest, SendAnother, CloseBell, NotifyUser, centerRows, centerPage,
                      contactPage, bell
  <1> QED BY <1>2, <1>3 DEF CenterAct

LEMMA RingsTyped ==
  ASSUME CenterRest, NEW c \in Calls, RingStep(c)
  PROVE  CenterRest'
  <1>1. UNCHANGED <<account, letters, centerPage, task, contactPage, centerActs>>
    BY DEF RingStep, PollNotices, OpenNotice, Read, ReadAll, RingFails, GetNotifications,
           NoticesArrive, MarkNotificationRead, MarkAllNotificationsRead, Marked, centerRows
  <1>2. bellOpen' \in BOOLEAN
    BY DEF CenterRest, RingStep, PollNotices, OpenNotice, Read, ReadAll, RingFails,
           GetNotifications, NoticesArrive, MarkNotificationRead, MarkAllNotificationsRead, Marked
  <1> QED BY <1>1, <1>2 DEF CenterRest, centerPage, contactPage

LEMMA CenterTypesHold == CenterSpec => []CenterTypeOK
  <1>1. CenterInit => CenterRest
    <2> SUFFICES ASSUME CenterInit PROVE CenterRest
      OBVIOUS
    <2>1. NoAccount \in Accounts /\ [NoAccount EXCEPT !.status = "active"] \in Accounts
      BY DEF NoAccount, Accounts, AccountRoles
    <2>2. NoLetters \in Letters
      BY DEF NoLetters, Letters
    <2>3. task \in [Calls -> Task]
      BY NewTaskIs DEF CenterInit
    <2>4. centerActs \in 0..MaxActs
      BY PagesAssumption DEF CenterInit
    <2> QED BY <2>1, <2>2, <2>3, <2>4 DEF CenterInit, CenterRest
  <1>2. CenterRest /\ [CenterNext]_centerVars => CenterRest'
    <2> SUFFICES ASSUME CenterRest, [CenterNext]_centerVars PROVE CenterRest'
      OBVIOUS
    <2>1. CASE UNCHANGED centerVars
      BY <2>1 DEF CenterRest, centerVars, centerRows, centerPage, contactPage, bell
    <2> QED BY <2>1, CenterAsksTyped, CenterLoadsTyped, CenterServesTyped, CenterAnswersTyped,
               CenterActsTyped, RingsTyped
            DEF CenterNext, CenterCall, CenterStep, RingStep
  <1>3. BellInv /\ BellRest /\ CenterRest => CenterTypeOK
    BY BellRestTyped DEF CenterRest, CenterTypeOK
  <1> QED BY <1>1, <1>2, <1>3, BellTypesHold, PTL DEF CenterSpec

(***************************************************************************)
(* Who is signed in (SignedIn)                                             *)
(***************************************************************************)

(* As long as no refresh was under way when the user changed, one that is  *)
(* under way is the user's; and so is the answer that the profile page     *)
(* waits for, unless a sign-in came while that page was open.              *)
OwnTrip(c) ==
  /\ trip[c].at = "refreshing" => trip[c].as = signedIn
  /\ RequestAt(c, {"asked", "again"}) /\ trip[c].heard =>
       strayed \/ signedIn = None \/ trip[c].as \in {None, signedIn}

(* Nothing is loaded, or heard of, for a profile page that has been left.  *)
PageLeft ==
  visiting # "profile" =>
    /\ profile = None
    /\ \A c \in Calls : RequestAt(c, {"asked", "refreshing", "again"}) => ~trip[c].heard

SignInv ==
  /\ SignTypeOK /\ PageLeft
  /\ ~overtaken => /\ kept \in {None, signedIn}
                   /\ strayed \/ signedIn = None \/ profile \in {None, signedIn}
                   /\ \A c \in Calls : OwnTrip(c)

LEMMA SignInvImplies == SignInv => TokensOfShownUser
  BY DEF SignInv, TokensOfShownUser, ShownProfile

LEMMA NewTripIs ==
  /\ NewTrip \in Trip /\ TripOver \in Trip
  /\ NewTrip.at = "start" /\ TripOver.at = "ended"
  /\ NewTrip.does = "none" /\ TripOver.does = "none"
  BY DEF NewTrip, TripOver, Trip

LEMMA LeftIs ==
  ASSUME NEW calls \in [Calls -> Trip]
  PROVE  /\ Left(calls) \in [Calls -> Trip]
         /\ \A c \in Calls : /\ ~Left(calls)[c].heard
                             /\ Left(calls)[c].at = calls[c].at
                             /\ Left(calls)[c].as = calls[c].as
  BY DEF Left, Trip

(* The page that is shown is another, or none, for the same user.          *)
LEMMA SignGoes ==
  ASSUME SignInv, NEW p \in SignPages, Goes(p), menu' \in BOOLEAN
  PROVE  SignInv'
  <1>1. CASE p # visiting
    <2>1. /\ trip' \in [Calls -> Trip]
          /\ \A c \in Calls : /\ ~trip'[c].heard /\ trip'[c].at = trip[c].at
                              /\ trip'[c].as = trip[c].as
      BY <1>1, LeftIs DEF SignInv, SignTypeOK, Goes
    <2>2. SignTypeOK' /\ PageLeft'
      BY <1>1, <2>1 DEF SignInv, SignTypeOK, PageLeft, RequestAt, Goes, Shows
    <2>3. ASSUME ~overtaken', NEW c \in Calls PROVE OwnTrip(c)'
      BY <1>1, <2>1, <2>3 DEF SignInv, Goes, OwnTrip, RequestAt
    <2> QED BY <1>1, <2>2, <2>3 DEF SignInv, Goes, Shows
  <1>2. CASE p = visiting
    <2>1. /\ heading' = None
          /\ UNCHANGED <<visiting, sending, profile, due, strayed, trip, signedIn, kept,
                         overtaken>>
      BY <1>2 DEF Goes, Shows
    <2> QED BY <2>1 DEF SignInv, SignTypeOK, PageLeft, OwnTrip, RequestAt
  <1> QED BY <1>1, <1>2

(* The user changes, and the page stays: what it has, and what it is yet   *)
(* to hear, is of the user before only if it is the profile page.          *)
LEMMA SignChanges ==
  ASSUME SignInv, trip' \in [Calls -> Trip],
         \A c \in Calls : trip'[c] \in {trip[c], TripOver},
         kept' \in Users \cup {None}, signedIn' = kept',
         Overtakes, UNCHANGED <<visiting, profile, due>>,
         heading' \in SignPages, sending' \in BOOLEAN, menu' \in BOOLEAN,
         strayed' \in BOOLEAN, strayed' \/ kept' = None \/ visiting # "profile"
  PROVE  SignInv'
  <1>1. SignTypeOK'
    BY DEF SignInv, SignTypeOK, Overtakes
  <1>2. PageLeft'
    BY NewTripIs DEF SignInv, PageLeft, RequestAt
  <1>3. ASSUME ~overtaken', NEW c \in Calls PROVE OwnTrip(c)'
    BY <1>3, NewTripIs DEF Overtakes, SignInv, PageLeft, OwnTrip, RequestAt
  <1>4. strayed' \/ signedIn' = None \/ profile' = None
    BY DEF SignInv, PageLeft
  <1> QED BY <1>1, <1>2, <1>3, <1>4 DEF SignInv

(* The client is loaded anew.                                              *)
LEMMA SignOpens ==
  ASSUME SignInv, Open
  PROVE  SignInv'
  <1>1. /\ trip' \in [Calls -> Trip]
        /\ \A c \in Calls : trip'[c].at \in {"start", "ended"}
    BY NewTripIs DEF SignInv, SignTypeOK, Open
  <1>2. SignTypeOK' /\ PageLeft'
    BY <1>1 DEF SignInv, SignTypeOK, PageLeft, RequestAt, Open, Shows
  <1>3. \A c \in Calls : OwnTrip(c)'
    BY <1>1 DEF OwnTrip, RequestAt
  <1> QED BY <1>2, <1>3 DEF SignInv, Open, Shows

(* One call moves on, and the user stays.                                  *)
LEMMA TripMoves ==
  ASSUME SignInv, NEW c \in Calls, NEW r \in Trip, trip' = [trip EXCEPT ![c] = r],
         signedIn' = signedIn, overtaken' = overtaken,
         ~overtaken => OwnTrip(c)',
         ~overtaken => kept' \in {None, signedIn},
         ~overtaken => strayed \/ signedIn = None \/ profile' \in {None, signedIn},
         kept' \in Users \cup {None}, profile' \in Users \cup {None},
         visiting # "profile" => profile' = None,
         RequestAt(c, {"asked", "refreshing", "again"})' /\ r.heard => visiting = "profile",
         UNCHANGED <<visiting, heading, menu, strayed>>,
         sending' \in BOOLEAN, due' \in BOOLEAN
  PROVE  SignInv'
  <1>1. trip' \in [Calls -> Trip] /\ \A d \in Calls \ {c} : trip'[d] = trip[d]
    BY DEF SignInv, SignTypeOK
  <1>2. SignTypeOK'
    BY <1>1 DEF SignInv, SignTypeOK
  <1>3. ASSUME ~overtaken', NEW d \in Calls \ {c} PROVE OwnTrip(d)'
    BY <1>1, <1>3 DEF SignInv, OwnTrip, RequestAt
  <1>4. PageLeft'
    <2>1. trip'[c] = r
      BY DEF SignInv, SignTypeOK
    <2> QED BY <1>1, <2>1 DEF SignInv, PageLeft, RequestAt
  <1> QED BY <1>2, <1>3, <1>4 DEF SignInv

LEMMA SignBegins ==
  ASSUME SignInv, NEW c \in Calls, SignCall(c)
  PROVE  SignInv'
  <1>1. ASSUME NEW user \in Users, SubmitLogin(c, user) PROVE SignInv'
    <2> DEFINE r == [does |-> "login", at |-> "asked", as |-> user, heard |-> TRUE]
    <2>1. r \in Trip /\ trip' = [trip EXCEPT ![c] = r]
      BY <1>1 DEF Trip, SubmitLogin, Begins
    <2>2. trip'[c] = r
      BY <2>1 DEF SignInv, SignTypeOK
    <2> QED BY <1>1, <2>1, <2>2, TripMoves DEF SignInv, SignTypeOK, PageLeft, SubmitLogin, OwnTrip, RequestAt
  <1>2. ASSUME NEW user \in Users, SubmitRegister(c, user) PROVE SignInv'
    <2> DEFINE r == [does |-> "register", at |-> "asked", as |-> user, heard |-> TRUE]
    <2>1. r \in Trip /\ trip' = [trip EXCEPT ![c] = r]
      BY <1>2 DEF Trip, SubmitRegister, Begins
    <2>2. trip'[c] = r
      BY <2>1 DEF SignInv, SignTypeOK
    <2> QED BY <1>2, <2>1, <2>2, TripMoves
            DEF SignInv, SignTypeOK, PageLeft, SubmitRegister, OwnTrip, RequestAt
  <1>3. CASE LoadProfile(c)
    <2> DEFINE r == [does |-> "request", at |-> "asked", as |-> kept, heard |-> TRUE]
    <2>1. r \in Trip /\ trip' = [trip EXCEPT ![c] = r]
      BY <1>3 DEF Trip, SignInv, SignTypeOK, LoadProfile, Begins
    <2>2. trip'[c] = r
      BY <2>1 DEF SignInv, SignTypeOK
    <2> QED BY <1>3, <2>1, <2>2, TripMoves DEF SignInv, SignTypeOK, PageLeft, LoadProfile, OwnTrip, RequestAt
  <1>4. CASE AuthenticatedFetch(c)
    <2> DEFINE r == [does |-> "request", at |-> "asked", as |-> kept, heard |-> FALSE]
    <2>1. r \in Trip /\ trip' = [trip EXCEPT ![c] = r]
      BY <1>4 DEF Trip, SignInv, SignTypeOK, AuthenticatedFetch, Begins
    <2>2. trip'[c] = r
      BY <2>1 DEF SignInv, SignTypeOK
    <2> QED BY <1>4, <2>1, <2>2, TripMoves
            DEF SignInv, SignTypeOK, PageLeft, AuthenticatedFetch, signView, OwnTrip, RequestAt
  <1> QED BY <1>1, <1>2, <1>3, <1>4 DEF SignCall

(* An answer to a sign-in.                                                 *)
LEMMA SignAnswered ==
  ASSUME SignInv, NEW c \in Calls, SignedInAs(c) \/ SignInFails(c)
  PROVE  SignInv'
  <1>1. CASE SignedInAs(c)
    <2>1. trip' = [trip EXCEPT ![c] = TripOver] /\ trip \in [Calls -> Trip]
      BY <1>1 DEF SignedInAs, TripEnds, SignInv, SignTypeOK
    <2>2. trip' \in [Calls -> Trip] /\ \A d \in Calls : trip'[d] \in {trip[d], TripOver}
      BY <2>1, NewTripIs
    <2>3. /\ kept' = trip[c].as /\ signedIn' = kept' /\ Overtakes
          /\ UNCHANGED <<visiting, menu, profile, due>>
          /\ heading' \in LeadsTo(c)
          /\ sending' = (sending /\ ~trip[c].heard)
          /\ strayed' = (strayed \/ visiting = "profile")
      BY <1>1 DEF SignedInAs
    <2>4. /\ trip[c].as \in Users \cup {None} /\ menu \in BOOLEAN
          /\ heading' \in SignPages /\ sending' \in BOOLEAN /\ strayed' \in BOOLEAN
          /\ strayed' \/ visiting # "profile"
      BY <2>1, <2>3 DEF SignInv, SignTypeOK, Trip, LeadsTo, SignPages
    <2> QED BY <2>2, <2>3, <2>4, SignChanges
  <1>2. CASE SignInFails(c)
    <2>1. trip' = [trip EXCEPT ![c] = TripOver] /\ trip'[c] = TripOver
      BY <1>2 DEF SignInFails, TripEnds, SignInv, SignTypeOK
    <2>2. sending' \in BOOLEAN
      BY <1>2 DEF SignInFails, SignInv, SignTypeOK
    <2> QED BY <1>2, <2>1, <2>2, NewTripIs, TripMoves
            DEF SignInv, SignTypeOK, PageLeft, SignInFails, OwnTrip, RequestAt
  <1> QED BY <1>1, <1>2

(* An answer to a request, or to the refresh that it waits for.            *)
LEMMA RequestAnswered ==
  ASSUME SignInv, NEW c \in Calls,
         \/ ProfileArrives(c) \/ RequestFails(c)
         \/ StartRefresh(c) \/ RefreshArrives(c) \/ RefreshFails(c)
  PROVE  SignInv'
  <1>1. trip \in [Calls -> Trip] /\ trip[c] \in Trip
    BY DEF SignInv, SignTypeOK
  <1>2. CASE ProfileArrives(c)
    <2>1. trip' = [trip EXCEPT ![c] = TripOver] /\ trip'[c] = TripOver
      BY <1>1, <1>2 DEF ProfileArrives, TripEnds
    <2>2. profile' \in Users \cup {None} /\ (~overtaken => strayed \/ signedIn = None \/ profile' \in {None, signedIn})
      BY <1>1, <1>2 DEF ProfileArrives, SignInv, SignTypeOK, OwnTrip, Trip
    <2> QED BY <1>2, <2>1, <2>2, NewTripIs, TripMoves
            DEF SignInv, SignTypeOK, PageLeft, ProfileArrives, OwnTrip, RequestAt
  <1>3. CASE RequestFails(c)
    <2>1. trip' = [trip EXCEPT ![c] = TripOver] /\ trip'[c] = TripOver
      BY <1>1, <1>3 DEF RequestFails, TripEnds
    <2> QED BY <1>3, <2>1, NewTripIs, TripMoves
            DEF SignInv, SignTypeOK, PageLeft, RequestFails, signView, OwnTrip, RequestAt
  <1>4. CASE StartRefresh(c)
    <2> DEFINE r == [trip[c] EXCEPT !.at = "refreshing", !.as = kept]
    <2>1. r \in Trip /\ r.at = "refreshing" /\ r.as = kept
      BY <1>1 DEF Trip, SignInv, SignTypeOK
    <2>2. trip' = [trip EXCEPT ![c] = r] /\ trip'[c] = r
      BY <1>1, <1>4 DEF StartRefresh
    <2>3. kept # None
      BY <1>4 DEF StartRefresh
    <2> HIDE DEF r
    <2> QED BY <1>4, <2>1, <2>2, <2>3, TripMoves
            DEF SignInv, SignTypeOK, PageLeft, StartRefresh, signView, OwnTrip, RequestAt
  <1>5. CASE RefreshArrives(c)
    <2> DEFINE r == [trip[c] EXCEPT !.at = "again"]
    <2>1. r \in Trip /\ r.at = "again" /\ r.as = trip[c].as /\ trip[c].as \in Users \cup {None}
      BY <1>1 DEF Trip
    <2>2. trip' = [trip EXCEPT ![c] = r] /\ trip'[c] = r /\ kept' = trip[c].as
      BY <1>1, <1>5 DEF RefreshArrives
    <2>3. ~overtaken => trip[c].as = signedIn
      BY <1>5 DEF RefreshArrives, RequestAt, SignInv, OwnTrip
    <2> HIDE DEF r
    <2> QED BY <1>5, <2>1, <2>2, <2>3, TripMoves
            DEF SignInv, SignTypeOK, PageLeft, RefreshArrives, signView, OwnTrip, RequestAt
  <1>6. CASE RefreshFails(c)
    <2>1. trip' = [trip EXCEPT ![c] = TripOver] /\ trip'[c] = TripOver
      BY <1>1, <1>6 DEF RefreshFails, TripEnds
    <2> QED BY <1>6, <2>1, NewTripIs, TripMoves
            DEF SignInv, SignTypeOK, PageLeft, RefreshFails, signView, OwnTrip, RequestAt
  <1> QED BY <1>2, <1>3, <1>4, <1>5, <1>6

LEMMA SignActs ==
  ASSUME SignInv, SignAct
  PROVE  SignInv'
  <1>1. CASE \/ FollowHeader \/ FollowVisitor \/ FollowMenu
             \/ LoginFormLinks \/ RegisterFormLinks \/ QuickActions \/ GoBack \/ Redirect
             \/ Arrive
    <2>1. \E p \in SignPages : Goes(p)
      BY <1>1 DEF FollowHeader, FollowVisitor, FollowMenu, LoginFormLinks, RegisterFormLinks,
           QuickActions, GoBack, Redirect, Arrive, SignPages, SignInv, SignTypeOK
    <2>2. menu' \in BOOLEAN
      BY <1>1 DEF FollowHeader, FollowVisitor, FollowMenu, LoginFormLinks, RegisterFormLinks,
           QuickActions, GoBack, Redirect, Arrive, SignInv, SignTypeOK
    <2> QED BY <2>1, <2>2, SignGoes
  <1>2. CASE ToggleMenu
    BY <1>2 DEF ToggleMenu, SignInv, SignTypeOK, PageLeft, OwnTrip, RequestAt
  <1>3. CASE Logout
    <2>1. /\ trip' = trip /\ trip \in [Calls -> Trip]
          /\ kept' = None /\ signedIn' = kept' /\ menu' = FALSE /\ Overtakes
          /\ UNCHANGED <<visiting, profile, due, sending, strayed>>
          /\ sending \in BOOLEAN /\ strayed \in BOOLEAN
          /\ heading' \in SignPages
      BY <1>3 DEF Logout, SignedOutTo, SignPages, SignInv, SignTypeOK
    <2> QED BY <2>1, SignChanges
  <1> QED BY <1>1, <1>2, <1>3, SignOpens DEF SignAct

LEMMA SignInvHolds == SignSpec => []SignInv
  <1>1. SignInit => SignInv
    BY NewTripIs DEF SignInit, SignInv, SignTypeOK, PageLeft, SignPages, OwnTrip, RequestAt
  <1>2. SignInv /\ [SignNext]_signVars => SignInv'
    <2> SUFFICES ASSUME SignInv, [SignNext]_signVars PROVE SignInv'
      OBVIOUS
    <2>1. CASE UNCHANGED signVars
      BY <2>1 DEF signVars, signView, SignInv, SignTypeOK, PageLeft, OwnTrip, RequestAt
    <2>2. CASE SignNext
      BY <2>2, SignBegins, SignAnswered, RequestAnswered, SignActs DEF SignNext, SignStep
    <2> QED BY <2>1, <2>2
  <1> QED BY <1>1, <1>2, PTL DEF SignSpec

(* The tokens that are sent are those of the user in the header, unless    *)
(* the user changed during a refresh; and so is the profile that is shown, *)
(* unless a sign-in came while its page was open.                          *)
THEOREM TokensFollowUser == SignSpec => []TokensOfShownUser
  BY SignInvHolds, SignInvImplies, PTL

(***************************************************************************)
(* The desk                                                                *)
(***************************************************************************)

(* A step is one of one part, and the others' variables stay.              *)
ServiceSteps ==
  /\ [DisputeNext]_disputeVars /\ [KycNext]_kycVars
  /\ [FormNext]_formVars /\ [ChatNext]_chatVars

PageSteps ==
  /\ [CvNext]_cvVars /\ [JobNext]_jobVars /\ [PostNext]_postVars
  /\ [WorkNext]_workVars /\ [CenterNext]_centerVars /\ [SignNext]_signVars

LEMMA ServiceParts ==
  ASSUME Disputing \/ Identifying \/ Requesting \/ Chatting
  PROVE  ServiceSteps /\ PageSteps
  <1>1. Disputing => DisputeNext
    BY DEF Disputing, DisputeNext
  <1>2. Identifying => KycNext
    BY DEF Identifying, KycNext
  <1>3. Requesting => FormNext
    BY DEF Requesting, FormNext
  <1>4. Chatting => ChatNext
    BY DEF Chatting, ChatNext
  <1> QED BY <1>1, <1>2, <1>3, <1>4
          DEF Disputing, Identifying, Requesting, Chatting, ServiceSteps, PageSteps, pageVars

LEMMA PageParts ==
  ASSUME Drafting \/ Applying \/ Posting \/ Selecting \/ Administering \/ Browsing
  PROVE  ServiceSteps /\ PageSteps
  <1>1. Drafting => CvNext
    BY DEF Drafting, CvNext
  <1>2. Applying => JobNext
    BY DEF Applying, JobNext
  <1>3. Posting => PostNext
    BY DEF Posting, PostNext
  <1>4. Selecting => WorkNext
    BY DEF Selecting, WorkNext
  <1>5. Administering => CenterNext
    BY DEF Administering, CenterNext, CenterFree, Free
  <1>6. Browsing => SignNext
    BY DEF Browsing, SignNext
  <1> QED BY <1>1, <1>2, <1>3, <1>4, <1>5, <1>6
          DEF Drafting, Applying, Posting, Selecting, Administering, Browsing,
              ServiceSteps, PageSteps, serviceVars

LEMMA NextOfParts == [Next]_vars => ServiceSteps /\ PageSteps
  <1>1. UNCHANGED vars => ServiceSteps /\ PageSteps
    BY DEF vars, serviceVars, pageVars, ServiceSteps, PageSteps
  <1> QED BY <1>1, ServiceParts, PageParts DEF Next

(* A behaviour of the desk is one of each of its parts.                    *)
THEOREM ImplementsParts ==
  Spec => /\ DisputeSpec /\ KycSpec /\ FormSpec /\ ChatSpec
          /\ CvSpec /\ JobSpec /\ PostSpec /\ WorkSpec /\ CenterSpec /\ SignSpec
  <1>1. Init => /\ DisputeInit /\ KycInit /\ FormInit /\ ChatInit
                /\ CvInit /\ JobInit /\ PostInit /\ WorkInit /\ CenterInit /\ SignInit
    BY DEF Init
  <1> QED BY <1>1, NextOfParts, PTL
          DEF Spec, ServiceSteps, PageSteps, DisputeSpec, KycSpec, FormSpec, ChatSpec,
              CvSpec, JobSpec, PostSpec, WorkSpec, CenterSpec, SignSpec

(* Its properties hold of all of them together.                            *)
THEOREM DeskSafe == Spec => [](RefundedOnce /\ AskedOnce /\ SeenOnce) /\ ReviewStands
  BY ImplementsParts, DisputesRefundOnce, RequestsAskedOnce, MessagesSeenOnce, ReviewsStand, PTL

(* What the pages show is what is stored, under the conditions that each   *)
(* of these properties names.                                              *)
THEOREM PagesSafe ==
  Spec => [](SavedIsStored /\ MarkIsStored /\ PostedOnce /\ ListMatchesHeading /\ ReadShownIsRead
          /\ TokensOfShownUser)
  BY ImplementsParts, SavedDraftsAreStored, MarksAreStored, JobsPostedOnce, HeadingsMatch,
     ShownReadIsRead, TokensFollowUser, PTL

(* Every variable of the desk has its type, for any number of calls: no    *)
(* message is sent to a socket more than twice, the bell refers to notices *)
(* that there are, and the pages hold no answer they cannot show.          *)
THEOREM DeskTypeCorrect == Spec => []TypeOK
  <1>1. /\ FormInv => FormTypeOK
        /\ KycInv => KycTypeOK
        /\ CvInv => CvTypeOK
        /\ PostInv => PostTypeOK
        /\ WorkInv => WorkTypeOK
        /\ SignInv => SignTypeOK
    BY DEF FormInv, KycInv, CvInv, PostInv, WorkInv, SignInv
  <1> QED BY <1>1, ImplementsParts, DisputeTypesHold, KycInvHolds, FormInvHolds, ChatTypesHold,
             CvInvHolds, JobTypesHold, PostInvHolds, WorkInvHolds, CenterTypesHold, SignInvHolds,
             PTL DEF TypeOK
=============================================================================
