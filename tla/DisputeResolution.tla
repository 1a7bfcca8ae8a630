-------------------------- MODULE DisputeResolution --------------------------
(***************************************************************************)
(* The dispute of one contract: DisputeManagerService, the second endpoint *)
(* of AdminController that resolves disputes, and the page on which an     *)
(* admin does so (app/admin/disputes, usePolling).                         *)
(*                                                                         *)
(* createDispute and resolveDispute are sequences of statements on the     *)
(* database with no transaction around them, and calls interleave between  *)
(* them.  A call that dies takes no further step.  The employer has had a  *)
(* wallet from the beginning, or gets none.                                *)
(***************************************************************************)
EXTENDS ApiCalls

VARIABLES
  contract,      (* Contract.status                                          *)
  dispute,       (* the Dispute row: none, open, or with a resolution        *)
  hasWallet,     (* the employer has a wallet                                *)
  credited,      (* calls that have credited a refund to it                  *)
  disp,          (* local variables of the calls                             *)
  shown,         (* the dispute as the page shows it                         *)
  answers,       (* answers to the page's polls that are under way           *)
  modal,         (* the page shows the form that resolves the dispute        *)
  posted,        (* the call the page waits for ("submitting"), or None      *)
  overlapped,    (* a call found the dispute open while another was about to *)
                 (* resolve it                                               *)
  elsewhere,     (* a client other than the page has asked for a resolution  *)
  unanswered     (* a call of the page got no answer                         *)

page == <<shown, answers, modal, posted>>
record == <<overlapped, elsewhere, unanswered>>
disputeVars == <<contract, dispute, hasWallet, credited, disp, page, record>>

Disputes == {"none", "open", "resolved"}
Disp == [at : {"start", "store", "asked", "write", "refund", "close", "done", "refused"},
         refund : BOOLEAN]

DisputeTypeOK ==
  /\ contract \in {"ACTIVE", "DISPUTED", "CANCELLED", "COMPLETED"}
  /\ dispute \in Disputes
  /\ hasWallet \in BOOLEAN
  /\ credited \subseteq Calls
  /\ disp \in [Calls -> Disp]
  /\ shown \in Disputes /\ answers \subseteq Disputes
  /\ modal \in BOOLEAN /\ posted \in Calls \cup {None}
  /\ overlapped \in BOOLEAN /\ elsewhere \in BOOLEAN /\ unanswered \in BOOLEAN

DisputeInit ==
  /\ contract = "ACTIVE" /\ dispute = "none"
  /\ hasWallet \in BOOLEAN /\ credited = {}
  /\ disp = [c \in Calls |-> [at |-> "start", refund |-> FALSE]]
  /\ shown = "none" /\ answers = {} /\ modal = FALSE /\ posted = None
  /\ overlapped = FALSE /\ elsewhere = FALSE /\ unanswered = FALSE

Moves(c, place) == disp' = [disp EXCEPT ![c].at = place]

-----------------------------------------------------------------------------
(* createDispute, by a party of the contract.                              *)
CreateDispute(c) ==
  /\ disp[c].at = "start"
  /\ contract' = "DISPUTED"
  /\ Moves(c, "store")
  /\ UNCHANGED <<dispute, hasWallet, credited, page, record>>

(* A contract has at most one dispute: a second one is not stored.         *)
StoreDispute(c) ==
  /\ disp[c].at = "store"
  /\ dispute' = IF dispute = "none" THEN "open" ELSE dispute
  /\ Moves(c, "done")
  /\ UNCHANGED <<contract, hasWallet, credited, page, record>>

-----------------------------------------------------------------------------
(* resolveDispute *)

Asks(c, refund) ==
  /\ disp[c].at = "start"
  /\ disp' = [disp EXCEPT ![c] = [at |-> "asked", refund |-> refund]]

(* A mutant: the resolution that is there already is not looked at.        *)
ReadAnyDispute(c) ==
  /\ disp[c].at = "asked"
  /\ Moves(c, IF dispute = "none" THEN "refused" ELSE "write")
  /\ overlapped' = (overlapped \/ \E d \in Calls : disp[d].at = "write")
  /\ UNCHANGED <<contract, dispute, hasWallet, credited, page, elsewhere, unanswered>>

ReadDispute(c) ==
  /\ disp[c].at = "asked"
  /\ Moves(c, IF dispute = "open" THEN "write" ELSE "refused")
  /\ overlapped' = (overlapped \/ \E d \in Calls : disp[d].at = "write")
  /\ UNCHANGED <<contract, dispute, hasWallet, credited, page, elsewhere, unanswered>>

WriteResolution(c) ==
  /\ disp[c].at = "write"
  /\ dispute' = "resolved"
  /\ Moves(c, IF disp[c].refund /\ hasWallet THEN "refund" ELSE "close")
  /\ UNCHANGED <<contract, hasWallet, credited, page, record>>

(* The wallet and its ledger row, in one transaction.                      *)
CreditRefund(c) ==
  /\ disp[c].at = "refund"
  /\ credited' = credited \cup {c}
  /\ Moves(c, "close")
  /\ UNCHANGED <<contract, dispute, hasWallet, page, record>>

CloseContract(c) ==
  /\ disp[c].at = "close"
  /\ contract' = IF disp[c].refund THEN "CANCELLED" ELSE "COMPLETED"
  /\ Moves(c, "done")
  /\ UNCHANGED <<dispute, hasWallet, credited, page, record>>

(* PATCH admin/disputes/:id/resolve writes the row and nothing else.       *)
AdminResolve(c) ==
  /\ disp[c].at = "start"
  /\ dispute # "none"
  /\ dispute' = "resolved"
  /\ Moves(c, "done")
  /\ UNCHANGED <<contract, hasWallet, credited, page, record>>

ResolveElsewhere(c) ==
  /\ \E refund \in BOOLEAN : Asks(c, refund)
  /\ elsewhere' = TRUE
  /\ UNCHANGED <<contract, dispute, hasWallet, credited, page, overlapped, unanswered>>

-----------------------------------------------------------------------------
(* The page *)

server == <<contract, dispute, hasWallet, credited>>

(* getAllDisputes is asked again and again, and after a resolution, without *)
(* waiting for the answer before; the answers come in any order.           *)
ReadForPage ==
  /\ answers' = answers \cup {dispute}
  /\ UNCHANGED <<server, disp, shown, modal, posted, record>>

SetData(v) ==
  /\ shown' = v
  /\ answers' = answers \ {v}
  /\ UNCHANGED <<server, disp, modal, posted, record>>

OpenModal ==
  /\ shown = "open"
  /\ ~modal
  /\ modal' = TRUE
  /\ UNCHANGED <<server, disp, shown, answers, posted, record>>

(* The admin, or the timer that runs from a success.                       *)
CloseModal ==
  /\ modal
  /\ modal' = FALSE
  /\ UNCHANGED <<server, disp, shown, answers, posted, record>>

(* A mutant: the button stays enabled while the page waits.                *)
HandleResolveAgain(c) ==
  /\ modal
  /\ \E refund \in BOOLEAN : Asks(c, refund)
  /\ posted' = c
  /\ UNCHANGED <<server, shown, answers, modal, record>>

HandleResolve(c) ==
  /\ modal /\ posted = None
  /\ \E refund \in BOOLEAN : Asks(c, refund)
  /\ posted' = c
  /\ UNCHANGED <<server, shown, answers, modal, record>>

(* The page gets an answer; of a call that has died or whose connection is *)
(* lost it gets an error, and the admin may try again.                     *)
Answered(c) ==
  /\ posted = c
  /\ posted' = None
  /\ unanswered' = (unanswered \/ disp[c].at \notin {"done", "refused"})
  /\ UNCHANGED <<server, disp, shown, answers, modal, overlapped, elsewhere>>

DisputeStep(c) ==
  \/ StoreDispute(c) \/ ReadDispute(c) \/ WriteResolution(c) \/ CreditRefund(c)
  \/ CloseContract(c) \/ Answered(c)

DisputeCall(c) ==
  CreateDispute(c) \/ AdminResolve(c) \/ ResolveElsewhere(c) \/ HandleResolve(c)

PageStep ==
  ReadForPage \/ OpenModal \/ CloseModal \/ \E v \in answers : SetData(v)

DisputeNext == (\E c \in Calls : DisputeCall(c) \/ DisputeStep(c)) \/ PageStep

DisputeSpec == DisputeInit /\ [][DisputeNext]_disputeVars

-----------------------------------------------------------------------------
(* Properties *)

(* The refund and the outcome of the contract follow the resolution: a     *)
(* contract is settled only under a resolution and, if it is cancelled,    *)
(* after the employer's wallet was credited.  The wallet is credited once, *)
(* whatever else is asked for, unless two calls found the dispute open     *)
(* together; and calls of the page alone do that only if one of them was   *)
(* given up and is still running.                                          *)
RefundedOnce ==
  /\ contract \in {"CANCELLED", "COMPLETED"} => dispute = "resolved"
  /\ contract = "CANCELLED" /\ hasWallet => credited # {}
  /\ overlapped \/ \A c, d \in credited : c = d
  /\ overlapped => elsewhere \/ unanswered
=============================================================================
