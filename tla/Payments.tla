------------------------------- MODULE Payments -------------------------------
(***************************************************************************)
(* One payment by card (StripeService) or by PayPal (PaypalService): what  *)
(* the provider does with it, the events it sends, and the Payment row.    *)
(*                                                                         *)
(* A handler asks the provider first and writes the row afterwards; the    *)
(* webhook writes it for every event.  The writes in flight are the set    *)
(* writes, and are made in any order.  A write that fails is logged and    *)
(* forgotten: the request, or the event, is answered as if it had been     *)
(* made.  An event may be delivered late, out of order and several times;  *)
(* without a webhook id PayPal's events are not verified, and one may tell *)
(* of what PayPal never did.                                               *)
(*                                                                         *)
(* The changes at the provider are numbered; a write and an event carry    *)
(* the number of the change they tell of.                                  *)
(***************************************************************************)
EXTENDS Integers, FiniteSets

CONSTANTS
  Verified,      (* PAYPAL_WEBHOOK_ID is set: PayPal's events are verified   *)
  Amount,        (* the amount of the payment, in units that can be refunded *)
  MaxChanges,    (* bound on the changes at the provider                     *)
  MaxWrites      (* bound on the writes in flight                            *)

ASSUME PaymentsAssumption ==
  /\ Verified \in BOOLEAN
  /\ Amount \in Nat \ {0} /\ MaxChanges \in Nat /\ MaxWrites \in Nat

VARIABLES
  kind,          (* what was created: an intent, an order to be captured,    *)
                 (* one with the intent AUTHORIZE, or a subscription         *)
  stage,         (* its status at the provider                               *)
  past,          (* what the provider has done with it so far                *)
  refunded,      (* the amount paid back                                     *)
  asked,         (* the amount of the refunds that are accepted and pending  *)
  changes,       (* changes at the provider so far                           *)
  events,        (* events sent                                              *)
  delivered,     (* events that have been answered 200                       *)
  claimed,       (* what unverified events have told that PayPal did not     *)
  writes,        (* writes of handlers in flight                             *)
  row,           (* Payment.status, "none" without a row                     *)
  rowOf,         (* the change that the row was last written for             *)
  inOrder        (* no write was lost, missed the row or came out of order   *)

provider == <<kind, stage, past, refunded, asked, changes>>
db == <<row, rowOf, inOrder>>
inbox == <<delivered, claimed>>
paymentVars == <<provider, events, inbox, writes, db>>

Statuses == {"PENDING", "PROCESSING", "SUCCEEDED", "FAILED", "REFUNDED",
             "PARTIALLY_REFUNDED", "CANCELLED"}
Kinds == {"card", "order", "reservation", "plan"}
Deeds == {"processing", "paid", "reserved", "activated", "refused", "cancelled",
          "voided", "asked", "refunded"}
Stages == {"none", "open", "action", "processing", "paid", "reserved", "active",
           "refused", "cancelled", "voided"}
Event == [type : Deeds, of : Nat]
Write == [status : Statuses, of : Nat, creates : BOOLEAN]

PaymentsTypeOK ==
  /\ kind \in Kinds \cup {"none"}
  /\ stage \in Stages
  /\ past \subseteq Deeds
  /\ refunded \in 0..Amount /\ asked \in 0..Amount - refunded
  /\ changes \in Nat
  /\ events \subseteq Event /\ delivered \subseteq events /\ claimed \subseteq Deeds
  /\ writes \subseteq Write
  /\ row \in Statuses \cup {"none"}
  /\ rowOf \in Nat
  /\ inOrder \in BOOLEAN

PaymentsInit ==
  /\ kind = "none" /\ stage = "none" /\ past = {} /\ refunded = 0 /\ asked = 0
  /\ changes = 0 /\ events = {} /\ delivered = {} /\ claimed = {} /\ writes = {}
  /\ row = "none" /\ rowOf = 0 /\ inOrder = TRUE

-----------------------------------------------------------------------------
(* The provider *)

(* Where a payment can go.  A card that is declined goes back to "open":   *)
(* requires_payment_method.  An order is executed only by captureOrder,    *)
(* which of a reservation takes nothing: the money is captured later, on   *)
(* PayPal's side, or the reservation is voided.  A subscription that is    *)
(* activated is charged some time afterwards.                              *)
Moves ==
  [card  |-> {<<"open", "action">>, <<"open", "processing">>, <<"open", "paid">>,
              <<"action", "processing">>, <<"action", "paid">>, <<"processing", "paid">>,
              <<"open", "open">>, <<"action", "open">>, <<"processing", "open">>,
              <<"open", "cancelled">>, <<"action", "cancelled">>},
   order |-> {<<"paid", "refused">>},
   reservation |-> {<<"reserved", "paid">>, <<"reserved", "voided">>, <<"paid", "refused">>},
   plan  |-> {<<"open", "active">>, <<"open", "cancelled">>, <<"active", "paid">>,
              <<"active", "cancelled">>, <<"paid", "cancelled">>},
   none  |-> {}]

Deed(to) ==
  CASE to = "open" -> "refused" [] to = "active" -> "activated" [] OTHER -> to

(* An event is sent of every deed, of some that the webhook passes over.   *)
Sends(to) == {[type |-> d, of |-> changes + 1] : d \in {Deed(to)} \cap Deeds}

MovesTo(to) ==
  /\ changes < MaxChanges
  /\ changes' = changes + 1
  /\ stage' = to
  /\ past' = past \cup ({Deed(to)} \cap Deeds)
  /\ events' = events \cup Sends(to)
  /\ UNCHANGED <<kind, refunded, asked>>

(* A refund that is made at once, and one that is accepted: its status is  *)
(* pending, and it is made or fails later.                                 *)
PaysBack(n) ==
  /\ changes < MaxChanges
  /\ stage = "paid"
  /\ n \in 1 .. Amount - refunded - asked
  /\ changes' = changes + 1
  /\ refunded' = refunded + n
  /\ past' = past \cup {"refunded"}
  /\ events' = events \cup {[type |-> "refunded", of |-> changes + 1]}
  /\ UNCHANGED <<kind, stage, asked>>

AcceptsRefund(n) ==
  /\ changes < MaxChanges
  /\ stage = "paid"
  /\ n \in 1 .. Amount - refunded - asked
  /\ changes' = changes + 1
  /\ asked' = asked + n
  /\ past' = past \cup {"asked"}
  /\ UNCHANGED <<kind, stage, refunded, events>>

SettlesRefund ==
  /\ changes < MaxChanges
  /\ asked > 0
  /\ changes' = changes + 1
  /\ asked' = 0
  /\ \/ /\ refunded' = refunded + asked
        /\ past' = past \cup {"refunded"}
        /\ events' = events \cup {[type |-> "refunded", of |-> changes + 1]}
     \/ UNCHANGED <<refunded, past, events>>
  /\ UNCHANGED <<kind, stage>>

(* The customer, the bank or the dashboard of the provider.                *)
ProviderMoves ==
  /\ \/ \E to \in Stages : <<stage, to>> \in Moves[kind] /\ MovesTo(to)
     \/ \E n \in 1..Amount : PaysBack(n)
     \/ SettlesRefund
  /\ UNCHANGED <<inbox, writes, db>>

-----------------------------------------------------------------------------
(* The handlers *)

Sets(status, creates) ==
  /\ Cardinality(writes) < MaxWrites
  /\ writes' = writes \cup {[status |-> status, of |-> changes', creates |-> creates]}

Create(what) ==
  /\ kind = "none"
  /\ kind' = what /\ stage' = "open" /\ changes' = changes + 1
  /\ UNCHANGED <<past, refunded, asked, events, inbox, db>>

CreatePaymentIntent == Create("card") /\ Sets("PENDING", TRUE)
CreateSubscription == Create("plan") /\ Sets("PENDING", TRUE)

(* With the intent CAPTURE or AUTHORIZE; one with a plan is a subscription. *)
CreateOrder ==
  \/ (Create("order") \/ Create("reservation")) /\ Sets("PENDING", TRUE)
  \/ CreateSubscription

(* A mutant: the status of Stripe is stored as it is.                      *)
StripeStatusAsIs(status) == status

MapStripeStatusToDB(status) ==
  CASE status \in {"open", "action"} -> "PENDING"
    [] status = "processing" -> "PROCESSING"
    [] status = "cancelled" -> "CANCELLED"
    [] status = "paid" -> "SUCCEEDED"

(* The id is answered when the row was written, or its write was given up. *)
IdAnswered == \A w \in writes : ~w.creates

Confirmable == kind = "card" /\ stage \in {"open", "action"} /\ IdAnswered

ConfirmPayment ==
  /\ Confirmable
  /\ \E to \in {"action", "processing", "paid"} :
       MovesTo(to) /\ Sets(MapStripeStatusToDB(to), FALSE)
  /\ UNCHANGED <<inbox, db>>

(* A refund of an amount, or without one of all that is left.  Any amount  *)
(* that is named counts as a part.  Whether the refund was made or is      *)
(* pending is not looked at.                                               *)
Refund ==
  /\ kind = "card" /\ IdAnswered
  /\ \E n \in 1..Amount :
       /\ PaysBack(n) \/ AcceptsRefund(n)
       /\ \/ Sets("PARTIALLY_REFUNDED", FALSE)
          \/ n = Amount - refunded - asked /\ Sets("REFUNDED", FALSE)
  /\ UNCHANGED <<inbox, db>>

(* PayPal executes an order: the money is taken, of a reservation only     *)
(* reserved, or the execution fails.                                       *)
Executes(to) ==
  /\ kind \in {"order", "reservation"} /\ stage = "open" /\ IdAnswered
  /\ \/ to = "paid" /\ kind = "order"
     \/ to = "reserved" /\ kind = "reservation"
     \/ to = "refused"
  /\ MovesTo(to)

(* A mutant: the state of the executed payment is not looked at.           *)
CaptureUnseen ==
  /\ \E to \in {"paid", "reserved", "refused"} : Executes(to) /\ Sets("SUCCEEDED", FALSE)
  /\ UNCHANGED <<inbox, db>>

(* The state is "approved" of the taken and of the reserved money alike.   *)
CaptureOrder ==
  /\ \E to \in {"paid", "reserved", "refused"} :
       Executes(to) /\ Sets(IF to = "refused" THEN "FAILED" ELSE "SUCCEEDED", FALSE)
  /\ UNCHANGED <<inbox, db>>

(* handleStripeError and the rejections of PaypalService: the card is      *)
(* declined (422), the request or a signature is not valid (400, 422), or  *)
(* the provider fails, perhaps after it has made the change (500).         *)
(* Nothing is written.                                                     *)
Fails(status) ==
  /\ \/ /\ status = 422 /\ Confirmable
        /\ MovesTo("open")
     \/ /\ status \in {400, 422}
        /\ UNCHANGED <<provider, events>>
     \/ /\ status = 500
        /\ \/ Confirmable /\ \E to \in {"action", "processing", "paid"} : MovesTo(to)
           \/ \E to \in {"paid", "reserved", "refused"} : Executes(to)
           \/ kind = "card" /\ IdAnswered /\ \E n \in 1..Amount : PaysBack(n) \/ AcceptsRefund(n)
           \/ UNCHANGED <<provider, events>>
  /\ UNCHANGED <<inbox, writes, db>>

-----------------------------------------------------------------------------
(* The webhook *)

(* A mutant: refunds made at the provider are not handled.                 *)
StripeEventUnrefunded(type) ==
  CASE type = "processing" -> {"PROCESSING"}
    [] type = "paid" -> {"SUCCEEDED"}
    [] type = "refused" -> {"FAILED"}
    [] OTHER -> {}

(* processWebhookEvent: what an event sets, of the types it handles.       *)
StripeEvent(type) ==
  CASE type = "processing" -> {"PROCESSING"}
    [] type = "paid" -> {"SUCCEEDED"}
    [] type = "refused" -> {"FAILED"}
    [] type = "refunded" -> {"REFUNDED"}
    [] OTHER -> {}

PaypalEvent(type) ==
  CASE type \in {"paid", "activated"} -> {"SUCCEEDED"}
    [] type = "refused" -> {"FAILED"}
    [] type = "refunded" -> {"REFUNDED"}
    [] type = "cancelled" -> {"CANCELLED"}
    [] OTHER -> {}

(* An event that is verified is answered 200, whatever becomes of it.      *)
Receives(e, statuses) ==
  /\ Cardinality(writes) < MaxWrites
  /\ delivered' = delivered \cup {e}
  /\ writes' = writes \cup {[status |-> s, of |-> e.of, creates |-> FALSE] : s \in statuses}
  /\ UNCHANGED <<provider, events, claimed, row, rowOf>>

HandleStripeWebhook(e) ==
  /\ kind = "card"
  /\ Receives(e, StripeEvent(e.type))
  /\ UNCHANGED inOrder

(* The resource of an event need not be the payment whose id the row has   *)
(* (it is the sale): then no row matches.                                  *)
HandlePaypalWebhook(e) ==
  /\ kind # "card"
  /\ \/ Receives(e, PaypalEvent(e.type)) /\ UNCHANGED inOrder
     \/ Receives(e, {}) /\ inOrder' = FALSE

(* Without a webhook id the signature is not looked at: an event that      *)
(* PayPal never sent sets what it tells.  It is of no change.              *)
HandleUnverified(type) ==
  /\ ~Verified /\ kind \notin {"card", "none"}
  /\ Cardinality(writes) < MaxWrites
  /\ \E s \in PaypalEvent(type) :
       writes' = writes \cup {[status |-> s, of |-> 0, creates |-> FALSE]}
  /\ claimed' = claimed \cup {type}
  /\ inOrder' = FALSE
  /\ UNCHANGED <<provider, events, delivered, row, rowOf>>

-----------------------------------------------------------------------------
(* The database *)

(* An upsert, or an updateMany, which passes over a row that is not there. *)
Persist(w) ==
  /\ writes' = writes \ {w}
  /\ \/ /\ row # "none" \/ w.creates
        /\ row' = w.status /\ rowOf' = w.of
        /\ inOrder' = (inOrder /\ w.of >= rowOf)
     \/ /\ row = "none" /\ ~w.creates
        /\ inOrder' = FALSE
        /\ UNCHANGED <<row, rowOf>>
  /\ UNCHANGED <<provider, events, inbox>>

(* The write throws, which is logged and swallowed, or the process dies.   *)
LoseWrite(w) ==
  /\ writes' = writes \ {w}
  /\ inOrder' = FALSE
  /\ UNCHANGED <<provider, events, inbox, row, rowOf>>

Serves ==
  \/ CreatePaymentIntent \/ CreateOrder
  \/ ConfirmPayment \/ Refund \/ CaptureOrder
  \/ \E e \in events : HandleStripeWebhook(e) \/ HandlePaypalWebhook(e)
  \/ \E type \in Deeds : HandleUnverified(type)
  \/ \E w \in writes : Persist(w) \/ LoseWrite(w)

PaymentsNext == ProviderMoves \/ Serves \/ \E status \in {400, 422, 500} : Fails(status)

PaymentsSpec == PaymentsInit /\ [][PaymentsNext]_paymentVars

-----------------------------------------------------------------------------
(* Properties *)

(* Whatever is lost, repeated or out of order, the row only ever shows     *)
(* what the provider has done or an unverified event has told: SUCCEEDED   *)
(* that the customer was charged, or that the money was reserved or the    *)
(* subscription activated, FAILED a refusal, a refunded status that a      *)
(* refund was made or accepted.                                            *)
RowWasTrue ==
  LET told == past \cup claimed IN
  /\ row = "PROCESSING" => "processing" \in past
  /\ row = "SUCCEEDED" => "paid" \in told \/ "reserved" \in past \/ "activated" \in told
  /\ row = "FAILED" => "refused" \in told
  /\ row \in {"REFUNDED", "PARTIALLY_REFUNDED"} =>
       refunded > 0 \/ "asked" \in past \/ "refunded" \in claimed
  /\ row = "CANCELLED" => "cancelled" \in told

(* The events that say how the payment stands, and are to set the row.     *)
Telling ==
  {e \in events : \/ e.type \in {"processing", "paid", "activated", "refused", "refunded"}
                  \/ e.type = "cancelled" /\ kind = "plan"}

(* There is no retry and no comparison of an event with what the row has.  *)
(* When nothing is in flight, every event has arrived and no write was     *)
(* lost, early or out of order, the row is that of the newest event, or of *)
(* a later answer.  And a row no older than any event shows how the        *)
(* payment stands, whatever was lost or out of order before; of a pending  *)
(* or failed refund it may show the refund.                                *)
RowFollowsProvider ==
  /\ (inOrder /\ writes = {} /\ delivered = events) => \A e \in Telling : e.of <= rowOf
  /\ (row # "none" /\ \A e \in events : e.of <= rowOf) =>
       CASE stage = "paid" /\ refunded = 0 ->
              \/ row = "SUCCEEDED"
              \/ "asked" \in past /\ row \in {"REFUNDED", "PARTIALLY_REFUNDED"}
         [] stage = "paid" /\ refunded > 0 -> row \in {"REFUNDED", "PARTIALLY_REFUNDED"}
         [] stage = "processing" -> row = "PROCESSING"
         [] stage \in {"reserved", "active"} -> row = "SUCCEEDED"
         [] stage = "refused" -> row = "FAILED"
         [] stage = "cancelled" /\ kind = "plan" -> row = "CANCELLED"
         [] OTHER -> TRUE
=============================================================================
