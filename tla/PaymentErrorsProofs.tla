------------------------- MODULE PaymentErrorsProofs -------------------------
(* Theorems about Payments and PaymentErrors, for any amount, window,      *)
(* threshold and cap, and any number of changes, writes and errors.        *)
EXTENDS PaymentErrors, FiniteSetTheorems, TLAPS

(***************************************************************************)
(* Type correctness                                                        *)
(***************************************************************************)

(* What a change at the provider does, whichever it is.                    *)
Changes ==
  /\ changes' = changes + 1
  /\ stage' \in Stages
  /\ past \subseteq past' /\ past' \subseteq Deeds
  /\ refunded' \in 0..Amount /\ refunded' >= refunded
  /\ asked' \in 0..Amount - refunded'
  /\ "refunded" \in past' \ past => refunded' > 0
  /\ \E sent \in SUBSET Event : /\ events' = events \cup sent
                                /\ \A e \in sent : e.type \in past'
  /\ kind' = kind
  /\ claimed' = claimed

LEMMA MovesToChanges ==
  ASSUME PaymentsTypeOK, NEW to \in Stages \ {"none", "action"}, MovesTo(to),
         UNCHANGED inbox
  PROVE  Changes /\ Deed(to) \in past'
  <1>1. Deed(to) \in Deeds \ {"refunded"}
    BY DEF Deed, Deeds, Stages
  <1>2. past' = past \cup {Deed(to)}
    BY <1>1 DEF MovesTo
  <1> DEFINE e == [type |-> Deed(to), of |-> changes + 1]
  <1>3. e \in Event /\ e.type = Deed(to) /\ changes + 1 \in Nat
    BY <1>1 DEF Event, PaymentsTypeOK
  <1> HIDE DEF e
  <1>4. Sends(to) \subseteq {e}
    BY DEF Sends, e
  <1>6. claimed' = claimed
    BY DEF inbox
  <1>5. Sends(to) \in SUBSET Event /\ \A s \in Sends(to) : s.type \in past'
    BY <1>2, <1>3, <1>4
  <1> QED BY <1>1, <1>2, <1>5, <1>6 DEF MovesTo, Changes, PaymentsTypeOK

LEMMA ActionChanges ==
  ASSUME PaymentsTypeOK, MovesTo("action"), UNCHANGED inbox
  PROVE  Changes
  <1>1. Deed("action") \notin Deeds
    BY DEF Deed, Deeds
  <1>2. past' = past /\ Sends("action") = {}
    BY <1>1 DEF MovesTo, Sends
  <1>3. {} \in SUBSET Event /\ \A s \in {} : s.type \in past'
    OBVIOUS
  <1>4. events' = events \cup {}
    BY <1>2 DEF MovesTo
  <1> QED BY <1>2, <1>3, <1>4 DEF MovesTo, Changes, PaymentsTypeOK, Stages, inbox

LEMMA StageMoves ==
  ASSUME PaymentsTypeOK, NEW to \in Stages, MovesTo(to), to # "none", UNCHANGED inbox
  PROVE  Changes
  BY MovesToChanges, ActionChanges

(* A refund, or a part of one: n more are made and m more are pending.     *)
LEMMA RefundChanges ==
  ASSUME PaymentsTypeOK, PaymentsAssumption, UNCHANGED inbox,
         \/ \E n \in 1..Amount : PaysBack(n) \/ AcceptsRefund(n)
         \/ SettlesRefund
  PROVE  Changes
  <1> DEFINE e == [type |-> "refunded", of |-> changes + 1]
  <1>1. /\ refunded \in Nat /\ Amount \in Nat /\ asked \in Nat /\ changes + 1 \in Nat
        /\ refunded + asked <= Amount
    BY DEF PaymentsTypeOK, PaymentsAssumption
  <1>2. e \in Event /\ e.type = "refunded" /\ "refunded" \in Deeds /\ "asked" \in Deeds
    BY <1>1 DEF Event, Deeds
  <1>3. claimed' = claimed /\ past \subseteq Deeds /\ stage \in Stages /\ events \subseteq Event
    BY DEF inbox, PaymentsTypeOK
  <1>4. ASSUME NEW n \in 1..Amount, PaysBack(n) PROVE Changes
    <2>1. n \in Nat /\ n > 0 /\ refunded + n + asked <= Amount
      BY <1>1, <1>4 DEF PaysBack
    <2>2. /\ refunded' = refunded + n /\ past' = past \cup {"refunded"} /\ asked' = asked
          /\ events' = events \cup {e} /\ changes' = changes + 1 /\ stage' = stage /\ kind' = kind
      BY <1>4 DEF PaysBack
    <2> HIDE DEF e
    <2>3. refunded' \in 0..Amount /\ refunded' >= refunded /\ refunded' > 0
          /\ asked' \in 0..Amount - refunded'
      BY <1>1, <2>1, <2>2
    <2>4. {e} \in SUBSET Event /\ \A x \in {e} : x.type \in past'
      BY <1>2, <2>2
    <2> QED BY <1>2, <1>3, <2>2, <2>3, <2>4 DEF Changes
  <1>5. ASSUME NEW n \in 1..Amount, AcceptsRefund(n) PROVE Changes
    <2>1. n \in Nat /\ refunded + n + asked <= Amount
      BY <1>1, <1>5 DEF AcceptsRefund
    <2>2. /\ refunded' = refunded /\ past' = past \cup {"asked"} /\ asked' = asked + n
          /\ events' = events \cup {} /\ changes' = changes + 1 /\ stage' = stage /\ kind' = kind
      BY <1>5 DEF AcceptsRefund
    <2>3. refunded' \in 0..Amount /\ refunded' >= refunded /\ asked' \in 0..Amount - refunded'
      BY <1>1, <2>1, <2>2
    <2>4. {} \in SUBSET Event /\ \A x \in {} : x.type \in past'
      OBVIOUS
    <2> QED BY <1>2, <1>3, <2>2, <2>3, <2>4 DEF Changes
  <1>6. CASE SettlesRefund
    <2>1. /\ asked > 0 /\ asked' = 0 /\ changes' = changes + 1 /\ stage' = stage /\ kind' = kind
          /\ \/ refunded' = refunded + asked /\ past' = past \cup {"refunded"}
                /\ events' = events \cup {e}
             \/ refunded' = refunded /\ past' = past /\ events' = events
      BY <1>6 DEF SettlesRefund
    <2> HIDE DEF e
    <2>2. refunded' \in 0..Amount /\ refunded' >= refunded /\ asked' \in 0..Amount - refunded'
      BY <1>1, <2>1
    <2>3. "refunded" \in past' \ past => refunded' > 0
      BY <1>1, <2>1
    <2>4. \E sent \in SUBSET Event : /\ events' = events \cup sent
                                     /\ \A x \in sent : x.type \in past'
      <3>1. {} \in SUBSET Event /\ \A x \in {} : x.type \in past'
        OBVIOUS
      <3>2. CASE events' = events \cup {e} /\ past' = past \cup {"refunded"}
        <4>1. {e} \in SUBSET Event /\ \A x \in {e} : x.type \in past'
          BY <1>2, <3>2
        <4> QED BY <3>2, <4>1
      <3>3. CASE events' = events
        <4>1. events' = events \cup {}
          BY <3>3
        <4> QED BY <3>1, <4>1
      <3> QED BY <2>1, <3>2, <3>3
    <2>5. past \subseteq past' /\ past' \subseteq Deeds /\ stage' \in Stages
      BY <1>2, <1>3, <2>1
    <2> QED BY <1>3, <2>1, <2>2, <2>3, <2>4, <2>5 DEF Changes
  <1> QED BY <1>4, <1>5, <1>6

(***************************************************************************)
(* The row shows what the provider has done                                *)
(***************************************************************************)

Justified(status) ==
  /\ status = "PROCESSING" => "processing" \in past
  /\ status = "SUCCEEDED" =>
       "paid" \in past \cup claimed \/ "reserved" \in past \/ "activated" \in past \cup claimed
  /\ status = "FAILED" => "refused" \in past \cup claimed
  /\ status \in {"REFUNDED", "PARTIALLY_REFUNDED"} =>
       refunded > 0 \/ "asked" \in past \/ "refunded" \in claimed
  /\ status = "CANCELLED" => "cancelled" \in past \cup claimed

(* Also what is in flight was true when it was sent, and what the provider *)
(* has done it has done for ever.                                          *)
RowInv ==
  /\ PaymentsTypeOK
  /\ "refunded" \in past => refunded > 0
  /\ \A e \in events : e.type \in past
  /\ \A w \in writes : Justified(w.status)
  /\ Justified(row)

LEMMA JustifiedStays ==
  ASSUME PaymentsTypeOK, Changes, NEW s, Justified(s)
  PROVE  Justified(s)'
  <1>1. refunded > 0 => refunded' > 0
    BY DEF Changes, PaymentsTypeOK
  <1> QED BY <1>1 DEF Justified, Changes

(* A change at the provider, with or without a write that tells of it.     *)
LEMMA ChangeKeepsRow ==
  ASSUME RowInv, Changes, UNCHANGED <<inbox, db>>,
         \/ writes' = writes
         \/ \E s \in Statuses : Sets(s, FALSE) /\ Justified(s)'
  PROVE  RowInv'
  <1> USE DEF RowInv
  <1>1. PICK sent \in SUBSET Event :
          events' = events \cup sent /\ \A e \in sent : e.type \in past'
    BY DEF Changes
  <1>2. "refunded" \in past' => refunded' > 0
    BY DEF Changes, PaymentsTypeOK
  <1>3. \A w \in writes : Justified(w.status)'
    BY JustifiedStays
  <1>4. Justified(row)'
    <2>1. row' = row
      BY DEF db
    <2> QED BY <2>1, JustifiedStays DEF Justified
  <1>5. writes' \subseteq Write /\ \A w \in writes' : Justified(w.status)'
    <2>1. CASE writes' = writes
      BY <1>3, <2>1 DEF PaymentsTypeOK, Justified
    <2>2. ASSUME NEW s \in Statuses, Sets(s, FALSE), Justified(s)'
          PROVE <1>5!1 /\ <1>5!2
      <3> DEFINE w == [status |-> s, of |-> changes', creates |-> FALSE]
      <3>1. w \in Write /\ w.status = s
        BY DEF Write, Changes, PaymentsTypeOK
      <3>2. writes' = writes \cup {w}
        BY <2>2 DEF Sets
      <3> HIDE DEF w
      <3> QED BY <1>3, <2>2, <3>1, <3>2 DEF PaymentsTypeOK, Justified
    <2> QED BY <2>1, <2>2
  <1>6. PaymentsTypeOK'
    <2>1. delivered' = delivered /\ claimed' = claimed
      BY DEF inbox
    <2> QED BY <1>1, <1>5, <2>1 DEF PaymentsTypeOK, Changes, db
  <1> QED BY <1>1, <1>2, <1>4, <1>5, <1>6 DEF Changes

(* A webhook adds writes of statuses that are justified already.           *)
LEMMA ReceivesKeepsRow ==
  ASSUME RowInv, NEW e \in events, NEW S \in SUBSET Statuses,
         \A s \in S : Justified(s), Receives(e, S), inOrder' \in BOOLEAN
  PROVE  RowInv'
  <1> DEFINE new == {[status |-> s, of |-> e.of, creates |-> FALSE] : s \in S}
  <1>1. new \subseteq Write /\ \A w \in new : Justified(w.status)
    <2>1. e.of \in Nat
      BY DEF RowInv, PaymentsTypeOK, Event
    <2>2. \A s \in S : LET w == [status |-> s, of |-> e.of, creates |-> FALSE]
                       IN  w \in Write /\ w.status = s
      BY <2>1 DEF Write
    <2>3. \A w \in new : \E s \in S : w \in Write /\ w.status = s
      BY <2>2
    <2> QED BY <2>3
  <1>2. writes' = writes \cup new
    BY DEF Receives
  <1> HIDE DEF new
  <1>3. delivered' = delivered \cup {e} /\ UNCHANGED <<provider, events, claimed, row, rowOf>>
    BY DEF Receives
  <1>4. PaymentsTypeOK'
    BY <1>1, <1>2, <1>3 DEF RowInv, PaymentsTypeOK, provider
  <1> QED BY <1>1, <1>2, <1>3, <1>4 DEF RowInv, Justified, provider

LEMMA CreateKeepsRow ==
  ASSUME RowInv, NEW what \in Kinds, Create(what), Sets("PENDING", TRUE)
  PROVE  RowInv'
  <1> DEFINE w == [status |-> "PENDING", of |-> changes', creates |-> TRUE]
  <1>1. w \in Write /\ w.status = "PENDING" /\ changes' \in Nat
    BY DEF Write, Create, RowInv, PaymentsTypeOK, Statuses
  <1>2. writes' = writes \cup {w}
    BY DEF Sets
  <1> HIDE DEF w
  <1>3. /\ past' = past /\ refunded' = refunded /\ events' = events /\ row' = row
        /\ asked' = asked /\ claimed' = claimed
        /\ delivered' = delivered /\ rowOf' = rowOf /\ inOrder' = inOrder
        /\ kind' = what /\ stage' = "open"
    BY DEF Create, db, inbox
  <1>4. PaymentsTypeOK'
    BY <1>1, <1>2, <1>3 DEF RowInv, PaymentsTypeOK, Stages
  <1>5. \A v \in writes' : Justified(v.status)'
    BY <1>1, <1>2, <1>3 DEF RowInv, Justified
  <1> QED BY <1>3, <1>4, <1>5 DEF RowInv, Justified

LEMMA PaymentsStep == PaymentsAssumption /\ RowInv /\ [PaymentsNext]_paymentVars => RowInv'
  <1> SUFFICES ASSUME PaymentsAssumption, RowInv, [PaymentsNext]_paymentVars PROVE RowInv'
    OBVIOUS
  <1>0. PaymentsTypeOK /\ RowInv
    BY DEF RowInv
  <1>1. CASE ProviderMoves
    <2>0. UNCHANGED inbox
      BY <1>1 DEF ProviderMoves
    <2>1. Changes
      <3>1. ASSUME NEW to \in Stages, <<stage, to>> \in Moves[kind], MovesTo(to)
            PROVE Changes
        <4>1. to # "none"
          BY <1>0, <3>1 DEF Moves, PaymentsTypeOK, Kinds
        <4> QED BY <1>0, <2>0, <3>1, <4>1, StageMoves
      <3>2. ASSUME (\E n \in 1..Amount : PaysBack(n)) \/ SettlesRefund PROVE Changes
        BY <1>0, <2>0, <3>2, RefundChanges
      <3> QED BY <1>1, <3>1, <3>2 DEF ProviderMoves
    <2> QED BY <1>0, <1>1, <2>1, ChangeKeepsRow DEF ProviderMoves
  <1>2. CASE CreatePaymentIntent \/ CreateOrder
    <2>1. PICK what \in Kinds : Create(what) /\ Sets("PENDING", TRUE)
      BY <1>2 DEF CreatePaymentIntent, CreateOrder, CreateSubscription, Kinds
    <2> QED BY <1>0, <2>1, CreateKeepsRow
  <1>3. CASE ConfirmPayment
    <2>1. PICK to \in {"action", "processing", "paid"} :
            MovesTo(to) /\ Sets(MapStripeStatusToDB(to), FALSE)
      BY <1>3 DEF ConfirmPayment
    <2>0. UNCHANGED inbox
      BY <1>3 DEF ConfirmPayment
    <2>2. Changes
      BY <1>0, <2>0, <2>1, StageMoves DEF Stages
    <2>3. to # "action" => to \in past'
      BY <1>0, <2>0, <2>1, MovesToChanges DEF Deed, Stages
    <2>4. /\ MapStripeStatusToDB(to) \in Statuses
          /\ Justified(MapStripeStatusToDB(to))'
      <3>1. CASE to = "action"
        BY <3>1 DEF MapStripeStatusToDB, Statuses, Justified
      <3>2. CASE to = "processing"
        BY <2>3, <3>2 DEF MapStripeStatusToDB, Statuses, Justified
      <3>3. CASE to = "paid"
        BY <2>3, <3>3 DEF MapStripeStatusToDB, Statuses, Justified
      <3> QED BY <3>1, <3>2, <3>3
    <2>5. UNCHANGED <<inbox, db>>
      BY <1>3 DEF ConfirmPayment
    <2> QED BY <1>0, <2>1, <2>2, <2>4, <2>5, ChangeKeepsRow
  <1>4. CASE Refund
    <2>0. UNCHANGED <<inbox, db>>
      BY <1>4 DEF Refund
    <2>1. PICK n \in 1..Amount :
            /\ PaysBack(n) \/ AcceptsRefund(n)
            /\ Sets("PARTIALLY_REFUNDED", FALSE) \/ Sets("REFUNDED", FALSE)
      BY <1>4 DEF Refund
    <2>2. Changes
      BY <1>0, <2>0, <2>1, RefundChanges
    <2>3. refunded' > 0 \/ "asked" \in past'
      <3>1. n \in Nat /\ n > 0 /\ refunded \in Nat
        BY <1>0 DEF PaymentsTypeOK, PaymentsAssumption
      <3> QED BY <2>1, <3>1 DEF PaysBack, AcceptsRefund
    <2>4. \A s \in {"PARTIALLY_REFUNDED", "REFUNDED"} : s \in Statuses /\ Justified(s)'
      BY <2>3 DEF Statuses, Justified
    <2> QED BY <1>0, <2>0, <2>1, <2>2, <2>4, ChangeKeepsRow
  <1>5. CASE CaptureOrder
    <2>1. PICK to \in {"paid", "reserved", "refused"} :
            MovesTo(to) /\ Sets(IF to = "refused" THEN "FAILED" ELSE "SUCCEEDED", FALSE)
      BY <1>5 DEF CaptureOrder, Executes
    <2>5. UNCHANGED <<inbox, db>>
      BY <1>5 DEF CaptureOrder
    <2>2. Changes
      BY <1>0, <2>1, <2>5, StageMoves DEF Stages
    <2>3. to \in past'
      BY <1>0, <2>1, <2>5, MovesToChanges DEF Deed, Stages
    <2>4. \E s \in Statuses : Sets(s, FALSE) /\ Justified(s)'
      <3>1. CASE to \in {"paid", "reserved"}
        BY <2>1, <2>3, <3>1 DEF Statuses, Justified
      <3>2. CASE to = "refused"
        BY <2>1, <2>3, <3>2 DEF Statuses, Justified
      <3> QED BY <3>1, <3>2
    <2> QED BY <1>0, <2>2, <2>4, <2>5, ChangeKeepsRow
  <1>6. ASSUME NEW e \in events, HandleStripeWebhook(e) \/ HandlePaypalWebhook(e)
        PROVE  RowInv'
    <2>1. /\ StripeEvent(e.type) \subseteq Statuses /\ PaypalEvent(e.type) \subseteq Statuses
          /\ \A s \in StripeEvent(e.type) \cup PaypalEvent(e.type) : Justified(s)
      <3>1. e.type \in past /\ e.type \in Deeds
        BY <1>0, <1>6 DEF RowInv, PaymentsTypeOK, Event
      <3>2. CASE e.type = "refunded"
        BY <1>0, <3>1, <3>2 DEF RowInv, StripeEvent, PaypalEvent, Justified, Statuses
      <3>3. CASE e.type # "refunded"
        BY <3>1, <3>3 DEF StripeEvent, PaypalEvent, Justified, Statuses, Deeds
      <3> QED BY <3>2, <3>3
    <2>2. CASE HandleStripeWebhook(e)
      <3>1. Receives(e, StripeEvent(e.type)) /\ inOrder' \in BOOLEAN
        BY <1>0, <2>2 DEF HandleStripeWebhook, RowInv, PaymentsTypeOK
      <3> QED BY <1>0, <2>1, <3>1, ReceivesKeepsRow
    <2>3. CASE HandlePaypalWebhook(e)
      <3>1. /\ Receives(e, PaypalEvent(e.type)) \/ Receives(e, {})
            /\ inOrder' \in BOOLEAN
        BY <1>0, <2>3 DEF HandlePaypalWebhook, RowInv, PaymentsTypeOK
      <3> QED BY <1>0, <2>1, <3>1, ReceivesKeepsRow
    <2> QED BY <1>6, <2>2, <2>3
  <1>10. ASSUME NEW type \in Deeds, HandleUnverified(type) PROVE RowInv'
    <2>1. PICK s \in PaypalEvent(type) :
            writes' = writes \cup {[status |-> s, of |-> 0, creates |-> FALSE]}
      BY <1>10 DEF HandleUnverified
    <2>2. /\ claimed' = claimed \cup {type} /\ inOrder' = FALSE
          /\ UNCHANGED <<provider, events, delivered, row, rowOf>>
      BY <1>10 DEF HandleUnverified
    <2> DEFINE w == [status |-> s, of |-> 0, creates |-> FALSE]
    <2>3. s \in Statuses /\ Justified(s)'
      BY <2>1, <2>2 DEF PaypalEvent, Statuses, Justified
    <2>4. w \in Write /\ w.status = s /\ writes' = writes \cup {w}
      BY <2>1, <2>3 DEF Write
    <2> HIDE DEF w
    <2>5. \A v \in writes : Justified(v.status)'
      BY <1>0, <2>2 DEF RowInv, Justified, provider
    <2>6. Justified(row)'
      BY <1>0, <2>2 DEF RowInv, Justified, provider
    <2>7. PaymentsTypeOK'
      BY <1>0, <2>2, <2>4 DEF PaymentsTypeOK, provider
    <2>8. \A v \in writes' : Justified(v.status)'
      BY <2>3, <2>4, <2>5 DEF Justified
    <2> QED BY <1>0, <2>2, <2>6, <2>7, <2>8 DEF RowInv, provider
  <1>7. ASSUME NEW w \in writes, Persist(w) \/ LoseWrite(w) PROVE RowInv'
    <2>1. Justified(w.status) /\ w.status \in Statuses /\ w.of \in Nat
      BY <1>0 DEF RowInv, PaymentsTypeOK, Write
    <2>2. /\ writes' \subseteq writes /\ UNCHANGED <<provider, events, inbox>>
          /\ \/ row' = w.status /\ rowOf' = w.of
             \/ UNCHANGED <<row, rowOf>>
          /\ inOrder' \in BOOLEAN
      BY <1>0, <1>7 DEF Persist, LoseWrite, PaymentsTypeOK
    <2>3. PaymentsTypeOK'
      BY <1>0, <2>1, <2>2 DEF PaymentsTypeOK, provider, inbox
    <2> QED BY <1>0, <2>1, <2>2, <2>3 DEF RowInv, Justified, provider, inbox
  <1>8. ASSUME NEW status \in {400, 422, 500}, Fails(status) PROVE RowInv'
    <2>2. UNCHANGED <<inbox, writes, db>>
      BY <1>8 DEF Fails
    <2>1. Changes \/ UNCHANGED <<provider, events>>
      <3>1. \A to \in {"open", "action", "processing", "paid", "reserved", "refused"} :
              MovesTo(to) => Changes
        BY <1>0, <2>2, StageMoves DEF Stages
      <3>2. (\E n \in 1..Amount : PaysBack(n) \/ AcceptsRefund(n)) => Changes
        BY <1>0, <2>2, RefundChanges
      <3> QED BY <1>8, <3>1, <3>2 DEF Fails, Executes
    <2>3. CASE Changes
      BY <1>0, <2>2, <2>3, ChangeKeepsRow
    <2>4. CASE UNCHANGED <<provider, events>>
      BY <1>0, <2>2, <2>4 DEF RowInv, PaymentsTypeOK, Justified, provider, db, inbox
    <2> QED BY <2>1, <2>3, <2>4
  <1>9. CASE UNCHANGED paymentVars
    BY <1>0, <1>9 DEF RowInv, PaymentsTypeOK, Justified, paymentVars, provider, db, inbox
  <1> QED BY <1>1, <1>2, <1>3, <1>4, <1>5, <1>6, <1>7, <1>8, <1>9, <1>10 DEF PaymentsNext, Serves

LEMMA PaymentsStart == PaymentsAssumption /\ PaymentsInit => RowInv
  BY DEF PaymentsAssumption, PaymentsInit, RowInv, PaymentsTypeOK, Justified, Stages

(* However writes and events are lost, repeated or reordered, the row only *)
(* shows what the provider has done or accepted, or what an unverified     *)
(* event has told.                                                         *)
THEOREM PaymentRowsTrue == PaymentsSpec => [](PaymentsTypeOK /\ RowWasTrue)
  <1>1. RowInv => PaymentsTypeOK /\ RowWasTrue
    BY DEF RowInv, RowWasTrue, Justified
  <1> QED BY <1>1, PaymentsAssumption, PaymentsStart, PaymentsStep, PTL DEF PaymentsSpec

(***************************************************************************)
(* The row follows the provider                                            *)
(***************************************************************************)

(* The statuses that may tell of an event.                                 *)
Tells(status, type) ==
  \/ type = "processing" /\ status = "PROCESSING"
  \/ type \in {"paid", "reserved", "activated"} /\ status = "SUCCEEDED"
  \/ type = "refused" /\ status = "FAILED"
  \/ type = "refunded" /\ status \in {"REFUNDED", "PARTIALLY_REFUNDED"}
  \/ type = "cancelled" /\ status = "CANCELLED"

(* A change sends at most one event; what is written for the change says   *)
(* the same.                                                               *)
EventsTold ==
  /\ \A e \in events : /\ 0 < e.of /\ e.of <= changes
                       /\ e.type = "processing" => kind = "card"
                       /\ e.type = "activated" => kind = "plan"
                       /\ rowOf = e.of => Tells(row, e.type)
                       /\ \A w \in writes : w.of = e.of => Tells(w.status, e.type)
                       /\ \A f \in events : e.of = f.of => e = f
  /\ rowOf <= changes
  /\ \A w \in writes : w.of <= changes

(* Unless a write was lost, missed the row or came out of order, the row   *)
(* has what an event told, or something newer, or is about to.             *)
DeliveredWritten ==
  inOrder => \A e \in delivered \cap Telling : e.of <= rowOf \/ \E w \in writes : w.of = e.of

(* The event that is sent when the payment comes to stand as it does.      *)
Stands(type) ==
  \/ stage = "paid" /\ type = (IF refunded = 0 THEN "paid" ELSE "refunded")
  \/ stage \in {"processing", "refused", "reserved"} /\ type = stage
  \/ stage = "active" /\ type = "activated"
  \/ stage = "cancelled" /\ kind = "plan" /\ type = "cancelled"

Refunds == {"REFUNDED", "PARTIALLY_REFUNDED"}

(* The newest event says so; only accepted refunds were written for later. *)
SinceTold(type) ==
  \E e \in events :
    /\ e.type = type
    /\ \A f \in events : f.of <= e.of
    /\ rowOf > e.of => "asked" \in past /\ row \in Refunds
    /\ \A w \in writes : w.of > e.of => "asked" \in past /\ w.status \in Refunds

StageTold ==
  /\ kind = "none" => stage = "none" /\ events = {}
  /\ stage \in {"none", "open", "action", "processing", "reserved", "active"} => refunded = 0
  /\ asked > 0 => "asked" \in past
  /\ "asked" \in past => kind = "card" /\ stage = "paid"
  /\ \A type \in Deeds : Stands(type) => SinceTold(type)

FollowInv == RowInv /\ EventsTold /\ DeliveredWritten /\ StageTold

LEMMA FollowTypes ==
  ASSUME FollowInv
  PROVE  /\ changes \in Nat /\ rowOf \in Nat /\ refunded \in Nat /\ asked \in Nat
         /\ kind \in Kinds \cup {"none"} /\ stage \in Stages
         /\ delivered \subseteq events /\ inOrder \in BOOLEAN
         /\ \A e \in events : e \in Event /\ e.of \in Nat /\ e.type \in Deeds
         /\ \A w \in writes : w.of \in Nat /\ w.status \in Statuses
  <1>1. PaymentsTypeOK
    BY DEF FollowInv, RowInv
  <1>2. refunded \in Nat /\ asked \in Nat
    BY <1>1, PaymentsAssumption DEF PaymentsTypeOK
  <1> QED BY <1>1, <1>2 DEF PaymentsTypeOK, Event, Write

(* A change, with what is sent of it and the write of the handler, if any. *)
LEMMA ChangeFollows ==
  ASSUME FollowInv, RowInv', StageTold', changes' = changes + 1, kind' = kind,
         UNCHANGED <<inbox, db>>,
         NEW type \in Deeds, NEW sent \in SUBSET {[type |-> type, of |-> changes + 1]},
         events' = events \cup sent,
         sent # {} => /\ type = "processing" => kind = "card"
                      /\ type = "activated" => kind = "plan",
         \/ writes' = writes
         \/ \E s \in Statuses : Sets(s, FALSE) /\ (sent # {} => Tells(s, type))
  PROVE  FollowInv'
  <1> DEFINE n == changes + 1
             e == [type |-> type, of |-> n]
  <1>0. /\ changes \in Nat /\ rowOf \in Nat
        /\ \A f \in events : f.of \in Nat /\ 0 < f.of /\ f.of <= changes
        /\ \A w \in writes : w.of \in Nat /\ w.of <= changes
        /\ rowOf <= changes
    BY FollowTypes DEF FollowInv, EventsTold
  <1>1. /\ n \in Nat /\ 0 < n /\ changes' = n /\ rowOf' = rowOf /\ row' = row
        /\ rowOf < n /\ rowOf # n
        /\ \A f \in events : f.of # n /\ f.of <= n
        /\ \A w \in writes : w.of # n /\ w.of <= n
    BY <1>0 DEF db
  <1>2. sent \subseteq {e} /\ e.of = n /\ e.type = type
    OBVIOUS
  <1> HIDE DEF n, e
  <1>3. \A w \in writes' : \/ w \in writes
                           \/ w.of = n /\ (sent # {} => Tells(w.status, type))
    <2>1. ASSUME NEW s \in Statuses, Sets(s, FALSE), sent # {} => Tells(s, type)
          PROVE \A w \in writes' : \/ w \in writes
                                   \/ w.of = n /\ (sent # {} => Tells(w.status, type))
      <3> DEFINE w == [status |-> s, of |-> n, creates |-> FALSE]
      <3>1. w.of = n /\ w.status = s
        OBVIOUS
      <3>2. writes' = writes \cup {w}
        BY <1>1, <2>1 DEF Sets
      <3> HIDE DEF w
      <3> QED BY <2>1, <3>1, <3>2
    <2> QED BY <2>1
  <1>4. writes \subseteq writes'
    BY DEF Sets
  <1>5. EventsTold'
    <2>1. \A f \in events' : f \in events \/ (f = e /\ sent # {})
      BY <1>2
    <2>2. ASSUME NEW f \in events
          PROVE  /\ 0 < f.of /\ f.of <= n
                 /\ f.type = "processing" => kind = "card"
                 /\ f.type = "activated" => kind = "plan"
                 /\ rowOf = f.of => Tells(row, f.type)
                 /\ \A w \in writes' : w.of = f.of => Tells(w.status, f.type)
                 /\ \A h \in events' : f.of = h.of => f = h
      BY <1>0, <1>1, <1>2, <1>3, <2>1 DEF FollowInv, EventsTold
    <2>3. ASSUME sent # {}
          PROVE  /\ 0 < e.of /\ e.of <= n
                 /\ e.type = "processing" => kind = "card"
                 /\ e.type = "activated" => kind = "plan"
                 /\ rowOf = e.of => Tells(row, e.type)
                 /\ \A w \in writes' : w.of = e.of => Tells(w.status, e.type)
                 /\ \A h \in events' : e.of = h.of => e = h
      BY <1>1, <1>2, <1>3, <2>1, <2>3
    <2>4. \A w \in writes' : w.of <= n
      BY <1>1, <1>3
    <2>5. rowOf <= n
      BY <1>0, <1>1
    <2>6. \A f \in events' :
            /\ 0 < f.of /\ f.of <= n
            /\ f.type = "processing" => kind = "card"
            /\ f.type = "activated" => kind = "plan"
            /\ rowOf = f.of => Tells(row, f.type)
            /\ \A w \in writes' : w.of = f.of => Tells(w.status, f.type)
            /\ \A h \in events' : f.of = h.of => f = h
      BY <2>1, <2>2, <2>3
    <2> QED BY <1>1, <2>4, <2>5, <2>6 DEF EventsTold, Tells
  <1>6. DeliveredWritten'
    <2>1. delivered' = delivered /\ delivered \subseteq events
      BY FollowTypes DEF inbox
    <2>2. delivered' \cap Telling' \subseteq delivered \cap Telling
      BY <2>1 DEF Telling
    <2> QED BY <1>1, <1>4, <2>2 DEF FollowInv, DeliveredWritten, db
  <1> QED BY <1>5, <1>6 DEF FollowInv

(* An event of the last change says how the payment stands then.           *)
LEMMA NewlyTold ==
  ASSUME FollowInv, changes' = changes + 1, UNCHANGED db, NEW type \in Deeds,
         events' = events \cup {[type |-> type, of |-> changes + 1]},
         \A w \in writes' : w.of <= changes + 1 /\ w.of \in Nat
  PROVE  SinceTold(type)'
  <1> DEFINE e == [type |-> type, of |-> changes + 1]
  <1>1. changes \in Nat /\ rowOf' = rowOf /\ rowOf \in Nat /\ rowOf <= changes
        /\ \A f \in events : f.of \in Nat /\ f.of <= changes
    BY FollowTypes DEF FollowInv, EventsTold, db
  <1>2. e \in events' /\ e.type = type /\ e.of = changes + 1 /\ events' = events \cup {e}
    OBVIOUS
  <1> HIDE DEF e
  <1>3. \A f \in events' : f.of <= e.of
    BY <1>1, <1>2
  <1>4. ~(rowOf' > e.of) /\ \A w \in writes' : ~(w.of > e.of)
    BY <1>1, <1>2
  <1> QED BY <1>2, <1>3, <1>4 DEF SinceTold

(* What a handler writes is for the change that it made.                   *)
LEMMA SetsOf ==
  ASSUME FollowInv, changes' = changes + 1,
         \/ writes' = writes
         \/ \E s \in Statuses : Sets(s, FALSE)
  PROVE  \A w \in writes' : w.of <= changes + 1 /\ w.of \in Nat
  <1>1. changes \in Nat /\ \A w \in writes : w.of \in Nat /\ w.of <= changes
    BY FollowTypes DEF FollowInv, EventsTold
  <1>2. ASSUME NEW s \in Statuses, Sets(s, FALSE)
        PROVE  \A w \in writes' : w.of <= changes + 1 /\ w.of \in Nat
    <2> DEFINE w == [status |-> s, of |-> changes', creates |-> FALSE]
    <2>1. w.of = changes + 1 /\ writes' = writes \cup {w}
      BY <1>2 DEF Sets
    <2> HIDE DEF w
    <2> QED BY <1>1, <2>1
  <1>3. CASE writes' = writes
    <2> SUFFICES ASSUME NEW w \in writes PROVE w.of <= changes + 1 /\ w.of \in Nat
      BY <1>3
    <2> QED BY <1>1
  <1> QED BY <1>2, <1>3

(* What a change of the stage sends tells how the payment stands then.     *)
LEMMA MoveTold ==
  ASSUME FollowInv, NEW to \in Stages \ {"none"}, MovesTo(to), kind # "none",
         to \in {"open", "action", "processing", "reserved", "active", "paid"} => refunded = 0,
         "asked" \notin past, UNCHANGED db,
         \A w \in writes' : w.of <= changes + 1 /\ w.of \in Nat
  PROVE  StageTold'
  <1>1. /\ changes' = changes + 1 /\ stage' = to /\ kind' = kind /\ refunded' = refunded
        /\ asked' = asked /\ events' = events \cup Sends(to)
        /\ past' = past \cup ({Deed(to)} \cap Deeds)
    BY DEF MovesTo
  <1>2. Deed(to) # "asked"
    BY DEF Deed, Stages
  <1>3. ASSUME NEW type \in Deeds, Stands(type)' PROVE SinceTold(type)'
    <2>1. Deed(to) = type
      BY <1>1, <1>3 DEF Stands, Deed
    <2>2. Sends(to) = {[type |-> type, of |-> changes + 1]}
      BY <2>1 DEF Sends
    <2>3. events' = events \cup {[type |-> type, of |-> changes + 1]}
      BY <1>1, <2>2
    <2> QED BY <1>1, <2>3, NewlyTold
  <1>4. "asked" \notin past' /\ ~(asked' > 0)
    BY <1>1, <1>2, FollowTypes DEF FollowInv, StageTold
  <1>5. stage' \in {"none", "open", "action", "processing", "reserved", "active"} => refunded' = 0
    BY <1>1
  <1>6. kind' # "none"
    BY <1>1
  <1> QED BY <1>3, <1>4, <1>5, <1>6 DEF StageTold

LEMMA MoveFollows ==
  ASSUME FollowInv, RowInv', NEW to \in Stages \ {"none"}, MovesTo(to), kind # "none",
         to \in {"open", "action", "processing", "reserved", "active", "paid"} => refunded = 0,
         to = "processing" => kind = "card",
         to = "active" => kind = "plan",
         "asked" \notin past,
         \/ writes' = writes
         \/ \E s \in Statuses : Sets(s, FALSE) /\ (to # "action" => Tells(s, to)),
         to \in {"open", "active"} => writes' = writes,
         UNCHANGED <<inbox, db>>
  PROVE  FollowInv'
  <1>2. /\ changes' = changes + 1 /\ kind' = kind /\ events' = events \cup Sends(to)
    BY DEF MovesTo
  <1>1. StageTold'
    <2>1. \A w \in writes' : w.of <= changes + 1 /\ w.of \in Nat
      BY <1>2, SetsOf
    <2> QED BY <2>1, MoveTold
  <1>3. CASE to = "action"
    <2>1. Deed(to) \notin Deeds
      BY <1>3 DEF Deed, Deeds
    <2>2. Sends(to) = {} /\ "paid" \in Deeds
      BY <2>1 DEF Sends, Deeds
    <2>3. {} \in SUBSET {[type |-> "paid", of |-> changes + 1]}
      OBVIOUS
    <2>4. events' = events \cup {}
      BY <1>2, <2>2
    <2>5. writes' = writes \/ \E s \in Statuses : Sets(s, FALSE) /\ ({} # {} => Tells(s, "paid"))
      OBVIOUS
    <2> QED BY <1>1, <1>2, <2>2, <2>3, <2>4, <2>5, ChangeFollows
  <1>4. CASE to # "action"
    <2> DEFINE type == Deed(to)
    <2>1. /\ type \in Deeds /\ (to \notin {"open", "active"} => type = to)
          /\ type # "processing" \/ to = "processing"
          /\ type # "activated" \/ to = "active"
      BY <1>4 DEF Deed, Deeds, Stages
    <2>2. Sends(to) \in SUBSET {[type |-> type, of |-> changes + 1]}
      BY DEF Sends
    <2>3. Sends(to) # {} => /\ type = "processing" => kind = "card"
                            /\ type = "activated" => kind = "plan"
      BY <2>1
    <2>4. \/ writes' = writes
          \/ \E s \in Statuses : Sets(s, FALSE) /\ (Sends(to) # {} => Tells(s, type))
      BY <1>4, <2>1
    <2> HIDE DEF type
    <2> QED BY <1>1, <1>2, <2>1, <2>2, <2>3, <2>4, ChangeFollows
  <1> QED BY <1>3, <1>4

(* Money that is paid back, by a refund at once or by a pending one.       *)
LEMMA RefundFollows ==
  ASSUME FollowInv, RowInv', changes' = changes + 1, UNCHANGED <<kind, stage, inbox, db>>,
         stage = "paid", refunded' # 0,
         asked' > 0 => asked > 0, past' = past \cup {"refunded"},
         events' = events \cup {[type |-> "refunded", of |-> changes + 1]},
         \/ writes' = writes
         \/ \E s \in Refunds : Sets(s, FALSE)
  PROVE  FollowInv'
  <1> DEFINE sent == {[type |-> "refunded", of |-> changes + 1]}
  <1>1. "refunded" \in Deeds /\ \A s \in Refunds : s \in Statuses
    BY DEF Deeds, Refunds, Statuses
  <1>2. \A w \in writes' : w.of <= changes + 1 /\ w.of \in Nat
    BY <1>1, SetsOf
  <1>3. SinceTold("refunded")'
    BY <1>1, <1>2, NewlyTold
  <1>4. \A type : Stands(type)' => type = "refunded"
    BY DEF Stands
  <1>5. StageTold'
    <2>1. kind # "none"
      BY DEF FollowInv, StageTold
    <2> QED BY <1>3, <1>4, <2>1 DEF FollowInv, StageTold
  <1>6. writes' = writes \/ \E s \in Statuses : Sets(s, FALSE) /\ (sent # {} => Tells(s, "refunded"))
    BY <1>1 DEF Refunds, Tells
  <1> HIDE DEF sent
  <1>7. sent \in SUBSET {[type |-> "refunded", of |-> changes + 1]} /\ events' = events \cup sent
    BY DEF sent
  <1> QED BY <1>1, <1>5, <1>6, <1>7, ChangeFollows

LEMMA PaysBackFollows ==
  ASSUME FollowInv, RowInv', NEW n \in 1..Amount, PaysBack(n),
         \/ writes' = writes
         \/ \E s \in Refunds : Sets(s, FALSE),
         UNCHANGED <<inbox, db>>
  PROVE  FollowInv'
  <1>1. n \in Nat /\ n # 0 /\ refunded \in Nat
    BY FollowTypes, PaymentsAssumption
  <1>2. refunded' # 0
    BY <1>1 DEF PaysBack
  <1> QED BY <1>2, RefundFollows DEF PaysBack

(* A refund that is accepted, or that has failed: nothing is sent.         *)
LEMMA AcceptsFollows ==
  ASSUME FollowInv, RowInv', changes' = changes + 1,
         UNCHANGED <<kind, stage, refunded, events, inbox, db>>,
         kind = "card", stage = "paid", past' = past \cup {"asked"},
         \/ writes' = writes
         \/ \E s \in Refunds : Sets(s, FALSE)
  PROVE  FollowInv'
  <1>1. "refunded" \in Deeds /\ \A s \in Refunds : s \in Statuses
    BY DEF Deeds, Refunds, Statuses
  <1>2. \A w \in writes' : w \in writes \/ w.status \in Refunds
    <2>1. ASSUME NEW s \in Refunds, Sets(s, FALSE)
          PROVE  \A w \in writes' : w \in writes \/ w.status \in Refunds
      <3> DEFINE w == [status |-> s, of |-> changes', creates |-> FALSE]
      <3>1. w.status = s /\ writes' = writes \cup {w}
        BY <2>1 DEF Sets
      <3> HIDE DEF w
      <3> QED BY <3>1
    <2> QED BY <2>1
  <1>3. ASSUME NEW type \in Deeds, Stands(type)' PROVE SinceTold(type)'
    <2>1. Stands(type)
      BY <1>3 DEF Stands
    <2>2. SinceTold(type)
      BY <2>1 DEF FollowInv, StageTold
    <2> QED BY <1>2, <2>2 DEF SinceTold, db
  <1>4. StageTold'
    BY <1>3 DEF FollowInv, StageTold
  <1>5. {} \in SUBSET {[type |-> "refunded", of |-> changes + 1]} /\ events' = events \cup {}
    OBVIOUS
  <1>6. writes' = writes \/ \E s \in Statuses : Sets(s, FALSE) /\ ({} # {} => Tells(s, "refunded"))
    BY <1>1
  <1> QED BY <1>1, <1>4, <1>5, <1>6, ChangeFollows

LEMMA SettlesFollows ==
  ASSUME FollowInv, RowInv', SettlesRefund, UNCHANGED <<inbox, writes, db>>
  PROVE  FollowInv'
  <1>1. /\ asked > 0 /\ asked' = 0 /\ changes' = changes + 1 /\ UNCHANGED <<kind, stage>>
    BY DEF SettlesRefund
  <1>2. kind = "card" /\ stage = "paid" /\ "asked" \in past
    BY <1>1 DEF FollowInv, StageTold
  <1>3. CASE UNCHANGED <<refunded, past, events>>
    <2>1. past' = past \cup {"asked"}
      BY <1>2, <1>3
    <2> QED BY <1>1, <1>2, <1>3, <2>1, AcceptsFollows
  <1>4. CASE /\ refunded' = refunded + asked
             /\ past' = past \cup {"refunded"}
             /\ events' = events \cup {[type |-> "refunded", of |-> changes + 1]}
    <2>1. refunded' # 0
      BY <1>1, <1>4, FollowTypes
    <2> QED BY <1>1, <1>2, <1>4, <2>1, RefundFollows
  <1> QED BY <1>3, <1>4 DEF SettlesRefund

(* A webhook writes what the event says, in the status that tells of it.   *)
LEMMA WebhookFollows ==
  ASSUME FollowInv, RowInv', NEW e \in events, NEW S, Receives(e, S),
         \A s \in S : Tells(s, e.type),
         inOrder' => inOrder /\ (S # {} \/ e \notin Telling)
  PROVE  FollowInv'
  <1> DEFINE new == {[status |-> s, of |-> e.of, creates |-> FALSE] : s \in S}
  <1>1. \A w \in new : w.of = e.of /\ Tells(w.status, e.type)
    OBVIOUS
  <1>2. S # {} => \E w \in new : w.of = e.of
    <2> SUFFICES ASSUME NEW s \in S PROVE \E w \in new : w.of = e.of
      OBVIOUS
    <2> DEFINE w == [status |-> s, of |-> e.of, creates |-> FALSE]
    <2>1. w \in new /\ w.of = e.of
      OBVIOUS
    <2> HIDE DEF w, new
    <2> QED BY <2>1
  <1>3. /\ writes' = writes \cup new /\ delivered' = delivered \cup {e}
        /\ UNCHANGED <<kind, stage, past, refunded, asked, changes, events, row, rowOf>>
    BY DEF Receives, provider
  <1> HIDE DEF new
  <1>4. EventsTold'
    <2>1. \A f \in events : f.of = e.of => f = e
      BY DEF FollowInv, EventsTold
    <2>2. \A w \in new : w.of <= changes
      BY <1>1 DEF FollowInv, EventsTold
    <2>3. \A f \in events, w \in writes' : w.of = f.of => Tells(w.status, f.type)
      BY <1>1, <1>3, <2>1 DEF FollowInv, EventsTold
    <2>4. rowOf <= changes /\ \A w \in writes' : w.of <= changes
      BY <1>3, <2>2 DEF FollowInv, EventsTold
    <2> QED BY <1>3, <2>3, <2>4 DEF FollowInv, EventsTold, Tells
  <1>5. DeliveredWritten'
    <2>1. Telling' = Telling
      BY <1>3 DEF Telling
    <2> QED BY <1>2, <1>3, <2>1 DEF FollowInv, DeliveredWritten
  <1>6. StageTold'
    <2>1. ASSUME NEW type \in Deeds, Stands(type)' PROVE SinceTold(type)'
      <3>1. Stands(type)
        BY <1>3, <2>1 DEF Stands
      <3>2. PICK f \in events :
              /\ f.type = type
              /\ \A h \in events : h.of <= f.of
              /\ rowOf > f.of => "asked" \in past /\ row \in Refunds
              /\ \A w \in writes : w.of > f.of => "asked" \in past /\ w.status \in Refunds
        BY <3>1 DEF FollowInv, StageTold, SinceTold
      <3>3. \A w \in new : ~(w.of > f.of)
        BY <1>1, <3>2, FollowTypes
      <3> QED BY <1>3, <3>2, <3>3 DEF SinceTold
    <2> QED BY <1>3, <2>1 DEF FollowInv, StageTold
  <1> QED BY <1>4, <1>5, <1>6 DEF FollowInv

(* A write that is made takes the row forward, or is known not to.         *)
LEMMA PersistFollows ==
  ASSUME FollowInv, RowInv', NEW w \in writes, Persist(w) \/ LoseWrite(w)
  PROVE  FollowInv'
  <1>1. /\ writes' = writes \ {w}
        /\ UNCHANGED <<kind, stage, past, refunded, asked, changes, events, delivered>>
        /\ \/ UNCHANGED <<row, rowOf>> /\ ~inOrder'
           \/ row' = w.status /\ rowOf' = w.of /\ (inOrder' => inOrder /\ w.of >= rowOf)
    BY DEF Persist, LoseWrite, provider, inbox
  <1>2. w.of \in Nat /\ rowOf \in Nat /\ \A e \in events : e.of \in Nat
    BY FollowTypes
  <1>3. EventsTold'
    <2>1. w.of <= changes /\ \A e \in events : w.of = e.of => Tells(w.status, e.type)
      BY DEF FollowInv, EventsTold
    <2>2. rowOf' <= changes /\ \A e \in events : rowOf' = e.of => Tells(row', e.type)
      BY <1>1, <2>1 DEF FollowInv, EventsTold
    <2> QED BY <1>1, <2>2 DEF FollowInv, EventsTold, Tells
  <1>4. DeliveredWritten'
    <2>0. Telling' = Telling
      BY <1>1 DEF Telling
    <2> SUFFICES ASSUME inOrder', NEW e \in delivered \cap Telling
                 PROVE  e.of <= rowOf' \/ \E v \in writes' : v.of = e.of
      BY <1>1, <2>0 DEF DeliveredWritten
    <2>1. inOrder /\ rowOf' = w.of /\ w.of >= rowOf /\ e.of \in Nat
      BY <1>1, <1>2, FollowTypes
    <2>2. CASE e.of <= rowOf
      BY <1>2, <2>1, <2>2
    <2>3. ASSUME NEW v \in writes, v.of = e.of
          PROVE  e.of <= rowOf' \/ \E u \in writes' : u.of = e.of
      BY <1>1, <1>2, <2>1, <2>3
    <2> QED BY <2>1, <2>2, <2>3 DEF FollowInv, DeliveredWritten
  <1>5. StageTold'
    <2>1. ASSUME NEW type \in Deeds, Stands(type)' PROVE SinceTold(type)'
      <3>1. Stands(type)
        BY <1>1, <2>1 DEF Stands
      <3>2. SinceTold(type)
        BY <3>1 DEF FollowInv, StageTold
      <3> QED BY <1>1, <3>2 DEF SinceTold
    <2> QED BY <1>1, <2>1 DEF FollowInv, StageTold
  <1> QED BY <1>3, <1>4, <1>5 DEF FollowInv

(* What an untrue event sets is of no change.                              *)
LEMMA UnverifiedFollows ==
  ASSUME FollowInv, RowInv', NEW type \in Deeds, HandleUnverified(type)
  PROVE  FollowInv'
  <1>1. PICK s \in PaypalEvent(type) :
          writes' = writes \cup {[status |-> s, of |-> 0, creates |-> FALSE]}
    BY DEF HandleUnverified
  <1> DEFINE w == [status |-> s, of |-> 0, creates |-> FALSE]
  <1>2. w.of = 0 /\ writes' = writes \cup {w}
    BY <1>1
  <1> HIDE DEF w
  <1>3. /\ UNCHANGED <<kind, stage, past, refunded, asked, changes, events, delivered, row, rowOf>>
        /\ ~inOrder'
    BY DEF HandleUnverified, provider
  <1>4. /\ changes \in Nat /\ \A e \in events : e.of \in Nat /\ 0 < e.of
    BY FollowTypes DEF FollowInv, EventsTold
  <1>5. EventsTold'
    <2>1. \A e \in events : w.of # e.of
      BY <1>2, <1>4
    <2>2. w.of <= changes
      BY <1>2, <1>4
    <2> QED BY <1>2, <1>3, <2>1, <2>2 DEF FollowInv, EventsTold, Tells
  <1>6. DeliveredWritten'
    BY <1>3 DEF DeliveredWritten
  <1>7. StageTold'
    <2>1. ASSUME NEW d \in Deeds, Stands(d)' PROVE SinceTold(d)'
      <3>1. Stands(d)
        BY <1>3, <2>1 DEF Stands
      <3>2. PICK f \in events :
              /\ f.type = d
              /\ \A h \in events : h.of <= f.of
              /\ rowOf > f.of => "asked" \in past /\ row \in Refunds
              /\ \A v \in writes : v.of > f.of => "asked" \in past /\ v.status \in Refunds
        BY <3>1 DEF FollowInv, StageTold, SinceTold
      <3>3. ~(w.of > f.of)
        BY <1>2, <1>4
      <3> QED BY <1>2, <1>3, <3>2, <3>3 DEF SinceTold
    <2> QED BY <1>3, <2>1 DEF FollowInv, StageTold
  <1> QED BY <1>5, <1>6, <1>7 DEF FollowInv

LEMMA CreateFollows ==
  ASSUME FollowInv, RowInv', NEW what \in Kinds, Create(what), Sets("PENDING", TRUE)
  PROVE  FollowInv'
  <1> DEFINE w == [status |-> "PENDING", of |-> changes', creates |-> TRUE]
  <1>1. /\ kind' = what /\ stage' = "open" /\ changes' = changes + 1 /\ kind = "none"
        /\ UNCHANGED <<past, refunded, asked, events, delivered, row, rowOf, inOrder>>
        /\ writes' = writes \cup {w}
    BY DEF Create, Sets, db, inbox
  <1>2. w.of = changes'
    OBVIOUS
  <1> HIDE DEF w
  <1>3. /\ events = {} /\ stage = "none" /\ refunded = 0
        /\ "asked" \notin past /\ ~(asked > 0)
    BY <1>1 DEF FollowInv, StageTold
  <1>4. delivered = {} /\ changes \in Nat /\ rowOf \in Nat /\ \A v \in writes : v.of \in Nat
    BY <1>3, FollowTypes
  <1>5. EventsTold'
    <2>1. rowOf <= changes + 1 /\ \A v \in writes' : v.of <= changes + 1
      BY <1>1, <1>2, <1>4 DEF FollowInv, EventsTold
    <2> QED BY <1>1, <1>3, <2>1 DEF EventsTold
  <1>6. DeliveredWritten'
    BY <1>1, <1>4 DEF DeliveredWritten
  <1>7. StageTold'
    BY <1>1, <1>3 DEF StageTold, Stands, Kinds
  <1> QED BY <1>5, <1>6, <1>7 DEF FollowInv

LEMMA FollowStep == FollowInv /\ [PaymentsNext]_paymentVars => FollowInv'
  <1> SUFFICES ASSUME FollowInv, [PaymentsNext]_paymentVars PROVE FollowInv'
    OBVIOUS
  <1>0. /\ RowInv' /\ stage \in Stages /\ kind \in Kinds \cup {"none"}
        /\ kind = "none" => stage = "none" /\ events = {}
        /\ stage \in {"none", "open", "action", "processing", "reserved", "active"} => refunded = 0
        /\ "asked" \in past => kind = "card" /\ stage = "paid"
    BY PaymentsAssumption, PaymentsStep, FollowTypes DEF FollowInv, StageTold
  <1>c. Confirmable => kind = "card" /\ refunded = 0 /\ "asked" \notin past
    BY <1>0 DEF Confirmable
  <1>e. ASSUME NEW to, Executes(to)
        PROVE  /\ kind # "none" /\ refunded = 0 /\ "asked" \notin past /\ MovesTo(to)
               /\ to \in {"paid", "reserved", "refused"}
    BY <1>0, <1>e DEF Executes
  <1>1. CASE ProviderMoves
    <2>0. UNCHANGED <<inbox, writes, db>>
      BY <1>1 DEF ProviderMoves
    <2>1. ASSUME NEW to \in Stages, <<stage, to>> \in Moves[kind], MovesTo(to)
          PROVE FollowInv'
      <3>1. /\ kind # "none" /\ to # "none"
            /\ to \in {"open", "action", "processing", "reserved", "active", "paid"} => refunded = 0
            /\ to = "processing" => kind = "card"
            /\ to = "active" => kind = "plan"
            /\ "asked" \notin past
        <4>1. CASE kind = "card"
          BY <1>0, <2>1, <4>1 DEF Moves
        <4>2. CASE kind = "order"
          BY <1>0, <2>1, <4>2 DEF Moves
        <4>3. CASE kind = "reservation"
          BY <1>0, <2>1, <4>3 DEF Moves
        <4>4. CASE kind = "plan"
          BY <1>0, <2>1, <4>4 DEF Moves
        <4>5. CASE kind = "none"
          BY <2>1, <4>5 DEF Moves
        <4> QED BY <1>0, <4>1, <4>2, <4>3, <4>4, <4>5 DEF Kinds
      <3> QED BY <1>0, <2>0, <2>1, <3>1, MoveFollows
    <2>2. ASSUME NEW n \in 1..Amount, PaysBack(n) PROVE FollowInv'
      BY <1>0, <2>0, <2>2, PaysBackFollows
    <2>3. CASE SettlesRefund
      BY <1>0, <2>0, <2>3, SettlesFollows
    <2> QED BY <1>1, <2>1, <2>2, <2>3 DEF ProviderMoves
  <1>2. CASE CreatePaymentIntent \/ CreateOrder
    <2>1. PICK what \in Kinds : Create(what) /\ Sets("PENDING", TRUE)
      BY <1>2 DEF CreatePaymentIntent, CreateOrder, CreateSubscription, Kinds
    <2> QED BY <1>0, <2>1, CreateFollows
  <1>3. CASE ConfirmPayment
    <2>1. PICK to \in {"action", "processing", "paid"} :
            MovesTo(to) /\ Sets(MapStripeStatusToDB(to), FALSE)
      BY <1>3 DEF ConfirmPayment
    <2>2. /\ MapStripeStatusToDB(to) \in Statuses
          /\ to # "action" => Tells(MapStripeStatusToDB(to), to)
      BY DEF MapStripeStatusToDB, Statuses, Tells
    <2>3. UNCHANGED <<inbox, db>> /\ Confirmable
      BY <1>3 DEF ConfirmPayment
    <2>4. to \in Stages \ {"none"} /\ to \notin {"open", "active"}
      BY DEF Stages
    <2> QED BY <1>0, <1>c, <2>1, <2>2, <2>3, <2>4, MoveFollows
  <1>4. CASE Refund
    <2>1. PICK n \in 1..Amount :
            /\ PaysBack(n) \/ AcceptsRefund(n)
            /\ \E s \in Refunds : Sets(s, FALSE)
      BY <1>4 DEF Refund, Refunds
    <2>2. UNCHANGED <<inbox, db>> /\ kind = "card"
      BY <1>4 DEF Refund
    <2>3. CASE PaysBack(n)
      BY <1>0, <2>1, <2>2, <2>3, PaysBackFollows
    <2>4. CASE AcceptsRefund(n)
      BY <1>0, <2>1, <2>2, <2>4, AcceptsFollows DEF AcceptsRefund
    <2> QED BY <2>1, <2>3, <2>4
  <1>5. CASE CaptureOrder
    <2>1. PICK to \in {"paid", "reserved", "refused"} :
            Executes(to) /\ Sets(IF to = "refused" THEN "FAILED" ELSE "SUCCEEDED", FALSE)
      BY <1>5 DEF CaptureOrder
    <2>2. \E s \in Statuses : Sets(s, FALSE) /\ Tells(s, to)
      <3>1. CASE to \in {"paid", "reserved"}
        BY <2>1, <3>1 DEF Statuses, Tells
      <3>2. CASE to = "refused"
        BY <2>1, <3>2 DEF Statuses, Tells
      <3> QED BY <3>1, <3>2
    <2>3. UNCHANGED <<inbox, db>>
      BY <1>5 DEF CaptureOrder
    <2>4. to \in Stages \ {"none"} /\ to \notin {"open", "active", "processing"}
      BY DEF Stages
    <2> QED BY <1>0, <1>e, <2>1, <2>2, <2>3, <2>4, MoveFollows
  <1>6. ASSUME NEW e \in events, HandleStripeWebhook(e) PROVE FollowInv'
    <2>1. e.type \in Deeds /\ e.type # "activated" /\ kind = "card"
      BY <1>6, FollowTypes DEF FollowInv, EventsTold, HandleStripeWebhook
    <2>2. /\ StripeEvent(e.type) # {} \/ e \notin Telling
          /\ \A s \in StripeEvent(e.type) : Tells(s, e.type)
      BY <2>1 DEF StripeEvent, Tells, Deeds, Telling
    <2>3. Receives(e, StripeEvent(e.type)) /\ inOrder' = inOrder
      BY <1>6 DEF HandleStripeWebhook
    <2> QED BY <1>0, <2>2, <2>3, WebhookFollows
  <1>7. ASSUME NEW e \in events, HandlePaypalWebhook(e) PROVE FollowInv'
    <2>1. e.type \in Deeds /\ e.type # "processing"
      BY <1>7, FollowTypes DEF FollowInv, EventsTold, HandlePaypalWebhook
    <2>2. /\ PaypalEvent(e.type) # {} \/ e \notin Telling
          /\ \A s \in PaypalEvent(e.type) : Tells(s, e.type)
      BY <2>1 DEF PaypalEvent, Tells, Deeds, Telling
    <2>3. CASE Receives(e, PaypalEvent(e.type)) /\ inOrder' = inOrder
      BY <1>0, <2>2, <2>3, WebhookFollows
    <2>4. CASE Receives(e, {}) /\ inOrder' = FALSE
      BY <1>0, <2>4, WebhookFollows
    <2> QED BY <1>7, <2>3, <2>4 DEF HandlePaypalWebhook
  <1>12. ASSUME NEW type \in Deeds, HandleUnverified(type) PROVE FollowInv'
    BY <1>0, <1>12, UnverifiedFollows
  <1>8. ASSUME NEW w \in writes, Persist(w) \/ LoseWrite(w) PROVE FollowInv'
    BY <1>0, <1>8, PersistFollows
  <1>9. ASSUME UNCHANGED <<kind, stage, past, refunded, asked, changes, events, delivered, writes, db>>
        PROVE FollowInv'
    <2>1. EventsTold' /\ DeliveredWritten'
      BY <1>9 DEF FollowInv, EventsTold, DeliveredWritten, Telling, db
    <2>2. StageTold'
      BY <1>9 DEF FollowInv, StageTold, Stands, SinceTold, db
    <2> QED BY <1>0, <2>1, <2>2 DEF FollowInv
  <1>10. ASSUME NEW status \in {400, 422, 500}, Fails(status) PROVE FollowInv'
    <2>0. UNCHANGED <<inbox, writes, db>>
      BY <1>10 DEF Fails
    <2>1. ASSUME NEW to \in {"open", "action", "processing", "paid", "reserved", "refused"},
                 MovesTo(to), Confirmable \/ Executes(to)
          PROVE FollowInv'
      <3>1. /\ to \in Stages \ {"none"} /\ kind # "none" /\ refunded = 0 /\ "asked" \notin past
            /\ to = "processing" => kind = "card"
            /\ to # "active"
        BY <1>0, <1>c, <1>e, <2>1 DEF Stages
      <3> QED BY <1>0, <2>0, <2>1, <3>1, MoveFollows
    <2>2. ASSUME NEW n \in 1..Amount, PaysBack(n) PROVE FollowInv'
      BY <1>0, <2>0, <2>2, PaysBackFollows
    <2>3. ASSUME NEW n \in 1..Amount, kind = "card", AcceptsRefund(n) PROVE FollowInv'
      BY <1>0, <2>0, <2>3, AcceptsFollows DEF AcceptsRefund
    <2>4. ASSUME UNCHANGED <<provider, events>> PROVE FollowInv'
      BY <1>9, <2>0, <2>4 DEF provider, inbox
    <2> QED BY <1>10, <1>e, <2>1, <2>2, <2>3, <2>4 DEF Fails
  <1>11. CASE UNCHANGED paymentVars
    BY <1>9, <1>11 DEF paymentVars, provider, inbox
  <1> QED BY <1>1, <1>2, <1>3, <1>4, <1>5, <1>6, <1>7, <1>8, <1>10, <1>11, <1>12
          DEF PaymentsNext, Serves

LEMMA FollowStart == PaymentsInit => FollowInv
  <1> SUFFICES ASSUME PaymentsInit PROVE FollowInv
    OBVIOUS
  <1>1. RowInv
    BY PaymentsAssumption, PaymentsStart
  <1> QED BY <1>1 DEF PaymentsInit, FollowInv, EventsTold, DeliveredWritten, StageTold, Stands

(* A row that is no older than any event says what the newest one said, or *)
(* shows a refund that was accepted since.                                 *)
LEMMA RowTells ==
  ASSUME FollowInv, NEW type \in Deeds, Stands(type), row # "none",
         \A e \in events : e.of <= rowOf
  PROVE  Tells(row, type) \/ ("asked" \in past /\ row \in Refunds)
  <1>1. PICK e \in events : /\ e.type = type
                            /\ rowOf > e.of => "asked" \in past /\ row \in Refunds
    BY DEF FollowInv, StageTold, SinceTold
  <1>2. e.of <= rowOf /\ e.of \in Nat /\ rowOf \in Nat
    BY FollowTypes
  <1>3. CASE rowOf = e.of
    BY <1>1, <1>3 DEF FollowInv, EventsTold
  <1> QED BY <1>1, <1>2, <1>3

LEMMA FollowIsEnough == FollowInv => RowFollowsProvider
  <1> SUFFICES ASSUME FollowInv PROVE RowFollowsProvider
    OBVIOUS
  <1>1. (inOrder /\ writes = {} /\ delivered = events) => \A e \in Telling : e.of <= rowOf
    BY DEF FollowInv, DeliveredWritten, Telling
  <1>2. ASSUME row # "none", \A e \in events : e.of <= rowOf
        PROVE  CASE stage = "paid" /\ refunded = 0 ->
                      \/ row = "SUCCEEDED"
                      \/ "asked" \in past /\ row \in {"REFUNDED", "PARTIALLY_REFUNDED"}
                 [] stage = "paid" /\ refunded > 0 -> row \in {"REFUNDED", "PARTIALLY_REFUNDED"}
                 [] stage = "processing" -> row = "PROCESSING"
                 [] stage \in {"reserved", "active"} -> row = "SUCCEEDED"
                 [] stage = "refused" -> row = "FAILED"
                 [] stage = "cancelled" /\ kind = "plan" -> row = "CANCELLED"
                 [] OTHER -> TRUE
    <2>1. refunded \in Nat /\ ("asked" \in past => stage = "paid")
      BY FollowTypes DEF FollowInv, StageTold
    <2>2. \A type \in Deeds : Stands(type) =>
            Tells(row, type) \/ ("asked" \in past /\ row \in Refunds)
      BY <1>2, RowTells
    <2>3. CASE stage = "paid" /\ refunded = 0
      <3>1. Stands("paid") /\ "paid" \in Deeds
        BY <2>3 DEF Stands, Deeds
      <3> QED BY <2>2, <2>3, <3>1 DEF Tells, Refunds
    <2>4. CASE stage = "paid" /\ refunded # 0
      <3>1. Stands("refunded") /\ "refunded" \in Deeds
        BY <2>4 DEF Stands, Deeds
      <3>2. row \in {"REFUNDED", "PARTIALLY_REFUNDED"}
        BY <2>2, <3>1 DEF Tells, Refunds
      <3> QED BY <2>4, <3>2
    <2>5. CASE stage \in {"processing", "refused", "reserved"}
      <3>1. Stands(stage) /\ stage \in Deeds
        BY <2>5 DEF Stands, Deeds
      <3>2. Tells(row, stage)
        BY <2>1, <2>2, <2>5, <3>1
      <3>3. /\ stage = "processing" => row = "PROCESSING"
            /\ stage = "refused" => row = "FAILED"
            /\ stage = "reserved" => row = "SUCCEEDED"
        BY <3>2 DEF Tells
      <3> QED BY <2>5, <3>3
    <2>6. CASE stage = "active"
      <3>1. Stands("activated") /\ "activated" \in Deeds
        BY <2>6 DEF Stands, Deeds
      <3>2. row = "SUCCEEDED"
        BY <2>1, <2>2, <2>6, <3>1 DEF Tells
      <3> QED BY <2>6, <3>2
    <2>7. CASE stage = "cancelled" /\ kind = "plan"
      <3>1. Stands("cancelled") /\ "cancelled" \in Deeds
        BY <2>7 DEF Stands, Deeds
      <3>2. row = "CANCELLED"
        BY <2>1, <2>2, <2>7, <3>1 DEF Tells
      <3> QED BY <2>7, <3>2
    <2> QED BY <2>1, <2>3, <2>4, <2>5, <2>6, <2>7
  <1> QED BY <1>1, <1>2 DEF RowFollowsProvider

(* When everything has arrived and nothing was lost, missed the row or     *)
(* came out of order, the row shows how the payment stands, however        *)
(* requests, changes at the provider and repeated events interleaved.      *)
THEOREM PaymentRowsFollow == PaymentsSpec => []RowFollowsProvider
  BY FollowStart, FollowStep, FollowIsEnough, PTL DEF PaymentsSpec

(***************************************************************************)
(* The alerts of the tracker                                               *)
(***************************************************************************)

(* The answers with a code that the running process has given.             *)
Given(c) == {i \in DOMAIN answers : answers[i].code = c /\ answers[i].run = started}

AnswersOrdered ==
  /\ \A i \in DOMAIN answers :
       /\ answers[i].at <= clock /\ answers[i].run <= started
       /\ Before(i) = {} \/ Highest(Before(i)) \in Before(i)
  /\ \A i, j \in DOMAIN answers : i <= j => answers[i].at <= answers[j].at

(* What the tracker remembers of a code, the i-th answer being the last.   *)
Remembers(c, i) ==
  /\ i \in Given(c) /\ \A k \in Given(c) : k <= i
  /\ store[c] \subseteq Recurring(i)
  /\ \/ store[c] = Recurring(i)
     \/ /\ Cardinality(store[c]) = MaxOccurrences
        /\ \A j \in Recurring(i) \ store[c], k \in store[c] : j < k
  /\ c \in alerted <=> Burst(i)

Forgot(c) == Given(c) = {} /\ store[c] = {} /\ c \notin alerted

(* The store holds what recurs, or as much of it as the cap allows and the *)
(* newest of it, and the flag tells whether the last answer was in a burst.*)
AlertInv ==
  /\ RecurrenceTypeOK
  /\ AnswersOrdered
  /\ \A c \in Codes : Forgot(c) \/ \E i \in DOMAIN answers : Remembers(c, i)
  /\ AlertsWhereBurstsBegin

LEMMA AnswerTypes ==
  ASSUME RecurrenceTypeOK, NEW i \in DOMAIN answers
  PROVE  answers[i] \in Answer /\ answers[i].at \in Nat /\ answers[i].run \in Nat
  <1>1. answers[i] \in Answer
    BY DEF RecurrenceTypeOK
  <1> QED BY <1>1 DEF Answer

(* What is kept of the occurrences in the window, when what was dropped    *)
(* before was older.                                                       *)
LEMMA NewestOfBurst ==
  ASSUME RecurrenceAssumption, NEW n \in Nat, NEW P \in SUBSET (1..n), NEW F \in SUBSET P,
         \/ F = P
         \/ Cardinality(F) = MaxOccurrences /\ \A j \in P \ F, k \in F : j < k,
         NEW kept \in Newest(F \cup {n + 1})
  PROVE  /\ kept \subseteq P \cup {n + 1}
         /\ \/ kept = P \cup {n + 1}
            \/ /\ Cardinality(kept) = MaxOccurrences
               /\ \A j \in (P \cup {n + 1}) \ kept, k \in kept : j < k
         /\ Cardinality(kept) >= Threshold <=> Cardinality(P \cup {n + 1}) >= Threshold
  <1>0. MaxOccurrences \in Nat /\ Threshold \in Nat /\ Threshold <= MaxOccurrences
    BY DEF RecurrenceAssumption
  <1>1. IsFiniteSet(P) /\ IsFiniteSet(F)
    <2>1. IsFiniteSet(1..n)
      BY FS_Interval
    <2>2. IsFiniteSet(P)
      BY <2>1, FS_Subset
    <2> QED BY <2>2, FS_Subset
  <1>2. /\ IsFiniteSet(F \cup {n + 1})
        /\ Cardinality(F \cup {n + 1}) = Cardinality(F) + 1 /\ Cardinality(F) \in Nat
    BY <1>1, FS_AddElement, FS_CardinalityType
  <1>3. IsFiniteSet(P \cup {n + 1}) /\ Cardinality(P \cup {n + 1}) \in Nat
    BY <1>1, FS_AddElement, FS_CardinalityType
  <1>4. CASE Cardinality(F \cup {n + 1}) <= MaxOccurrences
    <2>1. kept = F \cup {n + 1}
      BY <1>4 DEF Newest
    <2>2. F = P
      BY <1>0, <1>2, <1>4
    <2> QED BY <2>1, <2>2
  <1>5. CASE ~(Cardinality(F \cup {n + 1}) <= MaxOccurrences)
    <2>1. /\ kept \subseteq F \cup {n + 1} /\ Cardinality(kept) = MaxOccurrences
          /\ \A i \in kept, j \in (F \cup {n + 1}) \ kept : j < i
      BY <1>5 DEF Newest
    <2>2. \A j \in (P \cup {n + 1}) \ kept, k \in kept : j < k
      <3> SUFFICES ASSUME NEW j \in (P \cup {n + 1}) \ kept, NEW k \in kept PROVE j < k
        OBVIOUS
      <3>1. CASE j \in F \cup {n + 1}
        BY <2>1, <3>1
      <3>2. CASE j \notin F \cup {n + 1}
        <4>1. j \in P \ F /\ j \in 1..n
          BY <3>2
        <4>2. CASE k \in F
          BY <4>1, <4>2
        <4>3. CASE k = n + 1
          BY <4>1, <4>3
        <4> QED BY <2>1, <4>2, <4>3
      <3> QED BY <3>1, <3>2
    <2>3. Cardinality(kept) <= Cardinality(P \cup {n + 1}) /\ kept \subseteq P \cup {n + 1}
      BY <1>3, <2>1, FS_Subset
    <2> QED BY <1>0, <1>3, <2>1, <2>2, <2>3
  <1> QED BY <1>4, <1>5

(* An answer with code c, recorded and counted.                            *)
Answers(c) ==
  /\ Track(c)
  /\ \E status \in 400..599 :
       answers' = Append(answers, [status |-> status, code |-> c,
                                   at |-> clock, run |-> started])
  /\ UNCHANGED <<clock, started>>

LEMMA Appended ==
  ASSUME RecurrenceTypeOK, NEW c \in Codes, Answers(c)
  PROVE  LET n == Len(answers) + 1
         IN  /\ Len(answers) \in Nat /\ DOMAIN answers = 1..Len(answers)
             /\ answers' \in Seq(Answer) /\ DOMAIN answers' = 1..n /\ n \in DOMAIN answers'
             /\ DOMAIN answers' = DOMAIN answers \cup {n}
             /\ \A i \in DOMAIN answers : answers'[i] = answers[i] /\ answers[i] \in Answer
             /\ answers'[n].code = c /\ answers'[n].at = clock /\ answers'[n].run = started
  <1>1. PICK status \in 400..599 :
          answers' = Append(answers, [status |-> status, code |-> c,
                                      at |-> clock, run |-> started])
    BY DEF Answers
  <1> DEFINE a == [status |-> status, code |-> c, at |-> clock, run |-> started]
  <1>2. a \in Answer /\ a.code = c /\ a.at = clock /\ a.run = started
    BY DEF Answer, RecurrenceTypeOK
  <1>3. answers' = Append(answers, a) /\ answers \in Seq(Answer)
    BY <1>1 DEF RecurrenceTypeOK
  <1> HIDE DEF a
  <1> QED BY <1>2, <1>3

(* What was recorded before stays as it was.                               *)
LEMMA EarlierStays ==
  ASSUME RecurrenceTypeOK, AnswersOrdered, NEW c \in Codes, Answers(c),
         NEW i \in DOMAIN answers
  PROVE  /\ Recurring(i)' = Recurring(i) /\ Before(i)' = Before(i)
         /\ Burst(i)' <=> Burst(i)
         /\ Quiet(i)' <=> Quiet(i)
  <1>1. i \in 1..Len(answers) /\ Len(answers) \in Nat /\ DOMAIN answers = 1..Len(answers)
        /\ \A j \in DOMAIN answers : answers'[j] = answers[j]
    BY Appended
  <1>2. ASSUME NEW k \in DOMAIN answers
        PROVE Recurring(k)' = Recurring(k) /\ (Burst(k)' <=> Burst(k))
    <2>1. Recurring(k)' = Recurring(k)
      BY <1>1, <1>2 DEF Recurring
    <2> QED BY <2>1 DEF Burst
  <1>3. Before(i)' = Before(i)
    BY <1>1 DEF Before
  <1>4. Before(i) # {} => Highest(Before(i)) \in DOMAIN answers
    BY <1>1 DEF AnswersOrdered, Before
  <1>5. Quiet(i)' <=> Quiet(i)
    <2>1. Highest(Before(i))' = Highest(Before(i))
      BY <1>3 DEF Highest
    <2> QED BY <1>2, <1>3, <1>4, <2>1 DEF Quiet
  <1> QED BY <1>2, <1>3, <1>5

(* What the tracker holds of a code when it is told of another error.      *)
LEMMA WindowHeld ==
  ASSUME AlertInv, NEW c \in Codes
  PROVE  LET P == {j \in Given(c) : InWindow(j)}
             F == {i \in store[c] : InWindow(i)}
         IN  /\ F \subseteq P
             /\ \/ F = P
                \/ Cardinality(F) = MaxOccurrences /\ \A j \in P \ F, k \in F : j < k
  <1> DEFINE P == {j \in Given(c) : InWindow(j)}
             F == {i \in store[c] : InWindow(i)}
  <1>1. CASE Forgot(c)
    BY <1>1 DEF Forgot
  <1>2. ASSUME NEW l \in DOMAIN answers, Remembers(c, l)
        PROVE  /\ F \subseteq P
               /\ \/ F = P
                  \/ Cardinality(F) = MaxOccurrences /\ \A j \in P \ F, k \in F : j < k
    <2>0. /\ clock \in Nat /\ Window \in Nat /\ DOMAIN answers = 1..Len(answers)
          /\ Len(answers) \in Nat
          /\ \A j \in DOMAIN answers : answers[j].at \in Nat
      <3>1. clock \in Nat /\ answers \in Seq(Answer)
        BY DEF AlertInv, RecurrenceTypeOK
      <3>2. Window \in Nat
        BY RecurrenceAssumption DEF RecurrenceAssumption
      <3> QED BY <3>1, <3>2, AnswerTypes DEF AlertInv
    <2>1. answers[l].at <= clock /\ l \in 1..Len(answers)
          /\ answers[l].code = c /\ answers[l].run = started
      BY <1>2, <2>0 DEF AlertInv, AnswersOrdered, Remembers, Given
    <2>2. Recurring(l) = {j \in Given(c) : answers[j].at >= answers[l].at - Window}
      <3>1. \A j \in Given(c) : j \in 1..l
        BY <1>2, <2>0 DEF Remembers, Given
      <3> QED BY <2>0, <2>1, <3>1 DEF Recurring, Given
    <2>3. P \subseteq Recurring(l) /\ F \subseteq P
      <3>1. \A j \in Given(c) : answers[j].at \in Nat
        BY <2>0 DEF Given
      <3> QED BY <1>2, <2>0, <2>1, <2>2, <3>1 DEF Remembers, InWindow
    <2>4. ASSUME F # P
          PROVE  Cardinality(F) = MaxOccurrences /\ \A j \in P \ F, k \in F : j < k
      <3>1. PICK p \in P : p \notin store[c]
        BY <2>3, <2>4
      <3>2. /\ Cardinality(store[c]) = MaxOccurrences
            /\ \A j \in Recurring(l) \ store[c], k \in store[c] : j < k
        BY <1>2, <2>3, <3>1 DEF Remembers
      <3>3. ASSUME NEW k \in store[c] PROVE InWindow(k)
        <4>1. p < k /\ p \in DOMAIN answers /\ k \in DOMAIN answers /\ InWindow(p)
          BY <1>2, <2>2, <2>3, <3>1, <3>2 DEF Remembers, Given
        <4>2. answers[p].at <= answers[k].at
          BY <2>0, <4>1 DEF AlertInv, AnswersOrdered
        <4> QED BY <2>0, <4>1, <4>2 DEF InWindow
      <3>4. F = store[c]
        BY <3>3
      <3> QED BY <2>3, <3>2, <3>4
    <2> QED BY <2>3, <2>4
  <1> QED BY <1>1, <1>2 DEF AlertInv

LEMMA AnswerKeepsAlerts ==
  ASSUME AlertInv, NEW c \in Codes, Answers(c)
  PROVE  AlertInv'
  <1>0. RecurrenceTypeOK /\ AnswersOrdered
    BY DEF AlertInv
  <1>1. PICK n \in Nat : n = Len(answers) + 1
    BY <1>0, Appended
  <1>2. /\ Len(answers) \in Nat /\ DOMAIN answers = 1..Len(answers)
        /\ answers' \in Seq(Answer) /\ DOMAIN answers' = 1..n /\ n \in DOMAIN answers'
        /\ DOMAIN answers' = DOMAIN answers \cup {n} /\ n \notin DOMAIN answers
        /\ \A i \in DOMAIN answers : answers'[i] = answers[i] /\ answers[i] \in Answer
        /\ answers'[n].code = c /\ answers'[n].at = clock /\ answers'[n].run = started
        /\ clock' = clock /\ started' = started
    <2>1. clock' = clock /\ started' = started
      BY DEF Answers
    <2>2. /\ Len(answers) \in Nat /\ DOMAIN answers = 1..Len(answers)
          /\ answers' \in Seq(Answer) /\ DOMAIN answers' = 1..n /\ n \in DOMAIN answers'
          /\ DOMAIN answers' = DOMAIN answers \cup {n}
          /\ \A i \in DOMAIN answers : answers'[i] = answers[i] /\ answers[i] \in Answer
          /\ answers'[n].code = c /\ answers'[n].at = clock /\ answers'[n].run = started
      BY <1>0, <1>1, Appended, Zenon
    <2>3. n \notin DOMAIN answers
      BY <1>1, <2>2
    <2> QED BY <2>1, <2>2, <2>3
  <1>3. \A i \in DOMAIN answers : i < n /\ i \in 1 .. n - 1
    BY <1>1, <1>2
  <1> DEFINE P == {j \in Given(c) : InWindow(j)}
             F == {i \in store[c] : InWindow(i)}
  <1>4. /\ Given(c)' = Given(c) \cup {n}
        /\ \A d \in Codes \ {c} : Given(d)' = Given(d)
    BY <1>2 DEF Given
  <1>5. Before(n)' = Given(c)
    BY <1>1, <1>2 DEF Before, Given
  <1>6. Recurring(n)' = P \cup {n}
    <2>1. clock >= clock - Window
      BY <1>0, RecurrenceAssumption DEF RecurrenceTypeOK, RecurrenceAssumption
    <2> QED BY <1>1, <1>2, <2>1 DEF Recurring, Given, InWindow
  <1>7. PICK kept \in Newest(F \cup {n}) :
          /\ store' = [store EXCEPT ![c] = kept]
          /\ \/ /\ Cardinality(kept) >= Threshold
                /\ alerted' = alerted \cup {c}
                /\ alerts' = IF c \in alerted THEN alerts ELSE alerts \cup {n}
             \/ /\ Cardinality(kept) < Threshold
                /\ alerted' = alerted \ {c}
                /\ UNCHANGED alerts
    BY <1>1 DEF Answers, Track, Pushed
  <1>8. /\ kept \subseteq P \cup {n}
        /\ \/ kept = P \cup {n}
           \/ /\ Cardinality(kept) = MaxOccurrences
              /\ \A j \in (P \cup {n}) \ kept, k \in kept : j < k
        /\ Cardinality(kept) >= Threshold <=> Cardinality(P \cup {n}) >= Threshold
    <2>1. /\ F \subseteq P
          /\ \/ F = P
             \/ Cardinality(F) = MaxOccurrences /\ \A j \in P \ F, k \in F : j < k
      BY WindowHeld
    <2>2. P \subseteq 1..Len(answers)
      BY <1>2 DEF Given
    <2> HIDE DEF P, F
    <2> QED BY <1>1, <1>2, <1>7, <2>1, <2>2, NewestOfBurst, RecurrenceAssumption
  <1>9. Burst(n)' <=> Cardinality(P \cup {n}) >= Threshold
    BY <1>6 DEF Burst
  <1>10. /\ Cardinality(kept) \in Nat
         /\ Cardinality(kept) >= Threshold <=> Burst(n)'
         /\ Threshold \in Nat
    <2>1. IsFiniteSet(1..n)
      BY FS_Interval
    <2>2. kept \subseteq 1..n
      BY <1>2, <1>8 DEF Given
    <2> QED BY <1>8, <1>9, <2>1, <2>2, FS_Subset, FS_CardinalityType, RecurrenceAssumption
            DEF RecurrenceAssumption
  <1> HIDE DEF P, F
  <1>11. Remembers(c, n)'
    <2>1. n \in Given(c)' /\ \A k \in Given(c)' : k <= n
      BY <1>2, <1>3, <1>4 DEF Given
    <2>2. store'[c] = kept
      BY <1>0, <1>7 DEF RecurrenceTypeOK
    <2>3. c \in alerted' <=> Burst(n)'
      <3>1. CASE Cardinality(kept) >= Threshold
        BY <1>7, <1>10, <3>1
      <3>2. CASE Cardinality(kept) < Threshold
        BY <1>7, <1>10, <3>2
      <3> QED BY <1>10, <3>1, <3>2
    <2> QED BY <1>6, <1>8, <2>1, <2>2, <2>3 DEF Remembers
  <1>12. ASSUME NEW d \in Codes \ {c}
         PROVE  (Forgot(d) \/ \E i \in DOMAIN answers : Remembers(d, i))'
    <2>1. store'[d] = store[d] /\ (d \in alerted' <=> d \in alerted) /\ Given(d)' = Given(d)
      BY <1>0, <1>4, <1>7 DEF RecurrenceTypeOK
    <2>2. CASE Forgot(d)
      BY <2>1, <2>2 DEF Forgot
    <2>3. ASSUME NEW i \in DOMAIN answers, Remembers(d, i) PROVE Remembers(d, i)'
      <3>1. Recurring(i)' = Recurring(i) /\ (Burst(i)' <=> Burst(i))
        BY <1>0, EarlierStays
      <3> QED BY <2>1, <2>3, <3>1 DEF Remembers
    <2> QED BY <1>2, <2>2, <2>3 DEF AlertInv
  <1>13. /\ Quiet(n)' <=> c \notin alerted
         /\ Before(n)' = {} \/ Highest(Before(n))' \in Before(n)'
    <2>1. CASE Forgot(c)
      BY <1>5, <2>1 DEF Forgot, Quiet
    <2>2. ASSUME NEW l \in DOMAIN answers, Remembers(c, l)
          PROVE  (Quiet(n)' <=> c \notin alerted) /\ Highest(Before(n))' \in Before(n)'
      <3>1. l \in Given(c) /\ \A k \in Given(c) : k <= l /\ k \in Nat
        BY <1>2, <2>2 DEF Remembers, Given
      <3>2. Highest(Given(c)) = l
        BY <3>1 DEF Highest
      <3>3. Highest(Before(n))' = l
        BY <1>5, <3>2 DEF Highest
      <3>4. Burst(l)' <=> Burst(l)
        BY <1>0, EarlierStays
      <3> QED BY <1>5, <2>2, <3>1, <3>3, <3>4 DEF Quiet, Remembers
    <2> QED BY <2>1, <2>2 DEF AlertInv
  <1>14. AnswersOrdered'
    <2>1. ASSUME NEW i \in DOMAIN answers'
          PROVE  /\ answers'[i].at <= clock' /\ answers'[i].run <= started'
                 /\ Before(i)' = {} \/ Highest(Before(i))' \in Before(i)'
      <3>1. CASE i = n
        BY <1>0, <1>2, <1>13, <3>1 DEF RecurrenceTypeOK
      <3>2. CASE i # n
        <4>1. i \in DOMAIN answers
          BY <1>2, <3>2
        <4>2. Before(i)' = Before(i) /\ Highest(Before(i))' = Highest(Before(i))
          BY <1>0, <4>1, EarlierStays DEF Highest
        <4> QED BY <1>2, <4>1, <4>2 DEF AlertInv, AnswersOrdered
      <3> QED BY <3>1, <3>2
    <2>2. ASSUME NEW i \in DOMAIN answers', NEW j \in DOMAIN answers', i <= j
          PROVE  answers'[i].at <= answers'[j].at
      <3>1. CASE j = n
        BY <1>2, <2>1, <3>1
      <3>2. CASE j # n
        <4>1. i \in DOMAIN answers /\ j \in DOMAIN answers
          BY <1>2, <1>3, <2>2, <3>2
        <4> QED BY <1>2, <2>2, <4>1 DEF AlertInv, AnswersOrdered
      <3> QED BY <3>1, <3>2
    <2> QED BY <2>1, <2>2 DEF AnswersOrdered
  <1>15. AlertsWhereBurstsBegin'
    <2>1. alerts' = {i \in DOMAIN answers : Burst(i) /\ Quiet(i)}
                    \cup (IF Burst(n)' /\ Quiet(n)' THEN {n} ELSE {})
      <3>1. alerts = {i \in DOMAIN answers : Burst(i) /\ Quiet(i)}
        BY DEF AlertInv, AlertsWhereBurstsBegin
      <3>2. alerts' = IF Burst(n)' /\ c \notin alerted THEN alerts \cup {n} ELSE alerts
        BY <1>7, <1>10
      <3> QED BY <1>13, <3>1, <3>2
    <2>2. ASSUME NEW i \in DOMAIN answers
          PROVE  (Burst(i) /\ Quiet(i))' <=> Burst(i) /\ Quiet(i)
      BY <1>0, EarlierStays
    <2> QED BY <1>2, <2>1, <2>2 DEF AlertsWhereBurstsBegin
  <1>16. RecurrenceTypeOK'
    <2>1. kept \in SUBSET Nat
      BY <1>2, <1>8 DEF P, Given
    <2> QED BY <1>0, <1>2, <1>7, <2>1 DEF RecurrenceTypeOK
  <1>17. \A d \in Codes : (Forgot(d) \/ \E i \in DOMAIN answers : Remembers(d, i))'
    BY <1>2, <1>11, <1>12
  <1> QED BY <1>14, <1>15, <1>16, <1>17 DEF AlertInv

LEMMA CatchAnswers ==
  ASSUME NEW exception \in {<<"http", 400>>, <<"http", 422>>, <<"http", 500>>} \cup OtherExceptions,
         Catch(exception)
  PROVE  \E c \in Codes : Answers(c)
  <1>1. Classify(exception)[1] \in 400..599 /\ Classify(exception)[2] \in Codes
    BY DEF OtherExceptions, Classify, HttpStatusToCode, ClassifyPrismaError, Codes
  <1> QED BY <1>1 DEF Catch, Answers

(* A restart forgets what was given by the process before.                 *)
LEMMA ResetKeepsAlerts ==
  ASSUME AlertInv, Reset
  PROVE  AlertInv'
  <1>1. /\ started' = started + 1 /\ started \in Nat /\ alerted' = {}
        /\ store' = [c \in Codes |-> {}] /\ UNCHANGED <<clock, answers, alerts>>
    BY DEF Reset, AlertInv, RecurrenceTypeOK
  <1>2. \A i \in DOMAIN answers : answers[i].run \in Nat
    BY AnswerTypes DEF AlertInv
  <1>3. \A c \in Codes : Forgot(c)'
    <2>1. \A i \in DOMAIN answers : answers[i].run # started'
      BY <1>1, <1>2 DEF AlertInv, AnswersOrdered
    <2> QED BY <1>1, <2>1 DEF Forgot, Given
  <1>4. AlertsWhereBurstsBegin'
    BY <1>1 DEF AlertInv, AlertsWhereBurstsBegin, Burst, Quiet, Recurring, Before, Highest
  <1>5. AnswersOrdered'
    BY <1>1, <1>2 DEF AlertInv, AnswersOrdered, Before, Highest
  <1>6. RecurrenceTypeOK'
    BY <1>1 DEF AlertInv, RecurrenceTypeOK
  <1> QED BY <1>3, <1>4, <1>5, <1>6 DEF AlertInv

LEMMA TimeKeepsAlerts ==
  ASSUME AlertInv, clock' \in Nat, clock' >= clock,
         UNCHANGED <<store, alerted, answers, alerts, started>>
  PROVE  AlertInv'
  <1>1. clock \in Nat /\ \A i \in DOMAIN answers : answers[i].at \in Nat
    BY AnswerTypes DEF AlertInv, RecurrenceTypeOK
  <1>2. RecurrenceTypeOK'
    BY DEF AlertInv, RecurrenceTypeOK
  <1>3. AnswersOrdered'
    <2>1. \A i \in DOMAIN answers :
            Before(i)' = Before(i) /\ Highest(Before(i))' = Highest(Before(i))
      BY DEF Before, Highest
    <2>2. \A i \in DOMAIN answers : answers[i].at <= clock'
      BY <1>1 DEF AlertInv, AnswersOrdered
    <2> QED BY <2>1, <2>2 DEF AlertInv, AnswersOrdered
  <1>4. AlertsWhereBurstsBegin'
    BY DEF AlertInv, AlertsWhereBurstsBegin, Burst, Quiet, Recurring, Before, Highest
  <1>5. ASSUME NEW c \in Codes
        PROVE  (Forgot(c) \/ \E i \in DOMAIN answers : Remembers(c, i))'
    <2>1. Given(c)' = Given(c)
      BY DEF Given
    <2>2. \A i \in DOMAIN answers : Recurring(i)' = Recurring(i) /\ (Burst(i)' <=> Burst(i))
      BY DEF Recurring, Burst
    <2>3. Forgot(c) => Forgot(c)'
      BY <2>1 DEF Forgot
    <2>4. \A i \in DOMAIN answers : Remembers(c, i) => Remembers(c, i)'
      BY <2>1, <2>2 DEF Remembers
    <2> QED BY <2>3, <2>4 DEF AlertInv
  <1> QED BY <1>2, <1>3, <1>4, <1>5 DEF AlertInv

LEMMA AlertStep == AlertInv /\ [Next]_vars => AlertInv'
  <1> SUFFICES ASSUME AlertInv, [Next]_vars PROVE AlertInv'
    OBVIOUS
  <1>0. clock \in Nat
    BY DEF AlertInv, RecurrenceTypeOK
  <1>1. ASSUME NEW status \in {400, 422, 500}, PaymentFails(status) PROVE AlertInv'
    BY <1>1, CatchAnswers, AnswerKeepsAlerts DEF PaymentFails
  <1>2. ASSUME NEW exception \in OtherExceptions, OtherFails(exception) PROVE AlertInv'
    BY <1>2, CatchAnswers, AnswerKeepsAlerts DEF OtherFails
  <1>3. CASE Reset
    BY <1>3, ResetKeepsAlerts
  <1>4. CASE TimePasses
    BY <1>0, <1>4, TimeKeepsAlerts DEF TimePasses
  <1>5. CASE UNCHANGED trackerVars
    BY <1>0, <1>5, TimeKeepsAlerts DEF trackerVars
  <1> QED BY <1>1, <1>2, <1>3, <1>4, <1>5 DEF Next, Step, vars

LEMMA AlertStart == Init => AlertInv
  <1> SUFFICES ASSUME RecurrenceInit PROVE AlertInv
    BY DEF Init
  <1>1. answers = <<>> /\ DOMAIN answers = {} /\ answers \in Seq(Answer)
    BY DEF RecurrenceInit
  <1>2. \A c \in Codes : Forgot(c)
    BY <1>1 DEF RecurrenceInit, Forgot, Given
  <1>3. RecurrenceTypeOK
    BY <1>1 DEF RecurrenceInit, RecurrenceTypeOK
  <1> QED BY <1>1, <1>2, <1>3
          DEF RecurrenceInit, AlertInv, AnswersOrdered, AlertsWhereBurstsBegin

(***************************************************************************)
(* The endpoints behind the filter                                         *)
(***************************************************************************)

(* Every step of the endpoints is one of Payments or leaves the payment    *)
(* alone.                                                                  *)
LEMMA ImplementsPayments == Spec => PaymentsSpec
  <1>1. Init => PaymentsInit
    BY DEF Init
  <1>2. [Next]_vars => [PaymentsNext]_paymentVars
    BY DEF Next, Step, vars, PaymentsNext, PaymentFails, OtherFails
  <1> QED BY <1>1, <1>2, PTL DEF Spec, PaymentsSpec

(* What the row shows has happened, also when the errors of the handlers   *)
(* are answered by the filter and counted.                                 *)
THEOREM ApiRowsTrue == Spec => []RowWasTrue
  BY ImplementsPayments, PaymentRowsTrue, PTL

(* And it shows how the payment stands once all has arrived in order.      *)
THEOREM ApiRowsFollow == Spec => []RowFollowsProvider
  BY ImplementsPayments, PaymentRowsFollow, PTL

(* An alert is logged exactly where a burst of a code begins, for any      *)
(* window, threshold and cap that is no smaller than the threshold,        *)
(* although the tracker prunes, caps and forgets.                          *)
THEOREM ApiAlertsBurst == Spec => []AlertsWhereBurstsBegin
  <1>1. AlertInv => AlertsWhereBurstsBegin
    BY DEF AlertInv
  <1> QED BY <1>1, AlertStart, AlertStep, PTL DEF Spec

(* The endpoints and the tracker keep to their types: every status and     *)
(* code is one of the filter's, and an alert names an answer given.        *)
THEOREM ApiTypeCorrect == Spec => []TypeOK
  <1>1. AlertInv => RecurrenceTypeOK
    BY DEF AlertInv
  <1>2. Spec => []RecurrenceTypeOK
    BY <1>1, AlertStart, AlertStep, PTL DEF Spec
  <1>3. PaymentsTypeOK /\ RecurrenceTypeOK => TypeOK
    BY DEF TypeOK
  <1> QED BY <1>2, <1>3, ImplementsPayments, PaymentRowsTrue, PTL
=============================================================================
