---------------------------- MODULE PaymentErrors ----------------------------
(***************************************************************************)
(* The payment endpoints behind the exception filter of the API: a handler *)
(* that fails is answered by AllExceptionsFilter, and the recurrence       *)
(* tracker is told.                                                        *)
(***************************************************************************)
EXTENDS Payments, ErrorRecurrence

CONSTANT
  MaxWork          (* bound on the changes, untrue events and errors together *)

ASSUME WorkAssumption == MaxWork \in Nat

vars == <<paymentVars, trackerVars>>

TypeOK == PaymentsTypeOK /\ RecurrenceTypeOK

Init == PaymentsInit /\ RecurrenceInit

PaymentFails(status) == Fails(status) /\ Catch(<<"http", status>>)

(* Exceptions of the rest of the API.                                      *)
OtherExceptions ==
  {<<"http", 404>>, <<"prisma", "P1001">>, <<"error">>, <<"value">>}

OtherFails(exception) == Catch(exception) /\ UNCHANGED paymentVars

Step ==
  \/ (ProviderMoves \/ Serves) /\ UNCHANGED trackerVars
  \/ \E status \in {400, 422, 500} : PaymentFails(status)
  \/ \E exception \in OtherExceptions : OtherFails(exception)
  \/ (Reset \/ TimePasses) /\ UNCHANGED paymentVars

Next == Step /\ changes' + Cardinality(claimed') + Len(answers') <= MaxWork

Spec == Init /\ [][Next]_vars
=============================================================================
