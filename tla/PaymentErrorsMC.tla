--------------------------- MODULE PaymentErrorsMC ---------------------------
(* Instances of PaymentErrors for TLC; see payments.cfg for the sizes.     *)
EXTENDS PaymentErrors
=============================================================================
