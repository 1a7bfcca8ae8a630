----------------------------- MODULE Credentials -----------------------------
(***************************************************************************)
(* The password and the address of one account: AuthService.validateUser,  *)
(* changePassword, changeEmail, the e-mailed links of forgotPassword and   *)
(* sendVerificationEmail, and the calls that use them.                     *)
(*                                                                         *)
(* Passwords and addresses are numbered in the order they are set, and a   *)
(* call names the password it was given by its number.  Every await ends   *)
(* an action; a call that is refused or dies takes no further step.        *)
(***************************************************************************)
EXTENDS ApiCalls

VARIABLES
  password,   (* the password User.passwordHash is a hash of                 *)
  latest,     (* the password set last                                       *)
  legacy,     (* the hash is one of WordPress ($wp$)                         *)
  address,    (* User.email                                                  *)
  verified,   (* User.emailVerified                                          *)
  links,      (* VerificationToken rows                                      *)
  cred        (* local variables of the calls                                *)

user == <<password, latest, legacy, address, verified>>
credVars == <<user, links, cred>>

Cred == [at : {"start", "rehash", "valid",
               "guard", "write", "revoke", "move", "mail",
               "reset", "clear", "confirm", "consume", "done"},
         seen : Nat, link : Calls]

CredentialsTypeOK ==
  /\ password \in Nat /\ latest \in Nat /\ legacy \in BOOLEAN
  /\ address \in Nat /\ verified \in BOOLEAN
  /\ links \subseteq [id : Calls, type : {"EMAIL_VERIFICATION", "PASSWORD_RESET"}]
  /\ cred \in [Calls -> Cred]

CredentialsInit ==
  /\ password = 0 /\ latest = 0 /\ legacy \in BOOLEAN
  /\ address = 0 /\ verified = FALSE
  /\ links = {}
  /\ cred = [c \in Calls |-> [at |-> "start", seen |-> 0, link |-> c]]

(* The call c goes on to a place.                                          *)
To(c, place) == cred' = [cred EXCEPT ![c].at = place]

-----------------------------------------------------------------------------
(* validateUser *)

(* A mutant: a standard hash is rehashed as well.                          *)
RehashAlways(c) ==
  /\ cred[c].at = "start"
  /\ cred' = [cred EXCEPT ![c] = [@ EXCEPT !.at = "rehash", !.seen = password]]
  /\ UNCHANGED <<user, links>>

(* The password is the right one for the row that was read.                *)
Validate(c) ==
  /\ cred[c].at = "start"
  /\ cred' = [cred EXCEPT ![c] = [@ EXCEPT !.at = IF legacy THEN "rehash" ELSE "valid",
                                           !.seen = password]]
  /\ UNCHANGED <<user, links>>

(* The hash read from a $wp$ account is replaced by a standard one of the  *)
(* same password, whatever the row has become in the meantime.             *)
Rehash(c) ==
  /\ cred[c].at = "rehash"
  /\ password' = cred[c].seen
  /\ legacy' = FALSE
  /\ To(c, "valid")
  /\ UNCHANGED <<latest, address, verified, links>>

-----------------------------------------------------------------------------
(* changePassword and changeEmail *)

(* Both compare with the stored hash as it is, which no password matches   *)
(* while it is a $wp$ one.                                                 *)
AskChange(c) ==
  /\ cred[c].at = "start"
  /\ ~legacy
  /\ To(c, "guard")
  /\ UNCHANGED <<user, links>>

(* requireStepUpOrThrow has let the call pass.                             *)
PassGuard(c) ==
  /\ cred[c].at = "guard"
  /\ \E next \in {"write", "move"} : To(c, next)
  /\ UNCHANGED <<user, links>>

(* A new password; its hash is a standard one.                             *)
SetPassword ==
  /\ latest' = latest + 1
  /\ password' = latest + 1
  /\ legacy' = FALSE
  /\ UNCHANGED <<address, verified>>

WritePassword(c) ==
  /\ cred[c].at = "write"
  /\ SetPassword
  /\ To(c, "revoke")
  /\ UNCHANGED links

WriteEmail(c) ==
  /\ cred[c].at = "move"
  /\ address' = address + 1
  /\ verified' = FALSE
  /\ To(c, "mail")
  /\ UNCHANGED <<password, latest, legacy, links>>

-----------------------------------------------------------------------------
(* Links *)

(* sendVerificationEmail, after a registration or a change of address.     *)
MailVerification(c) ==
  /\ cred[c].at \in {"start", "mail"}
  /\ links' = links \cup {[id |-> c, type |-> "EMAIL_VERIFICATION"]}
  /\ To(c, "done")
  /\ UNCHANGED user

ForgotPassword(c) ==
  /\ cred[c].at = "start"
  /\ links' = links \cup {[id |-> c, type |-> "PASSWORD_RESET"]}
  /\ To(c, "done")
  /\ UNCHANGED user

(* A link is opened; one that has expired is refused.                      *)
Open(c, l, type, next) ==
  /\ cred[c].at = "start"
  /\ l \in links
  /\ l.type = type
  /\ cred' = [cred EXCEPT ![c] = [@ EXCEPT !.at = next, !.link = l.id]]
  /\ UNCHANGED <<user, links>>

OpenReset(c, l) == Open(c, l, "PASSWORD_RESET", "reset")
OpenVerification(c, l) == Open(c, l, "EMAIL_VERIFICATION", "confirm")

WriteReset(c) ==
  /\ cred[c].at = "reset"
  /\ SetPassword
  /\ To(c, "clear")
  /\ UNCHANGED links

(* Every reset link of the account goes, also those mailed meanwhile.      *)
ClearResets(c) ==
  /\ cred[c].at = "clear"
  /\ links' = {l \in links : l.type # "PASSWORD_RESET"}
  /\ To(c, "done")
  /\ UNCHANGED user

WriteVerified(c) ==
  /\ cred[c].at = "confirm"
  /\ verified' = TRUE
  /\ To(c, "consume")
  /\ UNCHANGED <<password, latest, legacy, address, links>>

(* The delete throws if another call has used the link; the address stays  *)
(* verified.                                                               *)
ConsumeVerification(c) ==
  /\ cred[c].at = "consume"
  /\ links' = {l \in links : l.id # cred[c].link}
  /\ To(c, "done")
  /\ UNCHANGED user

(* A link expires; its row stays but is refused from then on.              *)
ExpireLink(l) ==
  /\ l \in links
  /\ links' = links \ {l}
  /\ UNCHANGED <<user, cred>>

LinkStep(c) ==
  \/ MailVerification(c) \/ ForgotPassword(c)
  \/ \E l \in links : OpenReset(c, l) \/ OpenVerification(c, l)
  \/ WriteReset(c) \/ ClearResets(c) \/ WriteVerified(c) \/ ConsumeVerification(c)

CredentialsNext ==
  \/ \E c \in Calls : \/ Validate(c) \/ Rehash(c) \/ AskChange(c) \/ PassGuard(c)
                      \/ WritePassword(c) \/ WriteEmail(c) \/ LinkStep(c)
  \/ \E l \in links : ExpireLink(l)

CredentialsSpec == CredentialsInit /\ [][CredentialsNext]_credVars

-----------------------------------------------------------------------------
(* Properties *)

(* A sign-in that has read a $wp$ hash and has yet to replace it.         *)
Rehashing == \E c \in Calls : cred[c].at = "rehash"

(* Sign-ins take a change or a reset of the password back only while an    *)
(* account leaves its $wp$ hash: once the hash is a standard one and no    *)
(* sign-in that read the old one is left, the account stays so and its     *)
(* password never goes back to an earlier one.                             *)
MigrationSettles ==
  [][ ~legacy /\ ~Rehashing =>
        ~legacy' /\ ~Rehashing' /\ password' >= password ]_credVars
=============================================================================
