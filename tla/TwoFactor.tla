------------------------------ MODULE TwoFactor ------------------------------
(***************************************************************************)
(* The second factor of one account: TwoFactorService and the checks of    *)
(* TwoFactorController and StepUpGuard that lead to it.                    *)
(*                                                                         *)
(* A call that is given a one-time code reads the UserTwoFactor row,       *)
(* checks the code against the secret it read, claims the code in Redis    *)
(* (SET NX with a time to live) and only then does what it was called for. *)
(* Calls interleave between these steps; a call that is refused (an audit  *)
(* row is written, and nothing else) or dies takes no further step.        *)
(*                                                                         *)
(* Time is counted in steps of 30 seconds, the period of a one-time code.  *)
(* A row, its secret and a set of backup codes are named by the call that  *)
(* made them; one backup code stands for the ten of its set.               *)
(***************************************************************************)
EXTENDS ApiCalls

CONSTANTS
  Drift,         (* steps a one-time code may be early or late (otplib)      *)
  ReplayTTL,     (* steps a claimed code is remembered: 90 s                 *)
  MaxLag,        (* steps a call may take from checking a code to claiming it*)
  EnrollTTL,     (* life of an enrolment: 10 min                             *)
  ChallengeTTL,  (* life of a login or step-up challenge: 5 min              *)
  StepUpTTL,     (* life of a verified step-up token: 15 min                 *)
  MaxTime        (* bound on the clock                                       *)

ASSUME TwoFactorAssumption ==
  /\ {Drift, ReplayTTL, MaxLag, EnrollTTL, ChallengeTTL, StepUpTTL, MaxTime} \subseteq Nat
  /\ 2 * Drift + MaxLag < ReplayTTL

VARIABLES
  now,           (* the clock                                                *)
  factor,        (* the UserTwoFactor row                                    *)
  enrolUntil,    (* expiry of the last enrolment token                       *)
  challenged,    (* expiry of the last challenge, 0: none was given          *)
  used,          (* expiry of a code's key in Redis, 0: never claimed        *)
  accepted,      (* how often a code has been accepted                       *)
  backup,        (* BackupCode rows of the factor                            *)
  spent,         (* how often a backup code has been accepted                *)
  granted,       (* 2fa_verified_at of the step-up tokens                    *)
  otp            (* local variables of the calls                             *)

rows == <<factor, backup, spent>>
redis == <<used, accepted>>
tokens == <<enrolUntil, challenged, granted>>
factorVars == <<now, rows, redis, tokens, otp>>

Steps == 0 .. MaxTime + Drift
Purposes == {"confirm", "login", "stepup", "regenerate", "disable"}
Factor == [id : Calls \cup {None}, secret : Calls \cup {None}, enabled : BOOLEAN,
           expires : Nat]
Otp == [at : {"start", "enroll", "claim", "claimed", "read", "delete", "spend",
              "renew", "passed", "done"},
        for : Purposes, secret : Calls \cup {None}, factor : Calls \cup {None},
        step : Nat, since : Nat, set : SUBSET Calls]

TwoFactorTypeOK ==
  /\ now \in Nat
  /\ factor \in Factor
  /\ enrolUntil \in Nat /\ challenged \in Nat
  /\ used \in [Calls \X Steps -> Nat]
  /\ accepted \in [Calls \X Steps -> Nat]
  /\ backup \in [Calls -> {"none", "unused", "used"}]
  /\ spent \in [Calls -> Nat]
  /\ granted \subseteq Nat
  /\ otp \in [Calls -> Otp]

NoFactor == [id |-> None, secret |-> None, enabled |-> FALSE, expires |-> 0]

NoCall == [at |-> "start", for |-> "login", secret |-> None, factor |-> None,
           step |-> 0, since |-> 0, set |-> {}]

(* What the calls of before have left of an enrolment.                     *)
EnrolledBy(before) ==
  /\ backup = [c \in Calls |-> IF c \in before THEN "unused" ELSE "none"]
  /\ otp = [c \in Calls |-> IF c \in before THEN [NoCall EXCEPT !.at = "done"] ELSE NoCall]

(* The account has no factor, or a call has enabled one and a challenge    *)
(* has just been given.                                                    *)
TwoFactorInit ==
  /\ now = 0
  /\ enrolUntil = 0 /\ granted = {}
  /\ used = [k \in Calls \X Steps |-> 0]
  /\ accepted = [k \in Calls \X Steps |-> 0]
  /\ spent = [c \in Calls |-> 0]
  /\ \/ factor = NoFactor /\ challenged = 0 /\ EnrolledBy({})
     \/ \E c \in Calls :
          /\ factor = [id |-> c, secret |-> c, enabled |-> TRUE, expires |-> 0]
          /\ challenged = ChallengeTTL
          /\ EnrolledBy({c})

-----------------------------------------------------------------------------
(* The call c goes on to a place.                                          *)
Goes(c, place) == otp' = [otp EXCEPT ![c].at = place]

(* The call c begins by reading the row.                                   *)
Begins(c, place) ==
  /\ otp[c].at = "start"
  /\ otp' = [otp EXCEPT ![c] = [@ EXCEPT !.at = place, !.factor = factor.id]]

(* The row is deleted, and its backup codes with it.                       *)
DropFactor ==
  /\ factor' = NoFactor
  /\ backup' = [c \in Calls |-> "none"]
  /\ UNCHANGED spent

-----------------------------------------------------------------------------
(* Enrolment *)

StartEnrollment(c) ==
  /\ ~factor.enabled
  /\ Begins(c, "enroll")
  /\ enrolUntil' = now + EnrollTTL
  /\ UNCHANGED <<now, rows, redis, challenged, granted>>

(* The upsert replaces the secret of whatever row there is now, and turns  *)
(* a factor that was enabled in the meantime off.                          *)
StoreSecret(c) ==
  /\ otp[c].at = "enroll"
  /\ factor' = [id |-> IF factor.id = None THEN c ELSE factor.id,
                secret |-> c, enabled |-> FALSE, expires |-> now + EnrollTTL]
  /\ Goes(c, "done")
  /\ UNCHANGED <<now, backup, spent, redis, tokens>>

(* The scheduled job that removes enrolments never confirmed.  The queue   *)
(* has a handler for it; nothing in the repository puts it there.          *)
CleanupExpiredEnrollments ==
  /\ factor.id # None /\ ~factor.enabled /\ factor.expires < now
  /\ DropFactor
  /\ UNCHANGED <<now, redis, tokens, otp>>

-----------------------------------------------------------------------------
(* One-time codes *)

Accepts(step) == now - Drift <= step /\ step <= now + Drift

Challenge ==
  /\ factor.enabled
  /\ challenged' = now + ChallengeTTL
  /\ UNCHANGED <<now, rows, redis, enrolUntil, granted, otp>>

(* The token that a call must bring along has not expired.                 *)
Entitled(purpose) ==
  CASE purpose = "confirm" -> now < enrolUntil
    [] purpose = "disable" -> TRUE
    [] OTHER -> now < challenged

CheckCode(c, purpose, step) ==
  /\ Entitled(purpose)
  /\ factor.id # None
  /\ factor.enabled = (purpose # "confirm")
  /\ Accepts(step)
  /\ otp[c].at = "start"
  /\ otp' = [otp EXCEPT ![c] = [@ EXCEPT !.at = "claim", !.for = purpose,
                                         !.factor = factor.id, !.secret = factor.secret,
                                         !.step = step, !.since = now]]
  /\ UNCHANGED <<now, rows, redis, tokens>>

Code(c) == <<otp[c].secret, otp[c].step>>
Accept(c) ==
  /\ used' = [used EXCEPT ![Code(c)] = now + ReplayTTL]
  /\ accepted' = [accepted EXCEPT ![Code(c)] = @ + 1]
  /\ Goes(c, "claimed")

(* A mutant: the key lives for one period.                                 *)
ClaimBriefly(c) ==
  /\ otp[c].at = "claim"
  /\ now >= used[Code(c)]
  /\ used' = [used EXCEPT ![Code(c)] = now + 1]
  /\ accepted' = [accepted EXCEPT ![Code(c)] = @ + 1]
  /\ Goes(c, "claimed")
  /\ UNCHANGED <<now, factor, backup, spent, tokens>>

(* checkReplay: one call gets to set the key, until it expires.            *)
Claim(c) ==
  /\ otp[c].at = "claim"
  /\ now >= used[Code(c)]
  /\ Accept(c)
  /\ UNCHANGED <<now, factor, backup, spent, tokens>>

Replayed(c) ==
  /\ otp[c].at = "claim"
  /\ now < used[Code(c)]
  /\ Goes(c, "done")
  /\ UNCHANGED <<now, rows, redis, tokens>>

Claimed(c, purpose) == otp[c].at = "claimed" /\ otp[c].for = purpose

(* The transaction of confirmEnrollment enables the row the account has    *)
(* now; its backup codes refer to the row that was read, so that the       *)
(* transaction fails if that row is gone.                                  *)
Enable(c) ==
  /\ Claimed(c, "confirm")
  /\ factor.id = otp[c].factor
  /\ factor' = [factor EXCEPT !.enabled = TRUE]
  /\ backup' = [backup EXCEPT ![c] = "unused"]
  /\ Goes(c, "done")
  /\ UNCHANGED <<now, spent, redis, tokens>>

(* verifyLogin has returned true: the controller goes on to issueTokens.   *)
PassLogin(c) ==
  /\ Claimed(c, "login")
  /\ Goes(c, "passed")
  /\ UNCHANGED <<now, rows, redis, tokens>>

(* verifyStepUp stamps the row, which must be there, and signs a token.    *)
GrantStepUp(c) ==
  /\ otp[c].at = "claimed" /\ otp[c].for \in {"stepup", "regenerate"}
  /\ factor.id # None
  /\ granted' = IF otp[c].for = "stepup" THEN granted \cup {now} ELSE granted
  /\ Goes(c, IF otp[c].for = "stepup" THEN "done" ELSE "read")
  /\ UNCHANGED <<now, rows, redis, enrolUntil, challenged>>

(* requireStepUpOrThrow and StepUpGuard: the account has no factor         *)
(* enabled, or the call brings a token of a recent verification.           *)
StepUpPassed == ~factor.enabled \/ \E at \in granted : now < at + StepUpTTL

-----------------------------------------------------------------------------
(* Disabling, and backup codes *)

ReadToDisable(c) ==
  /\ Claimed(c, "disable")
  /\ factor.enabled
  /\ Goes(c, "delete")
  /\ UNCHANGED <<now, rows, redis, tokens>>

Disable(c) ==
  /\ otp[c].at = "delete"
  /\ factor.id # None
  /\ DropFactor
  /\ Goes(c, "done")
  /\ UNCHANGED <<now, redis, tokens>>

(* verifyBackupCode reads the codes with the row and finds one unused.     *)
CheckBackup(c, g) ==
  /\ now < challenged
  /\ factor.enabled
  /\ backup[g] = "unused"
  /\ otp[c].at = "start"
  /\ otp' = [otp EXCEPT ![c] = [@ EXCEPT !.at = "spend", !.factor = factor.id,
                                         !.set = {g}]]
  /\ UNCHANGED <<now, rows, redis, tokens>>

(* The update is by id: it throws if the code has been deleted, and does   *)
(* not ask whether it has been used meanwhile.                             *)
SpendBackup(c) ==
  /\ otp[c].at = "spend"
  /\ \A g \in otp[c].set : backup[g] # "none"
  /\ backup' = [g \in Calls |-> IF g \in otp[c].set THEN "used" ELSE backup[g]]
  /\ spent' = [g \in Calls |-> IF g \in otp[c].set THEN spent[g] + 1 ELSE spent[g]]
  /\ Goes(c, "passed")
  /\ UNCHANGED <<now, factor, redis, tokens>>

(* regenerateBackupCodes, after its step-up: the transaction deletes the   *)
(* codes it sees; those that another one commits meanwhile stay.           *)
SeeBackups(c) ==
  /\ otp[c].at = "read"
  /\ factor.enabled
  /\ otp' = [otp EXCEPT ![c] = [@ EXCEPT !.at = "renew", !.factor = factor.id,
                                  !.set = {g \in Calls : backup[g] # "none"}]]
  /\ UNCHANGED <<now, rows, redis, tokens>>

(* A mutant: the codes are marked unused again instead of being replaced.  *)
ResetBackups(c) ==
  /\ otp[c].at = "renew"
  /\ factor.id = otp[c].factor
  /\ backup' = [g \in Calls |-> IF g \in otp[c].set THEN "unused" ELSE backup[g]]
  /\ Goes(c, "done")
  /\ UNCHANGED <<now, factor, spent, redis, tokens>>

RenewBackups(c) ==
  /\ otp[c].at = "renew"
  /\ factor.id = otp[c].factor
  /\ backup' = [g \in Calls |-> CASE g = c -> "unused"
                                  [] g \in otp[c].set \ {c} -> "none"
                                  [] OTHER -> backup[g]]
  /\ Goes(c, "done")
  /\ UNCHANGED <<now, factor, spent, redis, tokens>>

-----------------------------------------------------------------------------
(* A step of time; no call is longer than MaxLag between check and claim.  *)
Tick ==
  /\ now < MaxTime
  /\ \A c \in Calls : otp[c].at = "claim" => now < otp[c].since + MaxLag
  /\ now' = now + 1
  /\ UNCHANGED <<rows, redis, tokens, otp>>

FactorStep(c) ==
  \/ StoreSecret(c) \/ Claim(c) \/ Replayed(c) \/ Enable(c) \/ PassLogin(c)
  \/ GrantStepUp(c) \/ ReadToDisable(c) \/ Disable(c) \/ SpendBackup(c)
  \/ SeeBackups(c) \/ RenewBackups(c)

FactorCall(c) ==
  \/ StartEnrollment(c)
  \/ \E purpose \in Purposes, step \in Steps : CheckCode(c, purpose, step)
  \/ \E g \in Calls : CheckBackup(c, g)

TwoFactorNext ==
  \/ \E c \in Calls : FactorCall(c) \/ FactorStep(c)
  \/ CleanupExpiredEnrollments \/ Challenge \/ Tick

TwoFactorSpec == TwoFactorInit /\ [][TwoFactorNext]_factorVars

-----------------------------------------------------------------------------
(* Properties *)

(* A one-time code is accepted once, whatever it is used for and however   *)
(* calls overlap or time passes between check and claim: its key in Redis  *)
(* outlives the periods in which the code is valid.                        *)
OtpSingleUse == \A k \in Calls \X Steps : accepted[k] <= 1

(* A backup code that has been accepted is never again found unused,       *)
(* however logins, renewals, enrolments and disabling overlap: only calls  *)
(* that had read it before it was marked can be let in by it once more.    *)
SpentIsDead == \A g \in Calls : spent[g] > 0 => backup[g] # "unused"

(* "Verify a backup code and consume it (single-use)"                      *)
(* (two-factor.service.ts:267).                                            *)
BackupCodeSingleUse == \A g \in Calls : spent[g] <= 1
=============================================================================
