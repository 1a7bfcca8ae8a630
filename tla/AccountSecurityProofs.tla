------------------------- MODULE AccountSecurityProofs -------------------------
(* What is proved of the components holds of the account they make up:     *)
(* every step of AccountSecurity is a step of each component or leaves the *)
(* component's variables alone.                                            *)
EXTENDS AccountSecurity, SignInProofs

LEMMA StepsOfSessions ==
  ASSUME NEW c \in Calls, Call(c)
  PROVE  [SessionsNext]_sessionVars
  <1>1. CASE LoginDirectly(c) \/ LoginVerified(c)
    BY <1>1 DEF LoginDirectly, LoginVerified, SessionsNext
  <1>2. CASE LoginChallenged(c) \/ ChangeGuarded(c) \/ CredentialStep(c) \/ FactorStepOf(c)
             \/ Persist(c) \/ GiveUp(c)
    BY <1>2 DEF LoginChallenged, ChangeGuarded, CredentialStep, FactorStepOf, Persist, GiveUp
  <1>3. CASE EndsSessions(c)
    BY <1>3 DEF EndsSessions, SessionsNext
  <1>4. ASSUME NEW t \in 1..Len(login), RefreshElsewhere(c, t)
        PROVE [SessionsNext]_sessionVars
    BY <1>4 DEF RefreshElsewhere, SessionsNext
  <1>5. CASE IssueStep(c)
    BY <1>5 DEF IssueStep, SessionsNext
  <1>6. CASE BrowserRefresh(c)
    <2>1. Refresh(c, stored) /\ stored \in 1..Len(login)
      BY <1>6 DEF BrowserRefresh, Refresh
    <2> QED BY <2>1 DEF SessionsNext
  <1> QED BY <1>1, <1>2, <1>3, <1>4, <1>5, <1>6 DEF Call

LEMMA NextOfSessions == [Next]_vars => [SessionsNext]_sessionVars
  <1>1. RequestChallenge \/ BrowserLogout => UNCHANGED sessionVars
    BY DEF RequestChallenge, BrowserLogout
  <1>2. Time => [SessionsNext]_sessionVars
    BY DEF Time, SessionsNext
  <1>3. UNCHANGED vars => UNCHANGED sessionVars
    BY DEF vars
  <1> QED BY <1>1, <1>2, <1>3, StepsOfSessions DEF Next

LEMMA NextOfTwoFactor == [Next]_vars => [TwoFactorNext]_factorVars
  <1> SUFFICES ASSUME [Next]_vars PROVE [TwoFactorNext]_factorVars
    OBVIOUS
  <1>1. ASSUME NEW c \in Calls, FactorStepOf(c) PROVE TwoFactorNext
    BY <1>1 DEF FactorStepOf, TwoFactorNext
  <1>2. ASSUME NEW c \in Calls, LoginChallenged(c) \/ RequestChallenge PROVE TwoFactorNext
    BY <1>2 DEF LoginChallenged, RequestChallenge, TwoFactorNext
  <1>3. ASSUME NEW c \in Calls, Call(c), ~ FactorStepOf(c), ~ LoginChallenged(c)
        PROVE UNCHANGED factorVars
    BY <1>3 DEF Call, LoginDirectly, LoginVerified, ChangeGuarded, EndsSessions,
                RefreshElsewhere, CredentialStep, IssueStep, BrowserRefresh, Persist, GiveUp
  <1>4. Time => [TwoFactorNext]_factorVars
    BY DEF Time, TwoFactorNext
  <1>5. RequestChallenge => TwoFactorNext
    BY DEF RequestChallenge, TwoFactorNext
  <1>6. BrowserLogout \/ UNCHANGED vars => UNCHANGED factorVars
    BY DEF BrowserLogout, vars
  <1> QED BY <1>1, <1>2, <1>3, <1>4, <1>5, <1>6 DEF Next

LEMMA NextOfCredentials == [Next]_vars => [CredentialsNext]_credVars
  <1> SUFFICES ASSUME [Next]_vars PROVE [CredentialsNext]_credVars
    OBVIOUS
  <1>1. ASSUME NEW c \in Calls, ChangeGuarded(c) PROVE CredentialsNext
    BY <1>1 DEF ChangeGuarded, CredentialsNext
  <1>2. ASSUME NEW c \in Calls, CredentialStep(c) PROVE CredentialsNext
    BY <1>2 DEF CredentialStep, CredentialsNext
  <1>3. ASSUME NEW c \in Calls, Call(c), ~ ChangeGuarded(c), ~ CredentialStep(c)
        PROVE UNCHANGED credVars
    BY <1>3 DEF Call, LoginDirectly, LoginVerified, LoginChallenged, EndsSessions,
                RefreshElsewhere, FactorStepOf, IssueStep, BrowserRefresh, Persist, GiveUp
  <1>4. Time => [CredentialsNext]_credVars
    BY DEF Time, CredentialsNext
  <1>5. RequestChallenge \/ BrowserLogout \/ UNCHANGED vars => UNCHANGED credVars
    BY DEF RequestChallenge, BrowserLogout, vars
  <1> QED BY <1>1, <1>2, <1>3, <1>4, <1>5 DEF Next

(***************************************************************************)
(* The account implements its components                                   *)
(***************************************************************************)

(* The tokens of an account go through Sessions, however the calls are led *)
(* through the password and the second factor first.                       *)
THEOREM ImplementsSessions == Spec => SessionsSpec
  <1>1. Init => SessionsInit
    BY DEF Init
  <1> QED BY <1>1, NextOfSessions, PTL DEF Spec, SessionsSpec

THEOREM ImplementsTwoFactor == Spec => TwoFactorSpec
  <1>1. Init => TwoFactorInit
    BY DEF Init
  <1> QED BY <1>1, NextOfTwoFactor, PTL DEF Spec, TwoFactorSpec

THEOREM ImplementsCredentials == Spec => CredentialsSpec
  <1>1. Init => CredentialsInit
    BY DEF Init
  <1> QED BY <1>1, NextOfCredentials, PTL DEF Spec, CredentialsSpec

(* One of each login, ended for good, within the cap: whatever is going on *)
(* in the rest of the account.                                             *)
THEOREM AccountSessionsSafe == Spec => [](OneSessionPerLogin /\ EndedStaysEnded /\ SessionCap)
  BY ImplementsSessions, RotationNeverForks, EndedForGood, CapHolds, PTL

(* No one-time code of the account is accepted twice, for whichever of the *)
(* five purposes.                                                          *)
THEOREM AccountCodesSingleUse == Spec => []OtpSingleUse
  BY ImplementsTwoFactor, CodesAreSingleUse, PTL

(***************************************************************************)
(* Leaving the $wp$ hash                                                   *)
(***************************************************************************)

(* No password is in use, or remembered by a sign-in, but one that was set. *)
PasswordInv ==
  /\ CredentialsTypeOK
  /\ password <= latest
  /\ \A c \in Calls : cred[c].seen <= latest

Places == {"valid", "guard", "write", "revoke", "move", "mail", "clear", "consume", "done"}

(* The ways in which a call goes on.                                       *)
At(x, p) == [x EXCEPT !.at = p]
Seen(x, p, n) == [x EXCEPT !.at = p, !.seen = n]
Linked(x, p, l) == [x EXCEPT !.at = p, !.link = l]

LEMMA CredAt ==
  ASSUME NEW x \in Cred, NEW p \in Places
  PROVE  At(x, p) \in Cred /\ At(x, p).seen = x.seen /\ At(x, p).at = p
  BY DEF Cred, Places, At

LEMMA CredSeen ==
  ASSUME NEW x \in Cred, NEW p \in {"rehash", "valid"}, NEW n \in Nat
  PROVE  Seen(x, p, n) \in Cred /\ Seen(x, p, n).seen = n /\ Seen(x, p, n).at = p
  BY DEF Cred, Seen

LEMMA CredLink ==
  ASSUME NEW x \in Cred, NEW p \in {"reset", "confirm"}, NEW l \in Calls
  PROVE  /\ Linked(x, p, l) \in Cred
         /\ Linked(x, p, l).seen = x.seen /\ Linked(x, p, l).at = p
  BY DEF Cred, Linked

(* What a step does to the local variables of the one call that takes it.  *)
LEMMA CredMoves ==
  ASSUME PasswordInv, NEW c \in Calls,
         NEW x \in Cred, cred' = [cred EXCEPT ![c] = x], x.seen <= latest',
         password' \in Nat, latest' \in Nat, latest' >= latest, password' <= latest',
         legacy' \in BOOLEAN, address' \in Nat, verified' \in BOOLEAN,
         links' \subseteq [id : Calls, type : {"EMAIL_VERIFICATION", "PASSWORD_RESET"}]
  PROVE  PasswordInv'
  <1>1. cred' \in [Calls -> Cred] /\ \A d \in Calls : cred[d].seen \in Nat /\ x.seen \in Nat
    BY DEF PasswordInv, CredentialsTypeOK, Cred
  <1>2. \A d \in Calls : cred'[d].seen <= latest'
    <2> SUFFICES ASSUME NEW d \in Calls PROVE cred'[d].seen <= latest'
      OBVIOUS
    <2>1. CASE d = c
      BY <2>1 DEF PasswordInv, CredentialsTypeOK
    <2>2. CASE d # c
      <3>1. cred'[d] = cred[d]
        BY <2>2 DEF PasswordInv, CredentialsTypeOK
      <3>2. cred[d].seen <= latest /\ latest \in Nat
        BY DEF PasswordInv, CredentialsTypeOK
      <3> QED BY <1>1, <3>1, <3>2
    <2> QED BY <2>1, <2>2
  <1> QED BY <1>1, <1>2 DEF PasswordInv, CredentialsTypeOK

(* What one step of a call may do, apart from the types.                   *)
Settled == ~legacy /\ ~Rehashing => ~legacy' /\ ~Rehashing' /\ password' >= password

LEMMA Onwards ==
  ASSUME PasswordInv, NEW c \in Calls,
         NEW p \in Places, To(c, p),
         password' \in Nat, latest' \in Nat, latest' >= latest, password' <= latest',
         legacy' \in BOOLEAN, address' \in Nat, verified' \in BOOLEAN,
         links' \subseteq [id : Calls, type : {"EMAIL_VERIFICATION", "PASSWORD_RESET"}]
  PROVE  PasswordInv' /\ (Rehashing' => Rehashing)
  <1> DEFINE x == At(cred[c], p)
  <1>1. cred[c] \in Cred /\ cred[c].seen <= latest /\ latest \in Nat /\ cred[c].seen \in Nat
    BY DEF PasswordInv, CredentialsTypeOK, Cred
  <1>2. x \in Cred /\ x.seen = cred[c].seen /\ x.at = p
    BY <1>1, CredAt
  <1>3. cred' = [cred EXCEPT ![c] = x]
    BY DEF To, At
  <1>m. x.seen <= latest'
    BY <1>1, <1>2
  <1> HIDE DEF x
  <1>4. PasswordInv'
    BY <1>2, <1>3, <1>m, CredMoves
  <1>5. \A d \in Calls : cred'[d].at = "rehash" => cred[d].at = "rehash"
    BY <1>2, <1>3 DEF PasswordInv, CredentialsTypeOK, Places
  <1> QED BY <1>4, <1>5 DEF Rehashing

LEMMA CredentialsStep ==
  PasswordInv /\ [CredentialsNext]_credVars => PasswordInv' /\ Settled
  <1> SUFFICES ASSUME PasswordInv, [CredentialsNext]_credVars PROVE PasswordInv' /\ Settled
    OBVIOUS
  <1>0. /\ password \in Nat /\ latest \in Nat /\ password <= latest /\ address \in Nat
        /\ legacy \in BOOLEAN /\ verified \in BOOLEAN
        /\ links \subseteq [id : Calls, type : {"EMAIL_VERIFICATION", "PASSWORD_RESET"}]
        /\ cred \in [Calls -> Cred]
        /\ \A c \in Calls : cred[c] \in Cred /\ cred[c].seen <= latest /\ cred[c].seen \in Nat
    BY DEF PasswordInv, CredentialsTypeOK, Cred
  <1>1. ASSUME NEW c \in Calls, Validate(c) PROVE PasswordInv' /\ Settled
    <2> DEFINE p == IF legacy THEN "rehash" ELSE "valid"
               x == Seen(cred[c], p, password)
    <2>1. p \in {"rehash", "valid"} /\ (~legacy => p = "valid")
      OBVIOUS
    <2>2. cred' = [cred EXCEPT ![c] = x] /\ UNCHANGED <<user, links>>
      BY <1>1 DEF Validate, Seen
    <2> HIDE DEF p
    <2>3. x \in Cred /\ x.seen = password /\ x.at = p
      BY <1>0, <2>1, CredSeen
    <2> HIDE DEF x
    <2>4. PasswordInv'
      <3>1. /\ password' = password /\ latest' = latest /\ legacy' = legacy
            /\ address' = address /\ verified' = verified /\ links' = links
        BY <2>2 DEF user
      <3>2. latest' >= latest /\ password' <= latest' /\ x.seen <= latest'
        BY <1>0, <2>3, <3>1
      <3> QED BY <1>0, <2>2, <2>3, <3>1, <3>2, CredMoves
    <2>5. Settled
      BY <1>0, <2>1, <2>2, <2>3 DEF Settled, Rehashing, user
    <2> QED BY <2>4, <2>5
  <1>2. ASSUME NEW c \in Calls, Rehash(c) PROVE PasswordInv' /\ Settled
    <2>1. /\ To(c, "valid") /\ password' = cred[c].seen /\ legacy' = FALSE
          /\ UNCHANGED <<latest, address, verified, links>>
      BY <1>2 DEF Rehash
    <2>2. latest' >= latest /\ password' <= latest' /\ password' \in Nat
      BY <1>0, <2>1
    <2>3. PasswordInv'
      BY <1>0, <2>1, <2>2, Onwards DEF Places
    <2>4. Rehashing
      BY <1>2 DEF Rehash, Rehashing
    <2> QED BY <2>3, <2>4 DEF Settled
  (* Calls that go on and change no password.                              *)
  <1>3. ASSUME NEW c \in Calls,
               NEW p \in Places, To(c, p), UNCHANGED <<password, latest, legacy>>,
               address' \in Nat, verified' \in BOOLEAN,
               links' \subseteq [id : Calls, type : {"EMAIL_VERIFICATION", "PASSWORD_RESET"}]
        PROVE PasswordInv' /\ Settled
    <2>1. latest' >= latest /\ password' <= latest' /\ password' >= password
      BY <1>0, <1>3
    <2>2. PasswordInv' /\ (Rehashing' => Rehashing)
      BY <1>0, <1>3, <2>1, Onwards
    <2> QED BY <1>3, <2>1, <2>2 DEF Settled
  <1>4. ASSUME NEW c \in Calls, AskChange(c) PROVE PasswordInv' /\ Settled
    BY <1>0, <1>3, <1>4 DEF AskChange, user, Places
  <1>5. ASSUME NEW c \in Calls, PassGuard(c) PROVE PasswordInv' /\ Settled
    <2>1. /\ UNCHANGED <<user, links>>
          /\ \E p \in {"write", "move"} : To(c, p)
      BY <1>5 DEF PassGuard
    <2>2. /\ UNCHANGED <<password, latest, legacy>>
          /\ address' \in Nat /\ verified' \in BOOLEAN
          /\ links' \subseteq [id : Calls, type : {"EMAIL_VERIFICATION", "PASSWORD_RESET"}]
      BY <1>0, <2>1 DEF user
    <2> QED BY <1>3, <2>1, <2>2 DEF Places
  <1>6. ASSUME NEW c \in Calls, NEW p \in {"revoke", "clear"},
               To(c, p), SetPassword, links' = links
        PROVE PasswordInv' /\ Settled
    <2>1. /\ latest' = latest + 1 /\ password' = latest + 1 /\ legacy' = FALSE
          /\ address' = address /\ verified' = verified
      BY <1>6 DEF SetPassword
    <2>2. /\ latest' \in Nat /\ password' \in Nat /\ latest' >= latest /\ password' <= latest'
          /\ password' >= password
      BY <1>0, <2>1
    <2>3. PasswordInv' /\ (Rehashing' => Rehashing)
      BY <1>0, <1>6, <2>1, <2>2, Onwards DEF Places
    <2> QED BY <2>1, <2>2, <2>3 DEF Settled
  <1>7. ASSUME NEW c \in Calls, WritePassword(c) \/ WriteReset(c) PROVE PasswordInv' /\ Settled
    BY <1>6, <1>7 DEF WritePassword, WriteReset
  <1>8. ASSUME NEW c \in Calls, WriteEmail(c) \/ WriteVerified(c) PROVE PasswordInv' /\ Settled
    <2>1. CASE WriteEmail(c)
      <3>1. address' \in Nat
        BY <1>0, <2>1 DEF WriteEmail
      <3> QED BY <1>0, <1>3, <2>1, <3>1 DEF WriteEmail, Places
    <2>2. CASE WriteVerified(c)
      BY <1>0, <1>3, <2>2 DEF WriteVerified, Places
    <2> QED BY <1>8, <2>1, <2>2
  <1>9. ASSUME NEW c \in Calls,
               \/ MailVerification(c) \/ ForgotPassword(c) \/ ClearResets(c)
               \/ ConsumeVerification(c)
        PROVE PasswordInv' /\ Settled
    <2>1. links' \subseteq [id : Calls, type : {"EMAIL_VERIFICATION", "PASSWORD_RESET"}]
      BY <1>0, <1>9 DEF MailVerification, ForgotPassword, ClearResets, ConsumeVerification
    <2>2. To(c, "done") /\ UNCHANGED user
      BY <1>9 DEF MailVerification, ForgotPassword, ClearResets, ConsumeVerification
    <2>3. UNCHANGED <<password, latest, legacy>> /\ address' \in Nat /\ verified' \in BOOLEAN
      BY <1>0, <2>2 DEF user
    <2> QED BY <1>3, <2>1, <2>2, <2>3 DEF Places
  <1>10. ASSUME NEW c \in Calls, NEW l \in links, NEW p \in {"reset", "confirm"},
                NEW type, Open(c, l, type, p)
         PROVE PasswordInv' /\ Settled
    <2> DEFINE x == Linked(cred[c], p, l.id)
    <2>1. cred' = [cred EXCEPT ![c] = x] /\ UNCHANGED <<user, links>>
      BY <1>10 DEF Open, Linked
    <2>2. x \in Cred /\ x.seen = cred[c].seen /\ x.at = p
      <3>1. l.id \in Calls
        BY <1>0
      <3>2. cred[c] \in Cred
        BY <1>0
      <3> HIDE DEF x
      <3>3. x = Linked(cred[c], p, l.id)
        BY DEF x
      <3> QED BY <3>1, <3>2, <3>3, CredLink
    <2> HIDE DEF x
    <2>3. /\ password' = password /\ latest' = latest /\ legacy' = legacy
          /\ address' = address /\ verified' = verified /\ links' = links
      BY <2>1 DEF user
    <2>4. latest' >= latest /\ password' <= latest' /\ x.seen <= latest' /\ password' >= password
      BY <1>0, <2>2, <2>3
    <2>5. PasswordInv'
      BY <1>0, <2>1, <2>2, <2>3, <2>4, CredMoves
    <2>6. Rehashing' => Rehashing
      BY <1>0, <2>1, <2>2 DEF Rehashing
    <2> QED BY <2>3, <2>4, <2>5, <2>6 DEF Settled
  <1>11. ASSUME NEW c \in Calls, NEW l \in links, OpenReset(c, l) \/ OpenVerification(c, l)
         PROVE PasswordInv' /\ Settled
    BY <1>10, <1>11 DEF OpenReset, OpenVerification
  <1>12. ASSUME NEW l \in links, ExpireLink(l) PROVE PasswordInv' /\ Settled
    BY <1>0, <1>12 DEF ExpireLink, user, PasswordInv, CredentialsTypeOK, Settled, Rehashing
  <1>13. CASE UNCHANGED credVars
    BY <1>0, <1>13 DEF credVars, user, PasswordInv, CredentialsTypeOK, Settled, Rehashing
  <1> QED BY <1>1, <1>2, <1>4, <1>5, <1>7, <1>8, <1>9, <1>11, <1>12, <1>13
          DEF CredentialsNext, LinkStep

LEMMA PasswordInit == CredentialsInit => PasswordInv
  <1> SUFFICES ASSUME CredentialsInit PROVE PasswordInv
    OBVIOUS
  <1>1. \A c \in Calls : /\ [at |-> "start", seen |-> 0, link |-> c] \in Cred
                         /\ [at |-> "start", seen |-> 0, link |-> c].seen = 0
    BY DEF Cred
  <1>2. cred \in [Calls -> Cred] /\ \A c \in Calls : cred[c].seen = 0
    BY <1>1 DEF CredentialsInit
  <1>3. CredentialsTypeOK
    BY <1>2 DEF CredentialsInit, CredentialsTypeOK
  <1>4. password <= latest /\ \A c \in Calls : cred[c].seen <= latest
    <2>1. password = 0 /\ latest = 0 /\ 0 <= 0
      BY DEF CredentialsInit
    <2> QED BY <1>2, <2>1
  <1> QED BY <1>3, <1>4 DEF PasswordInv

(* Sign-ins cannot take a change or a reset of the password back once the  *)
(* account has left its $wp$ hash and no sign-in that read it is left.     *)
THEOREM PasswordsSettle == Spec => MigrationSettles
  <1>1. Settled <=> (~legacy /\ ~Rehashing => ~legacy' /\ ~Rehashing' /\ password' >= password)
    BY DEF Settled
  <1>2. CredentialsSpec => MigrationSettles
    BY <1>1, PasswordInit, CredentialsStep, PTL DEF CredentialsSpec, MigrationSettles
  <1> QED BY <1>2, ImplementsCredentials, PTL

(***************************************************************************)
(* The browser's token                                                     *)
(***************************************************************************)

(* A token that the server still has, or no longer has for a reason other  *)
(* than its rotation.                                                      *)
Alive(t) == t \in refresh \cup pruned \/ login[t] \in ended

(* The calls whose answer will bring the browser a token.                  *)
Fresh(x) == fetch[x] = "waiting" /\ session[x].at \in {"list", "prune", "answered"}

BrowserTypeOK ==
  /\ stored \in 0..Len(login)
  /\ fetch \in [Calls -> {"other", "waiting", "done"}]
  /\ pruned \subseteq 1..Len(login)
  /\ \A c \in Calls : session[c].surplus \subseteq 1..Len(login)

(* The browser's calls have begun, and go on with logins of its own.       *)
OwnLogins ==
  /\ stored # 0 => fetch[login[stored]] # "other"
  /\ \A x \in Calls : fetch[x] # "other" =>
       session[x].at # "start" /\ fetch[session[x].login] # "other"

(* A token on its way to the browser is nobody else's.                     *)
OnItsWay(x, t) ==
  /\ t \in 1..Len(login) /\ login[t] = session[x].login
  /\ t # stored /\ Alive(t)
  /\ \A c \in Calls : session[c].at = "delete" => session[c].token # t

FreshTokens ==
  /\ \A x \in Calls : Fresh(x) => OnItsWay(x, session[x].token)
  /\ \A x, y \in Calls : Fresh(x) /\ Fresh(y) /\ x # y =>
       session[x].token # session[y].token

(* The token kept is alive, or a refresh of the browser's is under way,    *)
(* whose end will replace or forget it.                                    *)
StoredLives ==
  stored # 0 =>
    \/ Alive(stored)
    \/ \E c \in Calls : fetch[c] = "waiting" /\ session[c].login # c

(* The calls about to delete a token are refreshes, and the browser waits  *)
(* for those that delete its own.                                          *)
RotationAwaited ==
  \A c \in Calls : session[c].at = "delete" =>
    /\ session[c].login # c
    /\ session[c].token = stored => fetch[c] = "waiting"

BrowserInv ==
  /\ RotationInv /\ BrowserTypeOK /\ OwnLogins /\ FreshTokens
  /\ StoredLives /\ RotationAwaited

(* A step of one call that stores no token, here or at the server.         *)
LEMMA BrowserMoves ==
  ASSUME BrowserInv, RotationInv', NEW c \in Calls, NEW x \in Session,
         NEW w \in {"other", "waiting", "done"},
         session' = [session EXCEPT ![c] = x], fetch' = [fetch EXCEPT ![c] = w],
         login' = login, stored' = stored, pruned' \subseteq 1..Len(login),
         x.at # "start", x.surplus \subseteq 1..Len(login),
         fetch[c] # "other" => w # "other" /\ x.login = session[c].login,
         w # "other" => x.login = c \/ fetch[x.login] # "other",
         fetch[c] = "waiting" /\ session[c].login # c => w = "waiting",
         x.at \in {"list", "prune", "answered"} /\ w = "waiting" =>
           Fresh(c) /\ x.token = session[c].token,
         x.at = "delete" =>
           /\ x.login # c /\ x.token = stored => w = "waiting"
           /\ x.login # c
           /\ \A y \in Calls : Fresh(y) => session[y].token # x.token,
         \A t \in 1..Len(login) : Alive(t) =>
           Alive(t)' \/ (session[c].at = "delete" /\ session[c].token = t)
  PROVE  BrowserInv'
  <1>1. /\ session \in [Calls -> Session] /\ fetch \in [Calls -> {"other", "waiting", "done"}]
        /\ login \in Seq(Calls) /\ Len(login) \in Nat /\ stored \in 0..Len(login)
    BY DEF BrowserInv, RotationInv, SessionsTypeOK, BrowserTypeOK
  <1>2. /\ session'[c] = x /\ fetch'[c] = w
        /\ \A d \in Calls \ {c} : session'[d] = session[d] /\ fetch'[d] = fetch[d]
        /\ \A d \in Calls : session[d].login \in Calls
        /\ \A t \in 1..Len(login) : login[t] \in Calls
    BY <1>1 DEF Session
  <1>3. BrowserTypeOK'
    BY <1>1, <1>2 DEF BrowserInv, BrowserTypeOK
  <1>4. \A d \in Calls : fetch[d] # "other" => fetch'[d] # "other"
    BY <1>2
  <1>5. OwnLogins'
    <2>1. stored # 0 => fetch'[login[stored]] # "other"
      BY <1>1, <1>2, <1>4 DEF BrowserInv, OwnLogins
    <2>2. \A d \in Calls : fetch'[d] # "other" =>
            session'[d].at # "start" /\ fetch'[session'[d].login] # "other"
      <3>1. x.login \in Calls
        BY DEF Session
      <3> QED BY <1>2, <1>4, <3>1 DEF BrowserInv, OwnLogins
    <2> QED BY <2>1, <2>2 DEF OwnLogins
  <1>6. \A d \in Calls : Fresh(d)' => Fresh(d) /\ session'[d].token = session[d].token
                                      /\ session'[d].login = session[d].login
    BY <1>2 DEF Fresh
  <1>7. FreshTokens'
    <2>1. ASSUME NEW y \in Calls, Fresh(y)', NEW t, t = session'[y].token
          PROVE  OnItsWay(y, t)'
      <3>1. Fresh(y) /\ session[y].token = t /\ session'[y].login = session[y].login
        BY <1>6, <2>1
      <3>2. /\ t \in 1..Len(login) /\ login[t] = session[y].login /\ t # stored /\ Alive(t)
            /\ \A d \in Calls : session[d].at = "delete" => session[d].token # t
        BY <3>1 DEF BrowserInv, FreshTokens, OnItsWay
      <3>3. Alive(t)'
        BY <3>2
      <3>4. \A d \in Calls : session'[d].at = "delete" => session'[d].token # t
        BY <1>2, <3>1, <3>2
      <3> QED BY <3>1, <3>2, <3>3, <3>4 DEF OnItsWay
    <2>2. \A y, z \in Calls : Fresh(y)' /\ Fresh(z)' /\ y # z =>
            session'[y].token # session'[z].token
      BY <1>6 DEF BrowserInv, FreshTokens
    <2> QED BY <2>1, <2>2 DEF FreshTokens
  <1>8. \A d \in Calls : fetch[d] = "waiting" /\ session[d].login # d =>
                           fetch'[d] = "waiting" /\ session'[d].login # d
    BY <1>2
  <1>9. StoredLives'
    <2>1. ASSUME stored # 0
          PROVE  Alive(stored)' \/ \E d \in Calls : fetch'[d] = "waiting" /\ session'[d].login # d
      <3>1. CASE Alive(stored) /\ ~Alive(stored)'
        <4>1. session[c].at = "delete" /\ session[c].token = stored
          BY <1>1, <2>1, <3>1
        <4>2. fetch[c] = "waiting" /\ session[c].login # c
          BY <4>1 DEF BrowserInv, RotationAwaited
        <4> QED BY <1>8, <4>2
      <3>2. CASE ~Alive(stored)
        BY <1>8, <2>1, <3>2 DEF BrowserInv, StoredLives
      <3> QED BY <3>1, <3>2
    <2> QED BY <2>1 DEF StoredLives
  <1>10. RotationAwaited'
    BY <1>2 DEF BrowserInv, RotationAwaited
  <1> QED BY <1>3, <1>5, <1>7, <1>9, <1>10 DEF BrowserInv

LEMMA BrowserUntouched ==
  ASSUME BrowserInv, RotationInv', UNCHANGED <<refresh, login, ended, session, browserVars>>
  PROVE  BrowserInv'
  <1>1. BrowserTypeOK'
    BY DEF BrowserInv, BrowserTypeOK, browserVars
  <1>2. OwnLogins' /\ StoredLives' /\ RotationAwaited'
    BY DEF BrowserInv, OwnLogins, StoredLives, RotationAwaited, Alive, browserVars
  <1>3. FreshTokens'
    BY DEF BrowserInv, FreshTokens, OnItsWay, Fresh, Alive, browserVars
  <1> QED BY <1>1, <1>2, <1>3 DEF BrowserInv

LEMMA BrowserSignIn ==
  ASSUME BrowserInv, RotationInv', NEW c \in Calls, SignIn(c), AskedFrom(c),
         UNCHANGED <<stored, pruned>>
  PROVE  BrowserInv'
  <1> DEFINE x == [session[c] EXCEPT !.at = "create"]
  <1>1. session[c] \in Session /\ session[c].at = "start" /\ session[c].login = c
    BY DEF SignIn, BrowserInv, RotationInv, SessionsTypeOK, LoginsInv
  <1>2. /\ x \in Session /\ x.at = "create" /\ x.login = c
        /\ x.surplus = session[c].surplus
    BY <1>1 DEF Session, Issuing
  <1>3. PICK w \in {"other", "waiting"} : fetch' = [fetch EXCEPT ![c] = w]
    BY DEF AskedFrom
  <1>4. /\ session' = [session EXCEPT ![c] = x]
        /\ UNCHANGED <<refresh, login, ended, stored, pruned>>
    BY DEF SignIn
  <1>5. fetch[c] = "other"
    BY <1>1 DEF BrowserInv, OwnLogins, BrowserTypeOK
  <1>6. pruned' \subseteq 1..Len(login) /\ session[c].surplus \subseteq 1..Len(login)
    BY <1>4 DEF BrowserInv, BrowserTypeOK
  <1>7. \A t \in 1..Len(login) : Alive(t) => Alive(t)'
    BY <1>4 DEF Alive
  <1> HIDE DEF x
  <1> QED BY <1>2, <1>3, <1>4, <1>5, <1>6, <1>7, BrowserMoves

(* A refresh with a token t: of another client, or of the browser, which   *)
(* then waits for the answer.                                              *)
LEMMA BrowserRefreshes ==
  ASSUME BrowserInv, RotationInv', NEW c \in Calls, NEW t \in 1..Len(login), Refresh(c, t),
         \/ fetch[login[t]] = "other" /\ UNCHANGED fetch
         \/ t = stored /\ fetch' = [fetch EXCEPT ![c] = "waiting"],
         UNCHANGED <<stored, pruned>>
  PROVE  BrowserInv'
  <1> DEFINE x == [at |-> IF Usable(t) THEN "delete" ELSE "failed",
                   token |-> t, login |-> login[t], surplus |-> {}]
             w == IF t = stored /\ fetch' # fetch THEN "waiting" ELSE "other"
  <1>1. /\ session[c] \in Session /\ session[c].at = "start" /\ fetch[c] = "other"
        /\ stored \in 0..Len(login) /\ fetch \in [Calls -> {"other", "waiting", "done"}]
        /\ login[t] \in Calls /\ t \in Nat
    BY DEF Refresh, BrowserInv, RotationInv, SessionsTypeOK, OwnLogins, BrowserTypeOK
  <1>2. /\ x \in Session /\ x.at \in {"delete", "failed"} /\ x.login = login[t]
        /\ x.token = t /\ x.surplus = {}
    BY <1>1 DEF Session
  <1>3. /\ session' = [session EXCEPT ![c] = x]
        /\ UNCHANGED <<refresh, login, ended, stored, pruned>>
    BY DEF Refresh
  <1>4. login[t] # c
    <2>1. session[login[t]].at # "start"
      BY DEF BrowserInv, RotationInv, LoginsInv, SessionsTypeOK
    <2> QED BY <1>1, <2>1
  <1>5. /\ fetch' = [fetch EXCEPT ![c] = w]
        /\ w # "other" => t = stored
        /\ t = stored => w = "waiting"
    <2>1. t = stored => fetch[login[t]] # "other"
      BY <1>1 DEF BrowserInv, OwnLogins
    <2>2. CASE fetch[login[t]] = "other" /\ UNCHANGED fetch
      BY <1>1, <2>1, <2>2
    <2>3. CASE t = stored /\ fetch' = [fetch EXCEPT ![c] = "waiting"]
      <3>1. fetch'[c] = "waiting"
        BY <1>1, <2>3
      <3>2. fetch' # fetch
        BY <1>1, <3>1
      <3> QED BY <2>3, <3>2
    <2> QED BY <2>2, <2>3
  <1>6. w # "other" => fetch[x.login] # "other"
    BY <1>1, <1>2, <1>5 DEF BrowserInv, OwnLogins
  <1>7. \A y \in Calls : Fresh(y) => session[y].token # t
    <2> SUFFICES ASSUME NEW y \in Calls, Fresh(y), session[y].token = t PROVE FALSE
      OBVIOUS
    <2>1. t # stored /\ login[t] = session[y].login /\ fetch[y] # "other"
      BY DEF BrowserInv, FreshTokens, OnItsWay, Fresh
    <2>2. fetch[login[t]] # "other"
      BY <2>1 DEF BrowserInv, OwnLogins
    <2> QED BY <2>1, <2>2
  <1>8. pruned' \subseteq 1..Len(login)
    BY <1>3 DEF BrowserInv, BrowserTypeOK
  <1>9. \A s \in 1..Len(login) : Alive(s) => Alive(s)'
    BY <1>3 DEF Alive
  <1>10. w \in {"other", "waiting", "done"}
    OBVIOUS
  <1> HIDE DEF x, w
  <1> QED BY <1>1, <1>2, <1>3, <1>4, <1>5, <1>6, <1>7, <1>8, <1>9, <1>10, BrowserMoves

LEMMA BrowserEnds ==
  ASSUME BrowserInv, RotationInv', NEW c \in Calls, EndSessions(c), UNCHANGED browserVars
  PROVE  BrowserInv'
  <1> DEFINE x == [session[c] EXCEPT !.at = "answered"]
  <1>1. /\ session[c] \in Session /\ session[c].at = "start" /\ fetch[c] = "other"
        /\ fetch \in [Calls -> {"other", "waiting", "done"}]
    BY DEF EndSessions, BrowserInv, RotationInv, SessionsTypeOK, OwnLogins, BrowserTypeOK
  <1>2. /\ x \in Session /\ x.at = "answered" /\ x.login = session[c].login
        /\ x.surplus = session[c].surplus
    BY <1>1 DEF Session
  <1>3. /\ session' = [session EXCEPT ![c] = x] /\ login' = login /\ refresh' = {}
        /\ ended' = ended \cup Endable /\ UNCHANGED <<stored, fetch, pruned>>
    BY DEF EndSessions, browserVars
  <1>4. fetch' = [fetch EXCEPT ![c] = "other"]
    BY <1>1, <1>3
  <1>5. pruned' \subseteq 1..Len(login) /\ session[c].surplus \subseteq 1..Len(login)
    BY <1>3 DEF BrowserInv, BrowserTypeOK
  <1>6. \A t \in 1..Len(login) : Alive(t) => Alive(t)'
    <2> SUFFICES ASSUME NEW t \in 1..Len(login), t \in refresh PROVE login[t] \in Endable
      BY <1>3 DEF Alive
    <2>1. login[t] \in Calls /\ t \in DOMAIN login
      BY DEF BrowserInv, RotationInv, SessionsTypeOK
    <2>2. \A d \in Calls : session[d].at = "create" => session[d].login # login[t]
      BY DEF BrowserInv, RotationInv, OneSessionPerLogin
    <2> QED BY <2>1, <2>2 DEF Endable
  <1> HIDE DEF x
  <1> QED BY <1>1, <1>2, <1>3, <1>4, <1>5, <1>6, BrowserMoves

(* Rotation deletes no token that the browser has or will have, but one    *)
(* that it waits to have replaced; the cap deletes none unnoticed.         *)
LEMMA BrowserIssues ==
  ASSUME BrowserInv, RotationInv', NEW c \in Calls, Rotate(c) \/ List(c) \/ Prune(c),
         pruned' = pruned \cup (IF session[c].at = "prune" THEN session[c].surplus ELSE {}),
         UNCHANGED <<stored, fetch>>
  PROVE  BrowserInv'
  <1>0. /\ login' = login /\ ended' = ended
        /\ \/ session[c].at = "delete" /\ refresh' = refresh \ {session[c].token}
           \/ session[c].at = "list" /\ refresh' = refresh
           \/ session[c].at = "prune" /\ refresh' = refresh \ session[c].surplus
    <2>1. CASE Rotate(c)
      BY <2>1 DEF Rotate
    <2>2. CASE List(c)
      BY <2>2, ListMoves DEF BrowserInv, RotationInv
    <2>3. CASE Prune(c)
      BY <2>3 DEF Prune
    <2> QED BY <2>1, <2>2, <2>3
  <1>1. /\ session[c] \in Session /\ session \in [Calls -> Session]
        /\ fetch \in [Calls -> {"other", "waiting", "done"}]
        /\ session[c].surplus \subseteq 1..Len(login) /\ pruned \subseteq 1..Len(login)
        /\ refresh \subseteq 1..Len(login) /\ SessionsTypeOK
    BY DEF BrowserInv, RotationInv, SessionsTypeOK, BrowserTypeOK
  <1>2. fetch' = [fetch EXCEPT ![c] = fetch[c]] /\ fetch[c] \in {"other", "waiting", "done"}
    BY <1>1
  <1>3. pruned' \subseteq 1..Len(login)
    BY <1>1
  <1>4. PICK x \in Session :
          /\ session' = [session EXCEPT ![c] = x]
          /\ x.login = session[c].login /\ x.token = session[c].token
          /\ x.surplus \subseteq 1..Len(login)
          /\ x.at \in {"create", "failed", "prune", "answered"}
          /\ x.at \in {"prune", "answered"} => session[c].at \in {"list", "prune"}
    <2>1. ASSUME NEW p \in {"create", "failed", "answered"},
                 session' = [session EXCEPT ![c].at = p],
                 p = "answered" => session[c].at \in {"list", "prune"}
          PROVE  \E x \in Session :
                   /\ session' = [session EXCEPT ![c] = x]
                   /\ x.login = session[c].login /\ x.token = session[c].token
                   /\ x.surplus \subseteq 1..Len(login)
                   /\ x.at \in {"create", "failed", "prune", "answered"}
                   /\ x.at \in {"prune", "answered"} => session[c].at \in {"list", "prune"}
      <3> DEFINE x == [session[c] EXCEPT !.at = p]
      <3>1. /\ x \in Session /\ x.login = session[c].login /\ x.token = session[c].token
            /\ x.surplus = session[c].surplus /\ x.at = p
        BY <1>1, <2>1 DEF Session, Issuing
      <3>2. session' = [session EXCEPT ![c] = x]
        BY <2>1
      <3> HIDE DEF x
      <3> QED BY <1>1, <2>1, <3>1, <3>2
    <2>2. CASE Rotate(c)
      BY <2>1, <2>2 DEF Rotate
    <2>3. CASE List(c)
      <3>1. PICK x \in Session :
              /\ session' = [session EXCEPT ![c] = x]
              /\ x.at \in {"prune", "answered"}
              /\ x.login = session[c].login /\ x.token = session[c].token
              /\ x.surplus \subseteq refresh \cup session[c].surplus
        BY <1>1, <2>3, ListMoves
      <3>2. session[c].at = "list" /\ x.surplus \subseteq 1..Len(login)
        BY <1>1, <2>3, <3>1, ListMoves
      <3> QED BY <3>1, <3>2
    <2>4. CASE Prune(c)
      BY <2>1, <2>4 DEF Prune
    <2> QED BY <2>2, <2>3, <2>4
  <1>6. \A t \in 1..Len(login) : Alive(t) =>
          Alive(t)' \/ (session[c].at = "delete" /\ session[c].token = t)
    BY <1>0 DEF Alive
  <1>7. fetch[c] # "other" => fetch[session[c].login] # "other"
    BY DEF BrowserInv, OwnLogins
  <1>8. x.at \in {"list", "prune", "answered"} /\ fetch[c] = "waiting" => Fresh(c)
    BY <1>4 DEF Fresh
  <1>5. /\ x.at = "prune" \/ x.at = "answered" \/ x.at = "create" \/ x.at = "failed"
        /\ x.login = session[c].login
    BY <1>4
  <1> QED BY <1>0, <1>2, <1>3, <1>4, <1>5, <1>6, <1>7, <1>8, BrowserMoves

(* The token stored last is a new one.                                     *)
LEMMA BrowserCreates ==
  ASSUME BrowserInv, RotationInv', NEW c \in Calls, Create(c), pruned' = pruned,
         UNCHANGED <<stored, fetch>>
  PROVE  BrowserInv'
  <1> DEFINE n == Len(login) + 1
             x == [session[c] EXCEPT !.at = "list", !.token = n]
  <1>1. /\ session \in [Calls -> Session] /\ session[c] \in Session
        /\ fetch \in [Calls -> {"other", "waiting", "done"}]
        /\ login \in Seq(Calls) /\ Len(login) \in Nat /\ stored \in 0..Len(login)
        /\ session[c].login \in Calls
    BY DEF BrowserInv, RotationInv, SessionsTypeOK, BrowserTypeOK, Session
  <1>2. /\ Len(login') = n /\ n \in Nat /\ login'[n] = session[c].login
        /\ \A t \in 1..Len(login) : login'[t] = login[t]
    BY <1>1 DEF Create
  <1>3. /\ session'[c] = x /\ x.at = "list" /\ x.login = session[c].login /\ x.token = n
        /\ x.surplus = session[c].surplus
        /\ \A d \in Calls \ {c} : session'[d] = session[d]
    BY <1>1, <1>2 DEF Create, Session
  <1>4. /\ session[c].at = "create" /\ refresh' = refresh \cup {n} /\ ended' = ended
        /\ UNCHANGED <<stored, fetch, pruned>>
    BY DEF Create
  <1>5. /\ 1..Len(login) \subseteq 1..Len(login') /\ n \in 1..Len(login')
        /\ \A t \in 1..Len(login) : t # n
        /\ stored # n /\ (stored # 0 => stored \in 1..Len(login))
    BY <1>1, <1>2
  <1> HIDE DEF n, x
  <1>6. BrowserTypeOK'
    <2>1. stored' \in 0..Len(login')
      BY <1>1, <1>2, <1>4 DEF n
    <2>2. \A d \in Calls : session'[d].surplus = session[d].surplus
      BY <1>3
    <2> QED BY <1>4, <1>5, <2>1, <2>2 DEF BrowserInv, BrowserTypeOK
  <1>7. \A t \in 1..Len(login) : Alive(t) => Alive(t)'
    BY <1>2, <1>4 DEF Alive
  <1>8. OwnLogins'
    <2>1. stored # 0 => fetch[login'[stored]] # "other"
      BY <1>2, <1>5 DEF BrowserInv, OwnLogins
    <2> QED BY <1>3, <1>4, <2>1 DEF BrowserInv, OwnLogins
  <1>9. \A y \in Calls \ {c} : Fresh(y)' => Fresh(y)
    BY <1>3, <1>4 DEF Fresh
  <1>10. \A d \in Calls : session'[d].at = "delete" =>
           d # c /\ session[d].at = "delete" /\ session[d].token \in 1..Len(login)
    BY <1>1, <1>3 DEF BrowserInv, RotationInv, LoginsInv
  <1>11. \A y \in Calls : Fresh(y) => session[y].token \in 1..Len(login) /\ y # c
    BY <1>4 DEF BrowserInv, FreshTokens, OnItsWay, Fresh
  <1>12. FreshTokens'
    <2>1. ASSUME NEW y \in Calls, Fresh(y)', NEW t, t = session'[y].token
          PROVE  OnItsWay(y, t)'
      <3>1. CASE y = c
        <4>1. t = n /\ session'[y].login = session[c].login
          BY <1>3, <2>1, <3>1
        <4>2. Alive(t)'
          BY <1>4, <4>1 DEF Alive
        <4>3. \A d \in Calls : session'[d].at = "delete" => session'[d].token # t
          BY <1>3, <1>5, <1>10, <4>1
        <4> QED BY <1>2, <1>4, <1>5, <4>1, <4>2, <4>3 DEF OnItsWay
      <3>2. CASE y # c
        <4>1. Fresh(y) /\ session'[y] = session[y] /\ session[y].token = t
          BY <1>3, <1>9, <2>1, <3>2
        <4>2. OnItsWay(y, t)
          BY <4>1 DEF BrowserInv, FreshTokens
        <4>3. t \in 1..Len(login) /\ Alive(t)' /\ login'[t] = login[t]
          BY <1>2, <1>7, <4>2 DEF OnItsWay
        <4>4. \A d \in Calls : session'[d].at = "delete" => session'[d].token # t
          BY <1>3, <1>10, <4>2 DEF OnItsWay
        <4> QED BY <1>4, <1>5, <4>1, <4>2, <4>3, <4>4 DEF OnItsWay
      <3> QED BY <3>1, <3>2
    <2>2. ASSUME NEW y \in Calls, NEW z \in Calls, Fresh(y)', Fresh(z)', y # z
          PROVE  session'[y].token # session'[z].token
      <3>1. \A d \in Calls \ {c} : Fresh(d)' => session'[d].token # n
        BY <1>3, <1>5, <1>9, <1>11
      <3>2. CASE y # c /\ z # c
        BY <1>3, <1>9, <2>2, <3>2 DEF BrowserInv, FreshTokens
      <3> QED BY <1>3, <2>2, <3>1, <3>2
    <2> QED BY <2>1, <2>2 DEF FreshTokens
  <1>13. StoredLives'
    <2>1. Alive(stored) /\ stored # 0 => Alive(stored)'
      BY <1>2, <1>4, <1>5 DEF Alive
    <2>2. \A d \in Calls : session'[d].login = session[d].login
      BY <1>3
    <2> QED BY <1>4, <2>1, <2>2 DEF BrowserInv, StoredLives
  <1>14. RotationAwaited'
    BY <1>3, <1>4 DEF BrowserInv, RotationAwaited
  <1> QED BY <1>6, <1>8, <1>12, <1>13, <1>14 DEF BrowserInv

LEMMA BrowserPersists ==
  ASSUME BrowserInv, RotationInv', NEW c \in Calls, Persist(c)
  PROVE  BrowserInv'
  <1> DEFINE n == session[c].token
  <1>1. /\ stored' = n /\ fetch' = [fetch EXCEPT ![c] = "done"]
        /\ fetch \in [Calls -> {"other", "waiting", "done"}]
        /\ UNCHANGED <<refresh, login, ended, session, pruned>>
    BY DEF Persist, sessionVars, BrowserInv, BrowserTypeOK
  <1>2. Fresh(c) /\ session[c].at = "answered"
    BY DEF Persist, Fresh
  <1>3. /\ n \in 1..Len(login) /\ login[n] = session[c].login /\ Alive(n)
        /\ \A d \in Calls : session[d].at = "delete" => session[d].token # n
        /\ \A y \in Calls : Fresh(y) /\ y # c => session[y].token # n
    BY <1>2 DEF BrowserInv, FreshTokens, OnItsWay
  <1>4. /\ \A d \in Calls \ {c} : fetch'[d] = fetch[d]
        /\ fetch'[c] = "done" /\ fetch[c] # "other"
    BY <1>1, <1>2 DEF Fresh
  <1>5. session[c].login \in Calls /\ Len(login) \in Nat
    BY DEF BrowserInv, RotationInv, SessionsTypeOK, Session
  <1> HIDE DEF n
  <1>6. BrowserTypeOK'
    BY <1>1, <1>3, <1>5 DEF BrowserInv, BrowserTypeOK
  <1>7. OwnLogins'
    BY <1>1, <1>3, <1>4, <1>5 DEF BrowserInv, OwnLogins
  <1>8. \A y \in Calls : Fresh(y)' => Fresh(y) /\ y # c
    BY <1>1, <1>4 DEF Fresh
  <1>9. FreshTokens'
    <2>1. ASSUME NEW y \in Calls, Fresh(y)', NEW t, t = session[y].token
          PROVE  OnItsWay(y, t)'
      <3>1. OnItsWay(y, t) /\ t # n
        BY <1>3, <1>8, <2>1 DEF BrowserInv, FreshTokens
      <3> QED BY <1>1, <3>1 DEF OnItsWay, Alive
    <2>2. \A y, z \in Calls : Fresh(y)' /\ Fresh(z)' /\ y # z =>
            session[y].token # session[z].token
      BY <1>8 DEF BrowserInv, FreshTokens
    <2> QED BY <1>1, <2>1, <2>2 DEF FreshTokens
  <1>10. StoredLives'
    BY <1>1, <1>3 DEF StoredLives, Alive
  <1>11. RotationAwaited'
    BY <1>1, <1>3 DEF BrowserInv, RotationAwaited
  <1> QED BY <1>6, <1>7, <1>9, <1>10, <1>11 DEF BrowserInv

LEMMA BrowserGivesUp ==
  ASSUME BrowserInv, RotationInv', NEW c \in Calls, GiveUp(c)
  PROVE  BrowserInv'
  <1>1. /\ fetch[c] = "waiting" /\ fetch' = [fetch EXCEPT ![c] = "done"]
        /\ stored' = IF session[c].login = c THEN stored ELSE 0
        /\ fetch \in [Calls -> {"other", "waiting", "done"}] /\ Len(login) \in Nat
        /\ stored \in 0..Len(login)
        /\ UNCHANGED <<refresh, login, ended, session, pruned>>
    BY DEF GiveUp, sessionVars, BrowserInv, BrowserTypeOK, RotationInv, SessionsTypeOK
  <1>2. /\ \A d \in Calls \ {c} : fetch'[d] = fetch[d]
        /\ fetch'[c] = "done" /\ stored' \in {0, stored}
        /\ \A d \in Calls : fetch'[d] # "other" <=> fetch[d] # "other"
    BY <1>1
  <1>3. /\ \A d \in Calls : session[d].login \in Calls
        /\ \A t \in 1..Len(login) : login[t] \in Calls
    BY DEF BrowserInv, RotationInv, SessionsTypeOK, Session
  <1>4. BrowserTypeOK'
    BY <1>1, <1>2 DEF BrowserInv, BrowserTypeOK
  <1>5. OwnLogins'
    BY <1>1, <1>2, <1>3 DEF BrowserInv, OwnLogins
  <1>6. \A y \in Calls : Fresh(y)' => Fresh(y)
    BY <1>1, <1>2 DEF Fresh
  <1>7. FreshTokens'
    <2>1. ASSUME NEW y \in Calls, Fresh(y)', NEW t, t = session[y].token
          PROVE  OnItsWay(y, t)'
      <3>1. OnItsWay(y, t)
        BY <1>6, <2>1 DEF BrowserInv, FreshTokens
      <3>2. t # 0
        BY <1>1, <3>1 DEF OnItsWay
      <3> QED BY <1>1, <3>1, <3>2 DEF OnItsWay, Alive
    <2>2. \A y, z \in Calls : Fresh(y)' /\ Fresh(z)' /\ y # z =>
            session[y].token # session[z].token
      BY <1>6 DEF BrowserInv, FreshTokens
    <2> QED BY <1>1, <2>1, <2>2 DEF FreshTokens
  <1>8. StoredLives'
    BY <1>1, <1>2 DEF BrowserInv, StoredLives, Alive
  <1>9. RotationAwaited'
    <2> SUFFICES ASSUME NEW d \in Calls, session[d].at = "delete"
                 PROVE  /\ session[d].login # d
                        /\ session[d].token = stored' => fetch'[d] = "waiting"
      BY <1>1 DEF RotationAwaited
    <2>1. session[d].login # d /\ (session[d].token = stored => fetch[d] = "waiting")
      BY DEF BrowserInv, RotationAwaited
    <2>2. session[d].token \in 1..Len(login)
      BY DEF BrowserInv, RotationInv, LoginsInv, SessionsTypeOK
    <2>3. CASE session[c].login = c
      BY <1>1, <1>2, <2>1, <2>3
    <2>4. CASE session[c].login # c
      BY <1>1, <2>1, <2>2, <2>4
    <2> QED BY <2>3, <2>4
  <1> QED BY <1>4, <1>5, <1>7, <1>8, <1>9 DEF BrowserInv

LEMMA BrowserLogsOut ==
  ASSUME BrowserInv, RotationInv', BrowserLogout
  PROVE  BrowserInv'
  <1>1. /\ stored' = 0 /\ Len(login) \in Nat
        /\ UNCHANGED <<refresh, login, ended, session, fetch, pruned>>
    BY DEF BrowserLogout, sessionVars, BrowserInv, RotationInv, SessionsTypeOK
  <1>2. BrowserTypeOK' /\ OwnLogins' /\ StoredLives'
    BY <1>1 DEF BrowserInv, BrowserTypeOK, OwnLogins, StoredLives
  <1>3. FreshTokens'
    BY <1>1 DEF BrowserInv, FreshTokens, OnItsWay, Fresh, Alive
  <1>4. RotationAwaited'
    BY <1>1 DEF BrowserInv, RotationAwaited, RotationInv, LoginsInv, SessionsTypeOK
  <1> QED BY <1>2, <1>3, <1>4 DEF BrowserInv

LEMMA BrowserInit == Init => BrowserInv
  <1> SUFFICES ASSUME Init PROVE BrowserInv
    OBVIOUS
  <1>1. RotationInv
    BY RotationInit DEF Init
  <1>2. /\ login = <<>> /\ stored = 0 /\ pruned = {} /\ Len(login) = 0
        /\ \A c \in Calls : /\ session[c].at = "start" /\ session[c].surplus = {}
                            /\ fetch[c] = "other"
        /\ fetch \in [Calls -> {"other", "waiting", "done"}]
    BY DEF Init, SessionsInit
  <1> QED BY <1>1, <1>2 DEF BrowserInv, BrowserTypeOK, OwnLogins, FreshTokens, Fresh,
                            StoredLives, RotationAwaited

LEMMA BrowserNext == BrowserInv /\ [Next]_vars => BrowserInv'
  <1> SUFFICES ASSUME BrowserInv, [Next]_vars PROVE BrowserInv'
    OBVIOUS
  <1>0. RotationInv'
    BY NextOfSessions, RotationNext DEF BrowserInv
  <1>1. ASSUME NEW c \in Calls, LoginDirectly(c) \/ LoginVerified(c) PROVE BrowserInv'
    BY <1>0, <1>1, BrowserSignIn DEF LoginDirectly, LoginVerified
  <1>2. ASSUME NEW c \in Calls, EndsSessions(c) PROVE BrowserInv'
    BY <1>0, <1>2, BrowserEnds DEF EndsSessions
  <1>3. ASSUME NEW c \in Calls, NEW t \in 1..Len(login), RefreshElsewhere(c, t)
        PROVE BrowserInv'
    <2>1. Refresh(c, t) /\ fetch[login[t]] = "other" /\ UNCHANGED <<stored, fetch, pruned>>
      BY <1>3 DEF RefreshElsewhere, browserVars
    <2> QED BY <1>0, <2>1, BrowserRefreshes
  <1>4. ASSUME NEW c \in Calls, BrowserRefresh(c) PROVE BrowserInv'
    <2>1. /\ Refresh(c, stored) /\ stored \in 1..Len(login)
          /\ fetch' = [fetch EXCEPT ![c] = "waiting"] /\ UNCHANGED <<stored, pruned>>
      BY <1>4 DEF BrowserRefresh, Refresh
    <2> QED BY <1>0, <2>1, BrowserRefreshes
  <1>5. ASSUME NEW c \in Calls, IssueStep(c) PROVE BrowserInv'
    <2>1. CASE Create(c)
      <3>1. pruned' = pruned
        BY <1>5, <2>1 DEF IssueStep, Create
      <3> QED BY <1>0, <1>5, <2>1, <3>1, BrowserCreates DEF IssueStep
    <2>2. CASE ~Create(c)
      BY <1>0, <1>5, <2>2, BrowserIssues DEF IssueStep, SessionStep
    <2> QED BY <2>1, <2>2
  <1>6. ASSUME NEW c \in Calls, Persist(c) \/ GiveUp(c) PROVE BrowserInv'
    BY <1>0, <1>6, BrowserPersists, BrowserGivesUp
  <1>7. ASSUME NEW c \in Calls,
               LoginChallenged(c) \/ ChangeGuarded(c) \/ CredentialStep(c) \/ FactorStepOf(c)
        PROVE BrowserInv'
    <2>1. UNCHANGED <<refresh, login, ended, session, browserVars>>
      BY <1>7 DEF LoginChallenged, ChangeGuarded, CredentialStep, FactorStepOf, sessionVars
    <2> QED BY <1>0, <2>1, BrowserUntouched
  <1>8. CASE RequestChallenge \/ Time \/ UNCHANGED vars
    <2>1. UNCHANGED <<refresh, login, ended, session, browserVars>>
      BY <1>8 DEF RequestChallenge, Time, vars, sessionVars, ExpireToken
    <2> QED BY <1>0, <2>1, BrowserUntouched
  <1>9. CASE BrowserLogout
    BY <1>0, <1>9, BrowserLogsOut
  <1> QED BY <1>1, <1>2, <1>3, <1>4, <1>5, <1>6, <1>7, <1>8, <1>9 DEF Next, Call

(* However refreshes of several requests, sign-ins, answers and give-ups   *)
(* interleave, a browser that waits for none is never left with a token    *)
(* that rotation has deleted.                                              *)
THEOREM BrowserTokenLives == Spec => []BrowserHoldsLiveToken
  <1>1. BrowserInv => BrowserHoldsLiveToken
    BY DEF BrowserInv, StoredLives, BrowserHoldsLiveToken, Alive
  <1> QED BY <1>1, BrowserInit, BrowserNext, PTL DEF Spec

(***************************************************************************)
(* The account as a whole                                                  *)
(***************************************************************************)

(* A backup code that has signed somebody in is not found unused again,    *)
(* whatever sign-ins, refreshes and changes of password go on meanwhile.   *)
THEOREM AccountCodesDie == Spec => []SpentIsDead
  BY ImplementsTwoFactor, SpentCodesAreDead, PTL

(* Every variable of the account keeps its type: the token numbers of the  *)
(* browser and of the cap are those of tokens that were issued.            *)
THEOREM AccountTypeCorrect == Spec => []TypeOK
  <1>1. CredentialsSpec => []CredentialsTypeOK
    <2>1. PasswordInv => CredentialsTypeOK
      BY DEF PasswordInv
    <2> QED BY <2>1, PasswordInit, CredentialsStep, PTL DEF CredentialsSpec
  <1>2. BrowserInv => BrowserTypeOK
    BY DEF BrowserInv
  <1>3. CredentialsTypeOK /\ SessionsTypeOK /\ TwoFactorTypeOK /\ BrowserTypeOK => TypeOK
    BY DEF BrowserTypeOK, TypeOK
  <1>4. Spec => []BrowserInv
    BY BrowserInit, BrowserNext, PTL DEF Spec
  <1> QED BY <1>1, <1>2, <1>3, <1>4, ImplementsCredentials, ImplementsSessions,
             ImplementsTwoFactor, SessionsTypeCorrect, TwoFactorTypeCorrect, PTL
=============================================================================
