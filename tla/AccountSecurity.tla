--------------------------- MODULE AccountSecurity ---------------------------
(***************************************************************************)
(* Signing in and out of one account: AuthController and                   *)
(* TwoFactorController, which lead a call through Credentials, TwoFactor   *)
(* and Sessions, and a browser with the web client of lib/auth.ts, which   *)
(* keeps a refresh token in its local storage and trades it in whenever a  *)
(* request is answered 401.                                                *)
(***************************************************************************)
EXTENDS Credentials, Sessions, TwoFactor

VARIABLES
  stored,        (* the browser's refresh token (beleqet_refresh), 0: none   *)
  fetch,         (* the browser's view of a call; "other": not one of its own *)
  pruned         (* tokens deleted to keep to the cap                        *)

browserVars == <<stored, fetch, pruned>>
vars == <<credVars, sessionVars, factorVars, browserVars>>

TypeOK ==
  /\ CredentialsTypeOK /\ SessionsTypeOK /\ TwoFactorTypeOK
  /\ stored \in 0..Len(login)
  /\ fetch \in [Calls -> {"other", "waiting", "done"}]
  /\ pruned \subseteq 1..Len(login)

Init ==
  /\ CredentialsInit /\ SessionsInit /\ TwoFactorInit
  /\ stored = 0 /\ fetch = [c \in Calls |-> "other"] /\ pruned = {}

Free(c) ==
  cred[c].at = "start" /\ session[c].at = "start" /\ otp[c].at = "start"

-----------------------------------------------------------------------------
(* Signing in *)

(* The tokens will be for the browser, or for another client.              *)
AskedFrom(c) ==
  \E who \in {"other", "waiting"} : fetch' = [fetch EXCEPT ![c] = who]

(* The password was right and no factor is enabled: tokens are issued.     *)
LoginDirectly(c) ==
  /\ cred[c].at = "valid"
  /\ ~factor.enabled
  /\ SignIn(c)
  /\ AskedFrom(c)
  /\ UNCHANGED <<credVars, factorVars, stored, pruned>>

(* Otherwise the answer is a challenge, for this and any later call.       *)
LoginChallenged(c) ==
  /\ cred[c].at = "valid" /\ session[c].at = "start"
  /\ Challenge
  /\ UNCHANGED <<credVars, sessionVars, browserVars>>

(* verify and backup-code issue the tokens of a call that has passed.      *)
LoginVerified(c) ==
  /\ otp[c].at = "passed"
  /\ SignIn(c)
  /\ AskedFrom(c)
  /\ UNCHANGED <<credVars, factorVars, stored, pruned>>

(* A call with an access token, which outlives the refresh tokens.         *)
SignedInOnce == login # <<>>

(* A challenge asked for by a signed-in user, or given by the guards.      *)
RequestChallenge ==
  /\ SignedInOnce
  /\ Challenge
  /\ UNCHANGED <<credVars, sessionVars, browserVars>>

-----------------------------------------------------------------------------
(* Calls of a signed-in user *)

ChangeGuarded(c) ==
  /\ StepUpPassed
  /\ PassGuard(c)
  /\ UNCHANGED <<sessionVars, factorVars, browserVars>>

EndsSessions(c) ==
  /\ (Free(c) /\ SignedInOnce) \/ cred[c].at = "revoke"
  /\ EndSessions(c)
  /\ UNCHANGED <<credVars, factorVars, browserVars>>

(* A refresh by a client that holds a token of its own.                    *)
RefreshElsewhere(c, t) ==
  /\ Free(c)
  /\ fetch[login[t]] = "other"
  /\ Refresh(c, t)
  /\ UNCHANGED <<credVars, factorVars, browserVars>>

CredentialStep(c) ==
  /\ \/ Rehash(c) \/ WritePassword(c) \/ WriteEmail(c)
     \/ (Free(c) /\ Validate(c))
     \/ (Free(c) /\ SignedInOnce /\ AskChange(c))
     \/ ((cred[c].at = "start" => Free(c)) /\ LinkStep(c))
  /\ UNCHANGED <<sessionVars, factorVars, browserVars>>

FactorStepOf(c) ==
  /\ FactorStep(c) \/ (Free(c) /\ FactorCall(c))
  /\ UNCHANGED <<credVars, sessionVars, browserVars>>

IssueStep(c) ==
  /\ SessionStep(c)
  /\ pruned' = pruned \cup (IF session[c].at = "prune" THEN session[c].surplus ELSE {})
  /\ UNCHANGED <<credVars, factorVars, stored, fetch>>

-----------------------------------------------------------------------------
(* The browser *)

(* refreshAccessToken posts the token that is stored; every request that   *)
(* is answered 401 does so on its own.                                     *)
BrowserRefresh(c) ==
  /\ Free(c)
  /\ stored # 0
  /\ Refresh(c, stored)
  /\ fetch' = [fetch EXCEPT ![c] = "waiting"]
  /\ UNCHANGED <<credVars, factorVars, stored, pruned>>

(* A mutant: the rotated token is dropped.                                 *)
KeepOldToken(c) ==
  /\ session[c].at = "answered" /\ session[c].token # 0
  /\ fetch[c] = "waiting"
  /\ stored' = IF stored = 0 THEN session[c].token ELSE stored
  /\ fetch' = [fetch EXCEPT ![c] = "done"]
  /\ UNCHANGED <<credVars, sessionVars, factorVars, pruned>>

(* The answer to a refresh, or to a sign-in made from this browser.        *)
Persist(c) ==
  /\ session[c].at = "answered" /\ session[c].token # 0
  /\ fetch[c] = "waiting"
  /\ stored' = session[c].token
  /\ fetch' = [fetch EXCEPT ![c] = "done"]
  /\ UNCHANGED <<credVars, sessionVars, factorVars, pruned>>

(* Whatever goes wrong with a refresh, refused, timed out after 10 s or    *)
(* not answered, clears what the browser has stored by now; a sign-in that *)
(* goes wrong leaves it alone.                                             *)
GiveUp(c) ==
  /\ fetch[c] = "waiting"
  /\ stored' = IF session[c].login = c THEN stored ELSE 0
  /\ fetch' = [fetch EXCEPT ![c] = "done"]
  /\ UNCHANGED <<credVars, sessionVars, factorVars, pruned>>

(* AuthProvider.logout forgets the tokens; the server is not told.         *)
BrowserLogout ==
  /\ stored # 0
  /\ stored' = 0
  /\ UNCHANGED <<credVars, sessionVars, factorVars, fetch, pruned>>

-----------------------------------------------------------------------------
Call(c) ==
  \/ LoginDirectly(c) \/ LoginChallenged(c) \/ LoginVerified(c)
  \/ ChangeGuarded(c) \/ EndsSessions(c)
  \/ \E t \in 1..Len(login) : RefreshElsewhere(c, t)
  \/ CredentialStep(c) \/ FactorStepOf(c) \/ IssueStep(c)
  \/ BrowserRefresh(c) \/ Persist(c) \/ GiveUp(c)

Time ==
  \/ /\ Tick \/ CleanupExpiredEnrollments
     /\ UNCHANGED <<credVars, sessionVars, browserVars>>
  \/ /\ \E t \in 1..Len(login) : ExpireToken(t)
     /\ UNCHANGED <<credVars, factorVars, browserVars>>
  \/ /\ \E l \in links : ExpireLink(l)
     /\ UNCHANGED <<sessionVars, factorVars, browserVars>>

Next == (\E c \in Calls : Call(c)) \/ RequestChallenge \/ BrowserLogout \/ Time

Spec == Init /\ [][Next]_vars

-----------------------------------------------------------------------------
(* Properties *)

(* A browser that waits for no refresh holds a token that the server still *)
(* has, unless the login was ended or the cap has pushed the token out:    *)
(* no interleaving of rotation, answer and give-up leaves it with a token  *)
(* that rotation has already deleted.                                      *)
BrowserHoldsLiveToken ==
  stored # 0 /\ (\A c \in Calls : fetch[c] # "waiting") =>
    \/ stored \in refresh \cup pruned
    \/ login[stored] \in ended

(* Calls that have ended every session, and those that were a logout.      *)
Ending == {c \in Calls : session[c].at = "answered" /\ session[c].token = 0}
Logouts == {c \in Ending : cred[c].at # "revoke"}

(* "Invalidate all sessions except the current one" (auth.service.ts:313): *)
(* where the account has had a single login, that login is the current one *)
(* of whoever changes the password, and only a logout ends it.             *)
CurrentSessionKept ==
  (\A s, t \in DOMAIN login : login[s] = login[t]) /\ Logouts = {} =>
    \A t \in DOMAIN login : login[t] \notin ended
=============================================================================
