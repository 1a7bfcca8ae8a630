------------------------------- MODULE Sessions -------------------------------
(***************************************************************************)
(* The refresh tokens of one account: AuthService.issueTokens, refresh,    *)
(* logout, and the deletion of every token that ends changePassword.       *)
(*                                                                         *)
(* A refresh deletes the token it was given and then issues another one;   *)
(* issueTokens stores the new token, counts the tokens of the account and  *)
(* deletes those beyond MaxSessions, oldest first.  Each of these is a     *)
(* statement of its own on the database, and the calls interleave between  *)
(* them.  A call that dies takes no further step.                          *)
(*                                                                         *)
(* Tokens are numbered in the order they are stored, which is the order of *)
(* createdAt.  All the tokens rotated out of one sign-in form a login,     *)
(* named by the call that signed in.                                       *)
(***************************************************************************)
EXTENDS ApiCalls

CONSTANT
  MaxSessions    (* refresh tokens an account may keep                       *)

ASSUME SessionsAssumption == MaxSessions \in Nat

VARIABLES
  refresh,       (* RefreshToken rows                                        *)
  login,         (* the login of every token issued so far                   *)
  expired,       (* tokens whose expiresAt has passed                        *)
  ended,         (* logins that a logout or a change of password has ended   *)
  session        (* local variables of the calls                             *)

sessionVars == <<refresh, login, expired, ended, session>>

Issuing == {"create", "list", "prune"}
Session == [at : {"start", "delete", "answered", "failed"} \cup Issuing,
            token : Nat, login : Calls, surplus : SUBSET Nat]

SessionsTypeOK ==
  /\ refresh \subseteq 1..Len(login)
  /\ login \in Seq(Calls)
  /\ expired \subseteq 1..Len(login)
  /\ ended \subseteq Calls
  /\ session \in [Calls -> Session]

SessionsInit ==
  /\ refresh = {} /\ login = <<>> /\ expired = {} /\ ended = {}
  /\ session = [c \in Calls |-> [at |-> "start", token |-> 0, login |-> c,
                                 surplus |-> {}]]

-----------------------------------------------------------------------------
(* A sign-in that has passed every check begins to issue its tokens.       *)
SignIn(c) ==
  /\ session[c].at = "start"
  /\ session' = [session EXCEPT ![c].at = "create"]
  /\ UNCHANGED <<refresh, login, expired, ended>>

(* A token that is unknown or has expired is refused.                      *)
Usable(t) == t \in refresh \ expired

Refresh(c, t) ==
  /\ session[c].at = "start"
  /\ t \in 1..Len(login)
  /\ session' = [session EXCEPT ![c] =
                   [at |-> IF Usable(t) THEN "delete" ELSE "failed",
                    token |-> t, login |-> login[t], surplus |-> {}]]
  /\ UNCHANGED <<refresh, login, expired, ended>>

(* A mutant: deleteMany in place of delete, which finds nothing to delete  *)
(* and goes on.                                                            *)
RotateAnyway(c) ==
  /\ session[c].at = "delete"
  /\ refresh' = refresh \ {session[c].token}
  /\ session' = [session EXCEPT ![c].at = "create"]
  /\ UNCHANGED <<login, expired, ended>>

(* The delete throws when another call has already deleted the row.        *)
Rotate(c) ==
  /\ session[c].at = "delete"
  /\ refresh' = refresh \ {session[c].token}
  /\ session' = [session EXCEPT ![c].at =
                   IF session[c].token \in refresh THEN "create" ELSE "failed"]
  /\ UNCHANGED <<login, expired, ended>>

(* A mutant: the row is stored and no login is recorded as having made it. *)
CreateUnowned(c) ==
  /\ session[c].at = "create"
  /\ refresh' = refresh \cup {Len(login) + 1}
  /\ session' = [session EXCEPT ![c] = [@ EXCEPT !.at = "list", !.token = Len(login) + 1]]
  /\ UNCHANGED <<login, expired, ended>>

Create(c) ==
  /\ session[c].at = "create"
  /\ login' = Append(login, session[c].login)
  /\ refresh' = refresh \cup {Len(login) + 1}
  /\ session' = [session EXCEPT ![c] = [@ EXCEPT !.at = "list", !.token = Len(login) + 1]]
  /\ UNCHANGED <<expired, ended>>

(* A mutant: nothing is deleted.                                           *)
NoSurplus(c) ==
  /\ session[c].at = "list"
  /\ session' = [session EXCEPT ![c].at = "answered"]
  /\ UNCHANGED <<refresh, login, expired, ended>>

Oldest(old) == \A s \in old, t \in refresh \ old : s < t

(* The rows to delete are chosen from the rows as they are now: findMany,  *)
(* oldest first, of which all but the last MaxSessions are sliced off.     *)
List(c) ==
  /\ session[c].at = "list"
  /\ \/ /\ Cardinality(refresh) <= MaxSessions
        /\ session' = [session EXCEPT ![c].at = "answered"]
     \/ /\ Cardinality(refresh) > MaxSessions
        /\ \E old \in SUBSET refresh :
             /\ Cardinality(refresh \ old) = MaxSessions
             /\ Oldest(old)
             /\ session' = [session EXCEPT ![c] = [@ EXCEPT !.at = "prune",
                                                            !.surplus = old]]
  /\ UNCHANGED <<refresh, login, expired, ended>>

Prune(c) ==
  /\ session[c].at = "prune"
  /\ refresh' = refresh \ session[c].surplus
  /\ session' = [session EXCEPT ![c].at = "answered"]
  /\ UNCHANGED <<login, expired, ended>>

(* The logins a deletion of all rows puts an end to: those that have had a *)
(* token, except those whose next token is being made at this moment.      *)
Endable ==
  {f \in Calls : /\ \E t \in DOMAIN login : login[t] = f
                 /\ \A c \in Calls : session[c].at = "create" => session[c].login # f}

(* A mutant: the newest session is ended, and not every one.               *)
EndNewestSession(c) ==
  /\ session[c].at = "start"
  /\ refresh' = {t \in refresh : \E u \in refresh : t < u}
  /\ ended' = ended \cup Endable
  /\ session' = [session EXCEPT ![c].at = "answered"]
  /\ UNCHANGED <<login, expired>>

(* logout, and the end of changePassword: every row of the account goes,   *)
(* that of the caller's own login too.  A refresh that has deleted its row *)
(* and not yet stored the next one is not found by the deletion.           *)
EndSessions(c) ==
  /\ session[c].at = "start"
  /\ refresh' = {}
  /\ ended' = ended \cup Endable
  /\ session' = [session EXCEPT ![c].at = "answered"]
  /\ UNCHANGED <<login, expired>>

(* Thirty days pass for a token.  The row stays, and counts as a session.  *)
ExpireToken(t) ==
  /\ t \in refresh \ expired
  /\ expired' = expired \cup {t}
  /\ UNCHANGED <<refresh, login, ended, session>>

SessionStep(c) == Rotate(c) \/ Create(c) \/ List(c) \/ Prune(c)

SessionsNext ==
  \/ \E c \in Calls : SignIn(c) \/ SessionStep(c) \/ EndSessions(c)
  \/ \E c \in Calls, t \in 1..Len(login) : Refresh(c, t)
  \/ \E t \in 1..Len(login) : ExpireToken(t)

SessionsSpec == SessionsInit /\ [][SessionsNext]_sessionVars

-----------------------------------------------------------------------------
(* Properties *)

(* Calls between the storing of a token and the end of its pruning.        *)
Over == {c \in Calls : session[c].at \in {"list", "prune"}}

(* The cap of issueTokens, however sign-ins and refreshes overlap: an      *)
(* account has more than MaxSessions tokens only by the number of calls    *)
(* that have stored a token and not yet pruned.                            *)
SessionCap == Cardinality(refresh) <= MaxSessions + Cardinality(Over)

(* Rotation never forks a login: of one sign-in there is at most one       *)
(* token, and none while a call holds the right to make the next one, even *)
(* if several refreshes present the same token at once.                    *)
OneSessionPerLogin ==
  /\ \A s, t \in refresh : login[s] = login[t] => s = t
  /\ \A c \in Calls : session[c].at = "create" =>
       /\ \A t \in refresh : login[t] # session[c].login
       /\ \A d \in Calls : /\ session[d].at = "create"
                           /\ session[d].login = session[c].login
                           => c = d

(* A login whose row a logout or a change of password has deleted never    *)
(* has a token again, though refreshes that had read the row go on: the    *)
(* deletion takes from them what they have to delete.  A login that was    *)
(* between two rows at that moment is not among those.                     *)
EndedStaysEnded == \A t \in refresh : login[t] \notin ended
=============================================================================
