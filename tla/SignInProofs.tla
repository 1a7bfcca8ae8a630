---------------------------- MODULE SignInProofs ----------------------------
(* Theorems about the two halves of a sign-in: Sessions, for any number of *)
(* calls and any cap, and TwoFactor, for any number of calls, any drift of *)
(* clocks and any lag that the time to live of a claimed code covers.      *)
EXTENDS Sessions, TwoFactor, FiniteSetTheorems, TLAPS

(***************************************************************************)
(* Sessions: type correctness                                              *)
(***************************************************************************)

(* What the steps of a call make of its local variables.                   *)
LEMMA SessionUpdates ==
  ASSUME NEW x \in Session
  PROVE  /\ \A p \in {"answered", "failed"} \cup Issuing : [x EXCEPT !.at = p] \in Session
         /\ \A n \in Nat : [x EXCEPT !.at = "list", !.token = n] \in Session
         /\ \A s \in SUBSET Nat : [x EXCEPT !.at = "prune", !.surplus = s] \in Session
  BY DEF Session, Issuing

LEMMA SessionsInitType == SessionsInit => SessionsTypeOK
  BY DEF SessionsInit, SessionsTypeOK, Session

LEMMA SessionsNextType == SessionsTypeOK /\ [SessionsNext]_sessionVars => SessionsTypeOK'
  <1> SUFFICES ASSUME SessionsTypeOK, [SessionsNext]_sessionVars PROVE SessionsTypeOK'
    OBVIOUS
  <1> USE DEF SessionsTypeOK
  <1>0. ASSUME NEW c \in Calls, NEW x \in Session, session' = [session EXCEPT ![c] = x]
        PROVE session' \in [Calls -> Session]
    BY <1>0
  <1>1. ASSUME NEW c \in Calls, SignIn(c) \/ Rotate(c) \/ Prune(c) \/ EndSessions(c)
        PROVE SessionsTypeOK'
    <2>1. PICK p \in {"answered", "failed"} \cup Issuing :
            session' = [session EXCEPT ![c].at = p]
      BY <1>1 DEF SignIn, Rotate, Prune, EndSessions, Issuing
    <2>2. [session[c] EXCEPT !.at = p] \in Session
      BY SessionUpdates
    <2>3. session' \in [Calls -> Session]
      BY <2>1, <2>2
    <2>4. Endable \subseteq Calls
      BY DEF Endable
    <2>5. /\ refresh' \subseteq refresh /\ login' = login /\ expired' = expired
          /\ ended' \subseteq Calls
      BY <1>1, <2>4 DEF SignIn, Rotate, Prune, EndSessions
    <2> QED BY <2>3, <2>5
  <1>2. ASSUME NEW c \in Calls, NEW t \in 1..Len(login), Refresh(c, t)
        PROVE SessionsTypeOK'
    <2>1. login[t] \in Calls /\ t \in Nat
      OBVIOUS
    <2>2. [at |-> IF Usable(t) THEN "delete" ELSE "failed",
           token |-> t, login |-> login[t], surplus |-> {}] \in Session
      BY <2>1 DEF Session
    <2> QED BY <1>2, <2>2 DEF Refresh
  <1>3. ASSUME NEW c \in Calls, Create(c) PROVE SessionsTypeOK'
    <2> DEFINE n == Len(login) + 1
    <2>1. session[c].login \in Calls /\ n \in Nat
      BY DEF Session
    <2>2. /\ Append(login, session[c].login) \in Seq(Calls)
          /\ Len(Append(login, session[c].login)) = n
      BY <2>1
    <2>3. [session[c] EXCEPT !.at = "list", !.token = n] \in Session
      <3> HIDE DEF n
      <3> QED BY <2>1, SessionUpdates
    <2>4. session' \in [Calls -> Session]
      BY <1>3, <2>3 DEF Create
    <2>5. /\ login' \in Seq(Calls) /\ Len(login') = n
          /\ refresh' = refresh \cup {n} /\ expired' = expired /\ ended' = ended
      BY <1>3, <2>2 DEF Create
    <2>6. /\ 1..Len(login) \subseteq 1..n /\ n \in 1..n
      <3>1. Len(login) \in Nat
        OBVIOUS
      <3> QED BY <3>1
    <2> QED BY <2>4, <2>5, <2>6
  <1>4. ASSUME NEW c \in Calls, List(c) PROVE SessionsTypeOK'
    <2>1. [session[c] EXCEPT !.at = "answered"] \in Session
      BY SessionUpdates
    <2>2. \A old \in SUBSET Nat :
            [session[c] EXCEPT !.at = "prune", !.surplus = old] \in Session
      BY SessionUpdates
    <2>3. \E x \in Session : session' = [session EXCEPT ![c] = x]
      <3>1. CASE session' = [session EXCEPT ![c].at = "answered"]
        BY <2>1, <3>1
      <3>2. ASSUME NEW old \in SUBSET refresh,
                   session' = [session EXCEPT ![c] = [@ EXCEPT !.at = "prune",
                                                              !.surplus = old]]
            PROVE \E x \in Session : session' = [session EXCEPT ![c] = x]
        <4>1. old \in SUBSET Nat
          OBVIOUS
        <4> QED BY <2>2, <3>2, <4>1
      <3> QED BY <1>4, <3>1, <3>2 DEF List
    <2> QED BY <1>0, <1>4, <2>3 DEF List
  <1>5. ASSUME NEW t \in 1..Len(login), ExpireToken(t) PROVE SessionsTypeOK'
    BY <1>5 DEF ExpireToken
  <1>6. CASE UNCHANGED sessionVars
    BY <1>6 DEF sessionVars
  <1> QED BY <1>1, <1>2, <1>3, <1>4, <1>5, <1>6 DEF SessionsNext, SessionStep

(* Every variable keeps its type.                                          *)
THEOREM SessionsTypeCorrect == SessionsSpec => []SessionsTypeOK
  BY SessionsInitType, SessionsNextType, PTL DEF SessionsSpec

(***************************************************************************)
(* Rotation                                                                *)
(***************************************************************************)

(* What the invariants about logins rest on: a login's own call has        *)
(* begun, and a call about to rotate a token holds the login of that token.*)
LoginsInv ==
  /\ \A t \in DOMAIN login : session[login[t]].at # "start"
  /\ \A c \in Calls : session[c].at = "start" => session[c].login = c
  /\ \A c \in Calls : session[c].at # "start" => session[session[c].login].at # "start"
  /\ \A c \in Calls : session[c].at = "delete" =>
       /\ session[c].token \in DOMAIN login
       /\ login[session[c].token] = session[c].login
  /\ \A f \in ended : session[f].at # "start"

CreatesLive ==
  \A c \in Calls : session[c].at = "create" => session[c].login \notin ended

RotationInv ==
  SessionsTypeOK /\ LoginsInv /\ OneSessionPerLogin /\ EndedStaysEnded /\ CreatesLive

LEMMA RotationInit == SessionsInit => RotationInv
  <1> SUFFICES ASSUME SessionsInit PROVE RotationInv
    OBVIOUS
  <1>1. SessionsTypeOK
    BY SessionsInitType
  <1>2. /\ \A c \in Calls : session[c].at = "start" /\ session[c].login = c
        /\ DOMAIN login = {} /\ refresh = {} /\ ended = {}
    BY DEF SessionsInit
  <1> QED BY <1>1, <1>2
          DEF RotationInv, LoginsInv, OneSessionPerLogin, EndedStaysEnded, CreatesLive

(* A step that moves one call and adds no token.                           *)
Moves(c) ==
  /\ login' = login /\ refresh' \subseteq refresh
  /\ \A d \in Calls \ {c} : session'[d] = session[d]
  /\ session'[c].at # "start"

LEMMA LoginsKept ==
  ASSUME SessionsTypeOK, SessionsTypeOK', LoginsInv, NEW c \in Calls,
         \A d \in Calls \ {c} : session'[d] = session[d],
         session'[c].at # "start",
         \A t \in DOMAIN login : t \in DOMAIN login' /\ login'[t] = login[t],
         \A t \in DOMAIN login' : t \notin DOMAIN login => login'[t] = session[c].login,
         session[c].at = "start" \/ session'[c].login = session[c].login,
         session'[session'[c].login].at # "start",
         session'[c].at = "delete" => /\ session'[c].token \in DOMAIN login
                                      /\ login[session'[c].token] = session'[c].login,
         \A f \in ended' : session'[f].at # "start"
  PROVE  LoginsInv'
  <1>1. \A d \in Calls : /\ session[d].login \in Calls
                         /\ session[d].at # "start" => session'[d].at # "start"
    BY DEF SessionsTypeOK, Session
  <1>2. \A t \in DOMAIN login : login[t] \in Calls
    BY DEF SessionsTypeOK
  <1>3. session[c].at = "start" => session[c].login = c
    BY DEF LoginsInv
  <1>4. session'[session[c].login].at # "start"
    BY <1>1, <1>3 DEF LoginsInv
  <1>5. \A t \in DOMAIN login' : session'[login'[t]].at # "start"
    BY <1>1, <1>2, <1>4 DEF LoginsInv
  <1>6. \A d \in Calls : session'[d].at = "start" => session'[d].login = d
    BY DEF LoginsInv
  <1>7. \A d \in Calls : session'[d].at # "start" => session'[session'[d].login].at # "start"
    BY <1>1 DEF LoginsInv
  <1>8. \A d \in Calls : session'[d].at = "delete" =>
          /\ session'[d].token \in DOMAIN login'
          /\ login'[session'[d].token] = session'[d].login
    BY DEF LoginsInv
  <1> QED BY <1>5, <1>6, <1>7, <1>8 DEF LoginsInv

LEMMA MovesKeep ==
  ASSUME RotationInv, SessionsTypeOK', NEW c \in Calls, Moves(c), ended' = ended,
         session'[c].login = session[c].login,
         \/ session'[c].at \notin {"delete", "create"}
         \/ /\ session[c].at \in {"start", "delete"} /\ session'[c].at = "create"
            /\ session[c].login \notin ended
            /\ \A t \in refresh' : login[t] # session[c].login
            /\ \A d \in Calls : session[d].at = "create" =>
                                  session[d].login # session[c].login
  PROVE  RotationInv'
  <1> USE DEF Moves, RotationInv
  <1>1. LoginsInv'
    <2>1. session[c].login \in Calls
      BY DEF SessionsTypeOK, Session
    <2>2. session'[session'[c].login].at # "start"
      BY <2>1 DEF LoginsInv
    <2>3. \A f \in ended' : session'[f].at # "start"
      BY DEF LoginsInv, SessionsTypeOK
    <2>4. session'[c].at # "delete"
      OBVIOUS
    <2> QED BY <2>2, <2>3, <2>4, LoginsKept
  <1>2. OneSessionPerLogin'
    BY DEF OneSessionPerLogin
  <1>3. EndedStaysEnded' /\ CreatesLive'
    BY DEF EndedStaysEnded, CreatesLive
  <1> QED BY <1>1, <1>2, <1>3

(* What List makes of the local variables of its call.                     *)
LEMMA ListMoves ==
  ASSUME SessionsTypeOK, NEW c \in Calls, List(c)
  PROVE  /\ session[c].at = "list" /\ UNCHANGED <<refresh, login, expired, ended>>
         /\ \E x \in Session :
              /\ session' = [session EXCEPT ![c] = x]
              /\ x.at \in {"prune", "answered"}
              /\ x.login = session[c].login /\ x.token = session[c].token
              /\ x.surplus \subseteq refresh \cup session[c].surplus
  <1>1. session[c] \in Session /\ session[c].at = "list" /\ UNCHANGED <<refresh, login, expired, ended>>
    BY DEF SessionsTypeOK, List
  <1>2. CASE session' = [session EXCEPT ![c].at = "answered"]
    <2> DEFINE x == [session[c] EXCEPT !.at = "answered"]
    <2>1. /\ x \in Session /\ x.at = "answered" /\ x.login = session[c].login
          /\ x.token = session[c].token /\ x.surplus = session[c].surplus
      BY <1>1 DEF Session
    <2> QED BY <1>1, <1>2, <2>1
  <1>3. ASSUME NEW old \in SUBSET refresh,
               session' = [session EXCEPT ![c] = [@ EXCEPT !.at = "prune",
                                                          !.surplus = old]]
        PROVE \E x \in Session :
                /\ session' = [session EXCEPT ![c] = x]
                /\ x.at \in {"prune", "answered"}
                /\ x.login = session[c].login /\ x.token = session[c].token
                /\ x.surplus \subseteq refresh \cup session[c].surplus
    <2> DEFINE x == [session[c] EXCEPT !.at = "prune", !.surplus = old]
    <2>1. old \in SUBSET Nat
      BY DEF SessionsTypeOK
    <2>2. /\ x \in Session /\ x.at = "prune" /\ x.login = session[c].login
          /\ x.token = session[c].token /\ x.surplus = old
      BY <1>1, <2>1 DEF Session, Issuing
    <2> QED BY <1>3, <2>2
  <1> QED BY <1>1, <1>2, <1>3 DEF List

LEMMA RotationNext == RotationInv /\ [SessionsNext]_sessionVars => RotationInv'
  <1> SUFFICES ASSUME RotationInv, [SessionsNext]_sessionVars PROVE RotationInv'
    OBVIOUS
  <1>0. SessionsTypeOK /\ SessionsTypeOK'
    BY SessionsNextType DEF RotationInv
  <1>1. ASSUME NEW c \in Calls, SignIn(c) PROVE RotationInv'
    <2>1. /\ Moves(c) /\ ended' = ended /\ session[c].at = "start"
          /\ session'[c].login = session[c].login /\ session'[c].at = "create"
          /\ refresh' = refresh
      BY <1>0, <1>1 DEF SignIn, Moves, SessionsTypeOK, Session
    <2>2. session[c].login = c
      BY <2>1 DEF RotationInv, LoginsInv
    <2>3. /\ c \notin ended
          /\ \A t \in refresh : login[t] # c
          /\ \A d \in Calls : session[d].at = "create" => session[d].login # c
      BY <1>0, <2>1 DEF RotationInv, LoginsInv, SessionsTypeOK
    <2> QED BY <1>0, <2>1, <2>2, <2>3, MovesKeep
  <1>2. ASSUME NEW c \in Calls, NEW t \in 1..Len(login), Refresh(c, t) PROVE RotationInv'
    <2>1. /\ Moves(c) /\ ended' = ended /\ refresh' = refresh
          /\ session'[c].at \in {"delete", "failed"} /\ session[c].at = "start"
          /\ session'[c].login = login[t] /\ session'[c].token = t
          /\ t \in DOMAIN login
      BY <1>0, <1>2 DEF Refresh, Moves, SessionsTypeOK, Session
    <2>2. LoginsInv'
      <3>1. login[t] \in Calls /\ session[login[t]].at # "start"
        BY <1>0, <2>1 DEF SessionsTypeOK, RotationInv, LoginsInv
      <3>2. \A f \in ended' : session'[f].at # "start"
        BY <1>0, <2>1 DEF RotationInv, LoginsInv, SessionsTypeOK, Moves
      <3>3. session'[login[t]].at # "start"
        BY <2>1, <3>1 DEF Moves
      <3>4. LoginsInv
        BY DEF RotationInv
      <3> QED BY <1>0, <2>1, <3>2, <3>3, <3>4, LoginsKept DEF Moves
    <2>3. OneSessionPerLogin' /\ EndedStaysEnded' /\ CreatesLive'
      BY <2>1 DEF RotationInv, OneSessionPerLogin, EndedStaysEnded, CreatesLive, Moves
    <2> QED BY <1>0, <2>2, <2>3 DEF RotationInv
  <1>3. ASSUME NEW c \in Calls, Rotate(c) PROVE RotationInv'
    <2> DEFINE t == session[c].token
    <2>1. /\ Moves(c) /\ ended' = ended /\ session[c].at = "delete"
          /\ session'[c].login = session[c].login
          /\ session'[c].at = IF t \in refresh THEN "create" ELSE "failed"
          /\ refresh' = refresh \ {t}
      BY <1>0, <1>3 DEF Rotate, Moves, SessionsTypeOK, Session
    <2>2. t \in DOMAIN login /\ login[t] = session[c].login
      BY <2>1 DEF RotationInv, LoginsInv
    <2>3. CASE t \in refresh
      <3>1. /\ session[c].login \notin ended
            /\ \A s \in refresh' : login[s] # session[c].login
            /\ \A d \in Calls : session[d].at = "create" =>
                                  session[d].login # session[c].login
        BY <2>1, <2>2, <2>3 DEF RotationInv, OneSessionPerLogin, EndedStaysEnded
      <3> QED BY <1>0, <2>1, <2>3, <3>1, MovesKeep
    <2>4. CASE t \notin refresh
      BY <1>0, <2>1, <2>4, MovesKeep
    <2> QED BY <2>3, <2>4
  <1>4. ASSUME NEW c \in Calls, Create(c) PROVE RotationInv'
    <2> DEFINE n == Len(login) + 1
    <2>1. /\ DOMAIN login = 1..Len(login) /\ Len(login) \in Nat
          /\ DOMAIN login' = DOMAIN login \cup {n} /\ n \notin DOMAIN login
          /\ \A t \in DOMAIN login : login'[t] = login[t]
          /\ login'[n] = session[c].login
      BY <1>0, <1>4 DEF Create, SessionsTypeOK, Session
    <2>2. /\ session[c].at = "create" /\ ended' = ended
          /\ refresh' = refresh \cup {n} /\ refresh \subseteq DOMAIN login
          /\ session'[c].at = "list" /\ session'[c].login = session[c].login
          /\ \A d \in Calls \ {c} : session'[d] = session[d]
      BY <1>0, <1>4, <2>1 DEF Create, SessionsTypeOK, Session
    <2> HIDE DEF n
    <2>3. LoginsInv'
      <3>1. session[c].login \in Calls /\ session[session[c].login].at # "start"
        BY <1>0, <2>2 DEF SessionsTypeOK, Session, RotationInv, LoginsInv
      <3>2. session'[session'[c].login].at # "start"
        BY <2>2, <3>1
      <3>3. \A f \in ended' : session'[f].at # "start"
        BY <1>0, <2>2 DEF RotationInv, LoginsInv, SessionsTypeOK
      <3>4. LoginsInv
        BY DEF RotationInv
      <3> QED BY <1>0, <2>1, <2>2, <3>2, <3>3, <3>4, LoginsKept
    <2>4. OneSessionPerLogin'
      BY <2>1, <2>2 DEF RotationInv, OneSessionPerLogin
    <2>5. EndedStaysEnded' /\ CreatesLive'
      BY <2>1, <2>2 DEF RotationInv, EndedStaysEnded, CreatesLive
    <2> QED BY <1>0, <2>3, <2>4, <2>5 DEF RotationInv
  <1>5. ASSUME NEW c \in Calls, List(c) \/ Prune(c) PROVE RotationInv'
    <2>1. /\ Moves(c) /\ ended' = ended /\ session'[c].login = session[c].login
          /\ session'[c].at \in {"prune", "answered"}
      <3>1. CASE List(c)
        <4>1. session[c].at = "list" /\ UNCHANGED <<refresh, login, ended>>
          BY <3>1 DEF List
        <4>2. PICK x \in Session : /\ session' = [session EXCEPT ![c] = x]
                                  /\ x.at \in {"prune", "answered"}
                                  /\ x.login = session[c].login
          BY <1>0, <3>1, ListMoves
        <4> QED BY <1>0, <4>1, <4>2 DEF Moves, SessionsTypeOK
      <3>2. CASE Prune(c)
        BY <1>0, <3>2 DEF Prune, Moves, SessionsTypeOK, Session
      <3> QED BY <1>5, <3>1, <3>2
    <2> QED BY <1>0, <2>1, MovesKeep
  <1>6. ASSUME NEW c \in Calls, EndSessions(c) PROVE RotationInv'
    <2>1. /\ Moves(c) /\ refresh' = {} /\ ended' = ended \cup Endable
          /\ session'[c].login = session[c].login /\ session'[c].at = "answered"
      BY <1>0, <1>6 DEF EndSessions, Moves, SessionsTypeOK, Session
    <2>2. \A f \in Endable : session[f].at # "start" /\ f \in Calls
      BY DEF Endable, RotationInv, LoginsInv
    <2>3. LoginsInv'
      <3>1. LoginsInv /\ ended \subseteq Calls /\ session[c].login \in Calls
        BY <1>0 DEF RotationInv, SessionsTypeOK, Session
      <3>2. \A d \in Calls : session[d].at # "start" => session'[d].at # "start"
        BY <2>1 DEF Moves
      <3>3. \A f \in ended' : session'[f].at # "start"
        BY <2>1, <2>2, <3>1, <3>2 DEF LoginsInv
      <3>4. session'[session'[c].login].at # "start"
        BY <2>1, <3>1, <3>2 DEF LoginsInv
      <3> QED BY <1>0, <2>1, <3>1, <3>3, <3>4, LoginsKept DEF Moves
    <2>4. OneSessionPerLogin' /\ EndedStaysEnded'
      BY <2>1 DEF RotationInv, OneSessionPerLogin, EndedStaysEnded, Moves
    <2>5. CreatesLive'
      BY <2>1 DEF RotationInv, CreatesLive, Endable, Moves
    <2> QED BY <1>0, <2>3, <2>4, <2>5 DEF RotationInv
  <1>7. ASSUME NEW t \in 1..Len(login), ExpireToken(t) PROVE RotationInv'
    BY <1>0, <1>7 DEF ExpireToken, RotationInv, LoginsInv, OneSessionPerLogin,
                      EndedStaysEnded, CreatesLive
  <1>8. CASE UNCHANGED sessionVars
    BY <1>0, <1>8 DEF sessionVars, RotationInv, LoginsInv, OneSessionPerLogin,
                      EndedStaysEnded, CreatesLive
  <1> QED BY <1>1, <1>2, <1>3, <1>4, <1>5, <1>6, <1>7, <1>8 DEF SessionsNext, SessionStep

(* However refreshes that present the same token overlap, one of them gets *)
(* to make the next token of the login.                                    *)
THEOREM RotationNeverForks == SessionsSpec => []OneSessionPerLogin
  <1>1. RotationInv => OneSessionPerLogin
    BY DEF RotationInv
  <1> QED BY <1>1, RotationInit, RotationNext, PTL DEF SessionsSpec

(* A login that was ended while no call was making its next token has no   *)
(* token from then on.                                                     *)
THEOREM EndedForGood == SessionsSpec => []EndedStaysEnded
  <1>1. RotationInv => EndedStaysEnded
    BY DEF RotationInv
  <1> QED BY <1>1, RotationInit, RotationNext, PTL DEF SessionsSpec

(***************************************************************************)
(* The cap                                                                 *)
(***************************************************************************)

Pruning == {c \in Calls : session[c].at = "prune"}
Surplus(calls) == UNION {session[c].surplus : c \in calls}

(* SessionCap is not inductive: what a call is about to delete was chosen  *)
(* from tokens of which other calls may have deleted some since.  The cap  *)
(* therefore counts, for every set of calls that are about to prune, what  *)
(* will be left once those have.                                           *)
CapInv ==
  \A calls \in SUBSET Pruning :
    Cardinality(refresh \ Surplus(calls)) <= MaxSessions + Cardinality(Over \ calls)

LEMMA FiniteCalls ==
  \A s \in SUBSET Calls : IsFiniteSet(s) /\ Cardinality(s) \in Nat
  BY CallsAssumption, FS_Subset, FS_CardinalityType

LEMMA FiniteTokens ==
  ASSUME SessionsTypeOK
  PROVE  \A s \in SUBSET refresh :
           /\ IsFiniteSet(s) /\ Cardinality(s) \in Nat
           /\ \A r \in SUBSET s : Cardinality(r) <= Cardinality(s)
  <1>1. Len(login) \in Nat
    BY DEF SessionsTypeOK
  <1>2. IsFiniteSet(1..Len(login))
    BY <1>1, FS_Interval
  <1>3. IsFiniteSet(refresh)
    BY <1>2, FS_Subset DEF SessionsTypeOK
  <1>4. \A s \in SUBSET refresh : IsFiniteSet(s)
    BY <1>3, FS_Subset
  <1> QED BY <1>4, FS_Subset, FS_CardinalityType

(* A smaller set of tokens and no fewer calls keep the bound.              *)
LEMMA Shrinks ==
  ASSUME SessionsTypeOK, SessionsTypeOK', CapInv, refresh' \subseteq refresh,
         Over' = Over, Pruning' = Pruning,
         \A c \in Pruning : session'[c].surplus = session[c].surplus
  PROVE  CapInv'
  <1> SUFFICES ASSUME NEW calls \in SUBSET Pruning
               PROVE Cardinality(refresh' \ Surplus(calls)')
                       <= MaxSessions + Cardinality(Over \ calls)
    BY DEF CapInv
  <1>1. Surplus(calls)' = Surplus(calls)
    BY DEF Surplus
  <1>2. refresh' \ Surplus(calls) \subseteq refresh \ Surplus(calls)
    OBVIOUS
  <1>3. /\ Cardinality(refresh' \ Surplus(calls)) <= Cardinality(refresh \ Surplus(calls))
        /\ Cardinality(refresh' \ Surplus(calls)) \in Nat
        /\ Cardinality(refresh \ Surplus(calls)) \in Nat
    BY <1>2, FiniteTokens
  <1>4. Cardinality(refresh \ Surplus(calls)) <= MaxSessions + Cardinality(Over \ calls)
    BY DEF CapInv
  <1>5. MaxSessions \in Nat /\ Cardinality(Over \ calls) \in Nat
    BY FiniteCalls, SessionsAssumption DEF Over
  <1> QED BY <1>1, <1>3, <1>4, <1>5

LEMMA CapNext ==
  SessionsTypeOK /\ SessionsTypeOK' /\ CapInv /\ [SessionsNext]_sessionVars => CapInv'
  <1> SUFFICES ASSUME SessionsTypeOK, SessionsTypeOK', CapInv, [SessionsNext]_sessionVars
               PROVE CapInv'
    OBVIOUS
  <1> USE DEF Over, Pruning
  <1>1. ASSUME NEW c \in Calls, SignIn(c) \/ Rotate(c) \/ EndSessions(c) PROVE CapInv'
    <2>1. /\ refresh' \subseteq refresh /\ Over' = Over /\ Pruning' = Pruning
          /\ \A d \in Pruning : session'[d].surplus = session[d].surplus
      <3>1. CASE SignIn(c)
        BY <3>1 DEF SessionsTypeOK, Session, SignIn
      <3>2. CASE Rotate(c)
        BY <3>2 DEF SessionsTypeOK, Session, Rotate
      <3>3. CASE EndSessions(c)
        BY <3>3 DEF SessionsTypeOK, Session, EndSessions
      <3> QED BY <1>1, <3>1, <3>2, <3>3
    <2> QED BY <2>1, Shrinks
  <1>2. ASSUME NEW c \in Calls, NEW t \in 1..Len(login), Refresh(c, t) PROVE CapInv'
    <2>1. /\ refresh' \subseteq refresh /\ Over' = Over /\ Pruning' = Pruning
          /\ \A d \in Pruning : session'[d].surplus = session[d].surplus
      BY <1>2 DEF SessionsTypeOK, Session, Refresh
    <2> QED BY <2>1, Shrinks
  <1>3. ASSUME NEW c \in Calls, Create(c) PROVE CapInv'
    <2> DEFINE new == Len(login) + 1
    <2> SUFFICES ASSUME NEW calls \in SUBSET Pruning'
                 PROVE Cardinality(refresh' \ Surplus(calls)')
                         <= MaxSessions + Cardinality((Over \ calls)')
      BY DEF CapInv
    <2>1. /\ calls \in SUBSET Pruning /\ c \notin calls /\ c \notin Over
          /\ Over' = Over \cup {c}
          /\ \A d \in Pruning : session'[d].surplus = session[d].surplus
          /\ refresh' = refresh \cup {new}
      BY <1>3 DEF SessionsTypeOK, Session, Create
    <2>2. Surplus(calls)' = Surplus(calls)
      BY <2>1 DEF Surplus
    <2>3. (Over \ calls)' = (Over \ calls) \cup {c} /\ c \notin Over \ calls
      BY <2>1
    <2>4. /\ Cardinality((Over \ calls)') = Cardinality(Over \ calls) + 1
          /\ Cardinality(Over \ calls) \in Nat
      <3>1. IsFiniteSet(Over \ calls) /\ Cardinality(Over \ calls) \in Nat
        BY FiniteCalls
      <3> QED BY <2>3, <3>1, FS_AddElement
    <2> DEFINE left == refresh \ Surplus(calls)
    <2>5. IsFiniteSet(left) /\ Cardinality(left) \in Nat
      BY FiniteTokens
    <2>6. /\ IsFiniteSet(left \cup {new})
          /\ Cardinality(left \cup {new}) <= Cardinality(left) + 1
          /\ Cardinality(left \cup {new}) \in Nat
      <3> HIDE DEF left, new
      <3>1. /\ IsFiniteSet(left \cup {new})
            /\ Cardinality(left \cup {new}) = IF new \in left THEN Cardinality(left)
                                               ELSE Cardinality(left) + 1
        BY <2>5, FS_AddElement
      <3> QED BY <2>5, <3>1
    <2>7. refresh' \ Surplus(calls) \subseteq left \cup {new}
      BY <2>1
    <2>8. /\ Cardinality(refresh' \ Surplus(calls)) <= Cardinality(left \cup {new})
          /\ Cardinality(refresh' \ Surplus(calls)) \in Nat
      <3> HIDE DEF left, new
      <3> QED BY <2>6, <2>7, FS_Subset, FS_CardinalityType
    <2>9. Cardinality(left) <= MaxSessions + Cardinality(Over \ calls)
      BY <2>1 DEF CapInv
    <2> HIDE DEF left, new
    <2> QED BY <2>2, <2>4, <2>5, <2>6, <2>8, <2>9, SessionsAssumption
  <1>4. ASSUME NEW c \in Calls, List(c) PROVE CapInv'
    <2> SUFFICES ASSUME NEW calls \in SUBSET Pruning'
                 PROVE Cardinality(refresh' \ Surplus(calls)')
                         <= MaxSessions + Cardinality((Over \ calls)')
      BY DEF CapInv
    <2>0. /\ refresh' = refresh /\ MaxSessions \in Nat
          /\ Cardinality((Over \ calls)') \in Nat
      <3>1. (Over \ calls)' \in SUBSET Calls
        OBVIOUS
      <3> QED BY <1>4, <3>1, FiniteCalls, SessionsAssumption DEF List
    <2>1. CASE Cardinality(refresh) <= MaxSessions
      <3>1. /\ Cardinality(refresh \ Surplus(calls)') <= Cardinality(refresh)
            /\ Cardinality(refresh \ Surplus(calls)') \in Nat
            /\ Cardinality(refresh) \in Nat
        BY FiniteTokens
      <3> QED BY <2>0, <2>1, <3>1
    <2>2. CASE ~ (Cardinality(refresh) <= MaxSessions)
      <3>1. PICK old \in SUBSET refresh :
              /\ Cardinality(refresh \ old) = MaxSessions
              /\ session' = [session EXCEPT ![c] = [@ EXCEPT !.at = "prune",
                                                             !.surplus = old]]
        BY <1>4, <2>2 DEF List
      <3>2. /\ session'[c].surplus = old /\ session'[c].at = "prune"
            /\ session[c].at = "list"
            /\ \A d \in Calls \ {c} : session'[d] = session[d]
        <4> DEFINE x == [session[c] EXCEPT !.at = "prune", !.surplus = old]
        <4>1. session[c] \in Session /\ session \in [Calls -> Session]
          BY DEF SessionsTypeOK
        <4>2. x.surplus = old /\ x.at = "prune"
          BY <4>1 DEF Session
        <4>3. session' = [session EXCEPT ![c] = x]
          BY <3>1
        <4>4. session[c].at = "list"
          BY <1>4 DEF List
        <4> HIDE DEF x
        <4> QED BY <4>1, <4>2, <4>3, <4>4
      <3>3. CASE c \in calls
        <4>1. refresh \ Surplus(calls)' \subseteq refresh \ old
          BY <3>2, <3>3 DEF Surplus
        <4>2. /\ Cardinality(refresh \ Surplus(calls)') <= Cardinality(refresh \ old)
              /\ Cardinality(refresh \ Surplus(calls)') \in Nat
          BY <4>1, FiniteTokens
        <4> QED BY <2>0, <3>1, <4>2
      <3>4. CASE c \notin calls
        <4>1. calls \in SUBSET Pruning /\ Surplus(calls)' = Surplus(calls) /\ Over' = Over
          BY <3>2, <3>4 DEF Surplus
        <4> QED BY <2>0, <4>1 DEF CapInv
      <3> QED BY <3>3, <3>4
    <2> QED BY <2>1, <2>2
  <1>5. ASSUME NEW c \in Calls, Prune(c) PROVE CapInv'
    <2> SUFFICES ASSUME NEW calls \in SUBSET Pruning'
                 PROVE Cardinality(refresh' \ Surplus(calls)')
                         <= MaxSessions + Cardinality((Over \ calls)')
      BY DEF CapInv
    <2> DEFINE with == calls \cup {c}
    <2>1. /\ with \in SUBSET Pruning /\ c \notin calls /\ c \in Over
          /\ Over' = Over \ {c}
          /\ \A d \in Calls : session'[d].surplus = session[d].surplus
          /\ refresh' = refresh \ session[c].surplus
      BY <1>5 DEF SessionsTypeOK, Session, Prune
    <2>2. refresh' \ Surplus(calls)' = refresh \ Surplus(with)
      BY <2>1 DEF Surplus
    <2>3. (Over \ calls)' = Over \ with
      BY <2>1
    <2> QED BY <2>1, <2>2, <2>3 DEF CapInv
  <1>6. ASSUME NEW t \in 1..Len(login), ExpireToken(t) PROVE CapInv'
    BY <1>6, Shrinks DEF ExpireToken
  <1>7. CASE UNCHANGED sessionVars
    BY <1>7, Shrinks DEF sessionVars
  <1> QED BY <1>1, <1>2, <1>3, <1>4, <1>5, <1>6, <1>7 DEF SessionsNext, SessionStep

LEMMA CapInit == SessionsInit => CapInv
  <1> SUFFICES ASSUME SessionsInit, NEW calls \in SUBSET Pruning
               PROVE Cardinality(refresh \ Surplus(calls))
                       <= MaxSessions + Cardinality(Over \ calls)
    BY DEF CapInv
  <1>1. refresh \ Surplus(calls) = {} /\ SessionsTypeOK
    BY SessionsInitType DEF SessionsInit
  <1>2. Cardinality(Over \ calls) \in Nat
    BY FiniteCalls DEF Over
  <1> QED BY <1>1, <1>2, FS_EmptySet, SessionsAssumption

(* The cap of issueTokens holds up to the calls that have stored a token   *)
(* and not yet pruned; with none of them left, it holds.                   *)
THEOREM CapHolds == SessionsSpec => []SessionCap
  <1>1. SessionsTypeOK /\ CapInv => SessionCap
    <2> SUFFICES ASSUME SessionsTypeOK, CapInv PROVE SessionCap
      OBVIOUS
    <2>1. /\ Surplus({}) = {} /\ {} \in SUBSET Pruning
          /\ refresh \ {} = refresh /\ Over \ {} = Over
      BY DEF Surplus
    <2> QED BY <2>1 DEF CapInv, SessionCap
  <1> QED BY <1>1, SessionsInitType, SessionsNextType, CapInit, CapNext, PTL
          DEF SessionsSpec

(***************************************************************************)
(* TwoFactor: type correctness                                             *)
(***************************************************************************)

(* A row has a secret, and a call that is to claim a code knows whose it   *)
(* is: what the types of the functions over codes rest on.                 *)
SecretInv ==
  /\ factor.id # None => factor.secret \in Calls
  /\ \A c \in Calls : otp[c].at = "claim" => Code(c) \in Calls \X Steps

(* The ways in which a call goes on.                                       *)
LEMMA OtpUpdates ==
  ASSUME NEW x \in Otp
  PROVE  /\ \A p \in {"done", "claimed", "passed", "read", "delete"} :
              [x EXCEPT !.at = p] \in Otp
         /\ \A f \in Calls \cup {None} : [x EXCEPT !.at = "enroll", !.factor = f] \in Otp
         /\ \A purpose \in Purposes, f, s \in Calls \cup {None}, n, m \in Nat :
              [x EXCEPT !.at = "claim", !.for = purpose, !.factor = f, !.secret = s,
                        !.step = n, !.since = m] \in Otp
         /\ \A p \in {"spend", "renew"}, f \in Calls \cup {None}, s \in SUBSET Calls :
              [x EXCEPT !.at = p, !.factor = f, !.set = s] \in Otp
  BY DEF Otp

LEMMA NoFactorType == NoFactor \in Factor
  BY DEF NoFactor, Factor

LEMMA EnrolledType ==
  ASSUME NEW before \in SUBSET Calls, EnrolledBy(before)
  PROVE  /\ backup \in [Calls -> {"none", "unused", "used"}]
         /\ otp \in [Calls -> Otp]
         /\ \A c \in Calls : otp[c].at \in {"start", "done"}
  <1>1. NoCall \in Otp /\ [NoCall EXCEPT !.at = "done"] \in Otp
    BY DEF NoCall, Otp, Purposes
  <1>2. NoCall.at = "start" /\ [NoCall EXCEPT !.at = "done"].at = "done"
    BY DEF NoCall
  <1> QED BY <1>1, <1>2 DEF EnrolledBy

LEMMA TwoFactorInitType == TwoFactorInit => TwoFactorTypeOK /\ SecretInv
  <1> SUFFICES ASSUME TwoFactorInit PROVE TwoFactorTypeOK /\ SecretInv
    OBVIOUS
  <1>1. PICK before \in SUBSET Calls :
          /\ EnrolledBy(before)
          /\ \/ factor = NoFactor /\ challenged = 0
             \/ /\ challenged = ChallengeTTL
                /\ \E c \in Calls : factor = [id |-> c, secret |-> c, enabled |-> TRUE,
                                              expires |-> 0]
    BY DEF TwoFactorInit
  <1>2. /\ factor \in Factor /\ challenged \in Nat
        /\ factor.id # None => factor.secret \in Calls
    <2>1. CASE factor = NoFactor /\ challenged = 0
      BY <2>1, NoFactorType DEF NoFactor
    <2>2. ASSUME NEW c \in Calls,
                 factor = [id |-> c, secret |-> c, enabled |-> TRUE, expires |-> 0],
                 challenged = ChallengeTTL
          PROVE <1>2!1
      BY <2>2, TwoFactorAssumption DEF Factor
    <2> QED BY <1>1, <2>1, <2>2
  <1> QED BY <1>1, <1>2, EnrolledType
          DEF TwoFactorInit, TwoFactorTypeOK, SecretInv

LEMMA TwoFactorNextType ==
  TwoFactorTypeOK /\ SecretInv /\ [TwoFactorNext]_factorVars
    => TwoFactorTypeOK' /\ SecretInv'
  <1> SUFFICES ASSUME TwoFactorTypeOK, SecretInv, [TwoFactorNext]_factorVars
               PROVE TwoFactorTypeOK' /\ SecretInv'
    OBVIOUS
  <1> USE TwoFactorAssumption DEF TwoFactorTypeOK, SecretInv, rows, redis, tokens
  <1>0. /\ factor.id \in Calls \cup {None} /\ factor.secret \in Calls \cup {None}
        /\ \A c \in Calls : otp[c] \in Otp
    BY DEF Factor
  <1>a. ASSUME NEW c \in Calls, NEW x \in Otp, otp' = [otp EXCEPT ![c] = x],
               x.at # "claim"
        PROVE /\ otp' \in [Calls -> Otp]
              /\ \A d \in Calls : otp'[d].at = "claim" => Code(d)' \in Calls \X Steps
    BY <1>a DEF Code
  <1>b. ASSUME NEW c \in Calls, NEW p \in {"done", "claimed", "passed", "read", "delete"},
               Goes(c, p)
        PROVE /\ otp' \in [Calls -> Otp]
              /\ \A d \in Calls : otp'[d].at = "claim" => Code(d)' \in Calls \X Steps
    <2> DEFINE x == [otp[c] EXCEPT !.at = p]
    <2>1. x \in Otp /\ x.at # "claim"
      <3>1. \A q \in {"done", "claimed", "passed", "read", "delete"} :
              [otp[c] EXCEPT !.at = q] \in Otp
        BY <1>0, OtpUpdates
      <3>2. [otp[c] EXCEPT !.at = p].at = p
        BY <1>0 DEF Otp
      <3> QED BY <3>1, <3>2
    <2>2. otp' = [otp EXCEPT ![c] = x]
      BY <1>b DEF Goes
    <2> HIDE DEF x
    <2> QED BY <1>a, <2>1, <2>2
  <1>1. ASSUME NEW c \in Calls, StartEnrollment(c) PROVE TwoFactorTypeOK' /\ SecretInv'
    <2> DEFINE x == [otp[c] EXCEPT !.at = "enroll", !.factor = factor.id]
    <2>1. x \in Otp /\ x.at # "claim"
      <3>1. \A f \in Calls \cup {None} :
              [otp[c] EXCEPT !.at = "enroll", !.factor = f] \in Otp
        BY <1>0, OtpUpdates
      <3>2. x.at = "enroll"
        BY <1>0 DEF Otp
      <3> QED BY <1>0, <3>1, <3>2
    <2>2. otp' = [otp EXCEPT ![c] = x]
      BY <1>1 DEF StartEnrollment, Begins
    <2>3. enrolUntil' \in Nat
      BY <1>1 DEF StartEnrollment
    <2> HIDE DEF x
    <2> QED BY <1>1, <1>a, <2>1, <2>2, <2>3 DEF StartEnrollment
  <1>2. ASSUME NEW c \in Calls, StoreSecret(c) PROVE TwoFactorTypeOK' /\ SecretInv'
    <2>1. factor' \in Factor /\ factor'.secret = c
      BY <1>2, <1>0 DEF StoreSecret, Factor
    <2>2. Goes(c, "done")
      BY <1>2 DEF StoreSecret
    <2> QED BY <1>2, <1>b, <2>1, <2>2 DEF StoreSecret
  <1>3. CASE CleanupExpiredEnrollments
    BY <1>3, NoFactorType DEF CleanupExpiredEnrollments, DropFactor, NoFactor, Code
  <1>4. CASE Challenge
    BY <1>4 DEF Challenge, Code
  <1>t. CASE Tick
    <2>1. now' \in Nat /\ used' \in [Calls \X Steps -> Nat]
      BY <1>t DEF Tick
    <2> QED BY <1>t, <2>1 DEF Tick, Code
  <1>5. ASSUME NEW c \in Calls, NEW purpose \in Purposes, NEW step \in Steps,
               CheckCode(c, purpose, step)
        PROVE TwoFactorTypeOK' /\ SecretInv'
    <2> DEFINE x == [otp[c] EXCEPT !.at = "claim", !.for = purpose, !.factor = factor.id,
                                   !.secret = factor.secret, !.step = step, !.since = now]
    <2>1. x \in Otp
      <3>1. step \in Nat /\ now \in Nat
        BY DEF Steps
      <3>2. \A f, s \in Calls \cup {None}, n, m \in Nat :
              [otp[c] EXCEPT !.at = "claim", !.for = purpose, !.factor = f, !.secret = s,
                             !.step = n, !.since = m] \in Otp
        BY <1>0, OtpUpdates
      <3> QED BY <1>0, <3>1, <3>2
    <2>2. x.secret = factor.secret /\ x.step = step
      BY <1>0 DEF Otp
    <2>3. otp' = [otp EXCEPT ![c] = x] /\ factor.secret \in Calls
      BY <1>5 DEF CheckCode
    <2> HIDE DEF x
    <2>5. \A d \in Calls : otp'[d].at = "claim" => Code(d)' \in Calls \X Steps
      BY <2>2, <2>3 DEF Code
    <2> QED BY <1>5, <2>1, <2>3, <2>5 DEF CheckCode
  <1>6. ASSUME NEW c \in Calls, Claim(c) PROVE TwoFactorTypeOK' /\ SecretInv'
    <2>1. Code(c) \in Calls \X Steps /\ otp[c].secret \in Calls
      BY <1>6 DEF Claim, Code
    <2>2. Goes(c, "claimed")
      BY <1>6 DEF Claim, Accept
    <2>3. /\ used' \in [Calls \X Steps -> Nat] /\ accepted' \in [Calls \X Steps -> Nat]
      BY <1>6, <2>1 DEF Claim, Accept
    <2> QED BY <1>6, <1>b, <2>2, <2>3 DEF Claim
  <1>7. ASSUME NEW c \in Calls, Replayed(c) \/ PassLogin(c) \/ ReadToDisable(c)
        PROVE TwoFactorTypeOK' /\ SecretInv'
    <2>1. \E p \in {"done", "claimed", "passed", "read", "delete"} : Goes(c, p)
      BY <1>7 DEF Replayed, PassLogin, ReadToDisable
    <2> QED BY <1>7, <1>b, <2>1 DEF Replayed, PassLogin, ReadToDisable
  <1>8. ASSUME NEW c \in Calls, Enable(c) PROVE TwoFactorTypeOK' /\ SecretInv'
    <2>1. factor' \in Factor /\ factor'.id = factor.id /\ factor'.secret = factor.secret
      BY <1>8 DEF Enable, Factor
    <2>2. Goes(c, "done")
      BY <1>8 DEF Enable
    <2> QED BY <1>8, <1>b, <2>1, <2>2 DEF Enable
  <1>9. ASSUME NEW c \in Calls, GrantStepUp(c) PROVE TwoFactorTypeOK' /\ SecretInv'
    <2>1. \E p \in {"done", "claimed", "passed", "read", "delete"} : Goes(c, p)
      BY <1>9 DEF GrantStepUp
    <2> QED BY <1>9, <1>b, <2>1 DEF GrantStepUp
  <1>10. ASSUME NEW c \in Calls, Disable(c) PROVE TwoFactorTypeOK' /\ SecretInv'
    <2>1. Goes(c, "done")
      BY <1>10 DEF Disable
    <2> QED BY <1>10, <1>b, <2>1, NoFactorType DEF Disable, DropFactor, NoFactor
  <1>11. ASSUME NEW c \in Calls, NEW g \in Calls, CheckBackup(c, g)
         PROVE TwoFactorTypeOK' /\ SecretInv'
    <2> DEFINE x == [otp[c] EXCEPT !.at = "spend", !.factor = factor.id, !.set = {g}]
    <2>1. x \in Otp /\ x.at # "claim"
      <3>1. {g} \in SUBSET Calls
        OBVIOUS
      <3>2. \A f \in Calls \cup {None}, s \in SUBSET Calls :
              [otp[c] EXCEPT !.at = "spend", !.factor = f, !.set = s] \in Otp
        BY <1>0, OtpUpdates
      <3>3. x.at = "spend"
        BY <1>0 DEF Otp
      <3> QED BY <1>0, <3>1, <3>2, <3>3
    <2>2. otp' = [otp EXCEPT ![c] = x]
      BY <1>11 DEF CheckBackup
    <2> HIDE DEF x
    <2> QED BY <1>11, <1>a, <2>1, <2>2 DEF CheckBackup
  <1>12. ASSUME NEW c \in Calls, SpendBackup(c) PROVE TwoFactorTypeOK' /\ SecretInv'
    <2>1. Goes(c, "passed")
      BY <1>12 DEF SpendBackup
    <2> QED BY <1>12, <1>b, <2>1 DEF SpendBackup
  <1>13. ASSUME NEW c \in Calls, SeeBackups(c) PROVE TwoFactorTypeOK' /\ SecretInv'
    <2> DEFINE seen == {g \in Calls : backup[g] # "none"}
               x == [otp[c] EXCEPT !.at = "renew", !.factor = factor.id, !.set = seen]
    <2>1. x \in Otp /\ x.at # "claim"
      <3>1. seen \in SUBSET Calls
        OBVIOUS
      <3> HIDE DEF seen
      <3>2. \A f \in Calls \cup {None}, s \in SUBSET Calls :
              [otp[c] EXCEPT !.at = "renew", !.factor = f, !.set = s] \in Otp
        BY <1>0, OtpUpdates
      <3>3. x.at = "renew"
        BY <1>0 DEF Otp
      <3> QED BY <1>0, <3>1, <3>2, <3>3
    <2>2. otp' = [otp EXCEPT ![c] = x]
      BY <1>13 DEF SeeBackups
    <2> HIDE DEF x
    <2> QED BY <1>13, <1>a, <2>1, <2>2 DEF SeeBackups
  <1>14. ASSUME NEW c \in Calls, RenewBackups(c) PROVE TwoFactorTypeOK' /\ SecretInv'
    <2>1. Goes(c, "done")
      BY <1>14 DEF RenewBackups
    <2>2. backup' \in [Calls -> {"none", "unused", "used"}]
      BY <1>14 DEF RenewBackups
    <2> QED BY <1>14, <1>b, <2>1, <2>2 DEF RenewBackups
  <1>15. CASE UNCHANGED factorVars
    BY <1>15 DEF factorVars, Code
  <1> QED BY <1>1, <1>2, <1>3, <1>4, <1>t, <1>5, <1>6, <1>7, <1>8, <1>9, <1>10, <1>11,
             <1>12, <1>13, <1>14, <1>15 DEF TwoFactorNext, FactorCall, FactorStep

(* Every variable keeps its type.                                          *)
THEOREM TwoFactorTypeCorrect == TwoFactorSpec => []TwoFactorTypeOK
  BY TwoFactorInitType, TwoFactorNextType, PTL DEF TwoFactorSpec

(***************************************************************************)
(* A one-time code is accepted once                                        *)
(***************************************************************************)

(* A call that is to claim a code checked it when it was valid, at most    *)
(* MaxLag ago.                                                             *)
LagInv ==
  \A c \in Calls : otp[c].at = "claim" =>
    /\ otp[c].step <= otp[c].since + Drift /\ otp[c].since <= otp[c].step + Drift
    /\ otp[c].since <= now /\ now <= otp[c].since + MaxLag

(* The key of an accepted code lives until no call can hold the code as    *)
(* valid any more.                                                         *)
ReplayInv ==
  \A s \in Calls, j \in Steps :
    \/ accepted[<<s, j>>] = 0
    \/ accepted[<<s, j>>] = 1 /\ used[<<s, j>>] + Drift >= j + ReplayTTL

OtpInv == TwoFactorTypeOK /\ SecretInv /\ LagInv /\ ReplayInv

LEMMA OtpInit == TwoFactorInit => OtpInv
  <1> SUFFICES ASSUME TwoFactorInit PROVE OtpInv
    OBVIOUS
  <1>1. \A c \in Calls : otp[c].at # "claim"
    BY EnrolledType DEF TwoFactorInit
  <1>2. ReplayInv
    BY DEF TwoFactorInit, ReplayInv
  <1> QED BY <1>1, <1>2, TwoFactorInitType DEF OtpInv, LagInv

LEMMA OtpNext == OtpInv /\ [TwoFactorNext]_factorVars => OtpInv'
  <1> SUFFICES ASSUME OtpInv, [TwoFactorNext]_factorVars PROVE OtpInv'
    OBVIOUS
  <1> USE TwoFactorAssumption
  <1>0. /\ TwoFactorTypeOK /\ SecretInv /\ LagInv /\ ReplayInv
        /\ TwoFactorTypeOK' /\ SecretInv'
    BY TwoFactorNextType DEF OtpInv
  <1>1. /\ now \in Nat /\ otp \in [Calls -> Otp]
        /\ \A c \in Calls : otp[c].step \in Nat /\ otp[c].since \in Nat
    BY <1>0 DEF TwoFactorTypeOK, Otp
  (* Every step but a claim, a check and a tick leaves what these say alone. *)
  <1>2. ASSUME redis' = redis, now' = now,
               \A c \in Calls : otp'[c].at = "claim" => otp'[c] = otp[c]
        PROVE OtpInv'
    BY <1>0, <1>2 DEF OtpInv, LagInv, ReplayInv, redis
  <1>3. ASSUME NEW c \in Calls, NEW x, otp' = [otp EXCEPT ![c] = x], x.at # "claim",
               redis' = redis, now' = now
        PROVE OtpInv'
    BY <1>1, <1>2, <1>3
  <1>4. ASSUME NEW c \in Calls, NEW p \in {"done", "claimed", "passed", "read", "delete"},
               Goes(c, p)
        PROVE \A d \in Calls : otp'[d].at = "claim" => otp'[d] = otp[d]
    <2>1. [otp[c] EXCEPT !.at = p].at = p
      BY <1>1 DEF Otp
    <2> QED BY <1>1, <1>4, <2>1 DEF Goes
  <1>5. ASSUME NEW c \in Calls, Claim(c) PROVE OtpInv'
    <2> DEFINE s == otp[c].secret
               j == otp[c].step
    <2>1. s \in Calls /\ j \in Steps /\ Code(c) = <<s, j>> /\ otp[c].at = "claim"
      BY <1>0, <1>5 DEF Claim, SecretInv, Code
    <2>2. /\ now >= used[<<s, j>>]
          /\ used' = [used EXCEPT ![<<s, j>>] = now + ReplayTTL]
          /\ accepted' = [accepted EXCEPT ![<<s, j>>] = @ + 1]
          /\ Goes(c, "claimed") /\ now' = now
      BY <1>5, <2>1 DEF Claim, Accept
    <2>3. now <= j + Drift + MaxLag /\ now + Drift >= j
      BY <1>0, <1>1, <2>1 DEF LagInv
    <2>4. accepted[<<s, j>>] = 0
      <3>1. used[<<s, j>>] \in Nat /\ j \in Nat
        BY <1>0, <2>1 DEF TwoFactorTypeOK, Steps
      <3>2. ~ (used[<<s, j>>] + Drift >= j + ReplayTTL)
        BY <1>1, <2>2, <2>3, <3>1
      <3> QED BY <1>0, <2>1, <3>2 DEF ReplayInv
    <2>5. ReplayInv'
      <3> SUFFICES ASSUME NEW t \in Calls, NEW i \in Steps
                   PROVE \/ accepted'[<<t, i>>] = 0
                         \/ /\ accepted'[<<t, i>>] = 1
                            /\ used'[<<t, i>>] + Drift >= i + ReplayTTL
        BY DEF ReplayInv
      <3>1. /\ used \in [Calls \X Steps -> Nat] /\ accepted \in [Calls \X Steps -> Nat]
            /\ j \in Nat
        BY <1>0, <2>1 DEF TwoFactorTypeOK, Steps
      <3>2. CASE t = s /\ i = j
        <4>1. accepted'[<<s, j>>] = 1 /\ used'[<<s, j>>] = now + ReplayTTL
          BY <2>1, <2>2, <2>4, <3>1
        <4> QED BY <1>1, <2>3, <3>1, <3>2, <4>1
      <3>3. CASE ~ (t = s /\ i = j)
        <4>1. <<t, i>> # <<s, j>>
          BY <3>3
        <4>2. accepted'[<<t, i>>] = accepted[<<t, i>>] /\ used'[<<t, i>>] = used[<<t, i>>]
          BY <2>1, <2>2, <3>1, <4>1
        <4> QED BY <1>0, <4>2 DEF ReplayInv
      <3> QED BY <3>2, <3>3
    <2>6. LagInv'
      BY <1>0, <1>4, <2>2 DEF LagInv
    <2> QED BY <1>0, <2>5, <2>6 DEF OtpInv
  <1>6. ASSUME NEW c \in Calls, NEW purpose \in Purposes, NEW step \in Steps,
               CheckCode(c, purpose, step)
        PROVE OtpInv'
    <2>1. /\ \A d \in Calls \ {c} : otp'[d] = otp[d]
          /\ otp'[c].step = step /\ otp'[c].since = now
          /\ step <= now + Drift /\ now <= step + Drift /\ step \in Nat
          /\ now' = now /\ redis' = redis
      BY <1>1, <1>6 DEF CheckCode, Accepts, Otp, Steps
    <2>2. LagInv'
      BY <1>0, <1>1, <2>1 DEF LagInv
    <2> QED BY <1>0, <2>1, <2>2 DEF OtpInv, ReplayInv, redis
  <1>7. CASE Tick
    <2>1. LagInv'
      BY <1>0, <1>1, <1>7 DEF Tick, LagInv
    <2> QED BY <1>0, <1>7, <2>1 DEF Tick, OtpInv, ReplayInv, redis
  <1>8. CASE CleanupExpiredEnrollments \/ Challenge
    BY <1>2, <1>8 DEF CleanupExpiredEnrollments, Challenge
  <1>9. ASSUME NEW c \in Calls, StoreSecret(c) \/ Replayed(c) \/ Enable(c) \/ PassLogin(c)
          \/ GrantStepUp(c) \/ ReadToDisable(c) \/ Disable(c) \/ SpendBackup(c)
          \/ RenewBackups(c)
        PROVE OtpInv'
    <2>1. \E p \in {"done", "claimed", "passed", "read", "delete"} : Goes(c, p)
      BY <1>9 DEF StoreSecret, Replayed, Enable, PassLogin, GrantStepUp, ReadToDisable,
                  Disable, SpendBackup, RenewBackups
    <2>2. redis' = redis /\ now' = now
      BY <1>9 DEF StoreSecret, Replayed, Enable, PassLogin, GrantStepUp, ReadToDisable,
                  Disable, SpendBackup, RenewBackups
    <2> QED BY <1>2, <1>4, <2>1, <2>2
  <1>10. ASSUME NEW c \in Calls, StartEnrollment(c) \/ SeeBackups(c)
                \/ \E g \in Calls : CheckBackup(c, g)
         PROVE OtpInv'
    <2>1. /\ otp'[c].at # "claim" /\ \A d \in Calls \ {c} : otp'[d] = otp[d]
          /\ redis' = redis /\ now' = now
      <3>1. CASE StartEnrollment(c)
        BY <1>1, <3>1 DEF StartEnrollment, Begins, Otp
      <3>2. CASE SeeBackups(c)
        BY <1>1, <3>2 DEF SeeBackups, Otp
      <3>3. ASSUME NEW g \in Calls, CheckBackup(c, g)
            PROVE /\ otp'[c].at # "claim" /\ \A d \in Calls \ {c} : otp'[d] = otp[d]
                  /\ redis' = redis /\ now' = now
        BY <1>1, <3>3 DEF CheckBackup, Otp
      <3> QED BY <1>10, <3>1, <3>2, <3>3
    <2> QED BY <1>2, <2>1
  <1>11. CASE UNCHANGED factorVars
    BY <1>2, <1>11 DEF factorVars
  <1> QED BY <1>5, <1>6, <1>7, <1>8, <1>9, <1>10, <1>11
          DEF TwoFactorNext, FactorCall, FactorStep

(* A one-time code is accepted once, for any drift and lag with            *)
(* 2 * Drift + MaxLag < ReplayTTL: a code is valid for 2 * Drift + 1 steps *)
(* and its key must outlive them and the time a call takes to claim it.    *)
THEOREM CodesAreSingleUse == TwoFactorSpec => []OtpSingleUse
  <1>1. OtpInv => OtpSingleUse
    <2> SUFFICES ASSUME OtpInv, NEW s \in Calls, NEW j \in Steps
                 PROVE accepted[<<s, j>>] <= 1
      BY DEF OtpSingleUse
    <2>1. accepted[<<s, j>>] \in {0, 1}
      BY DEF OtpInv, ReplayInv
    <2> QED BY <2>1
  <1> QED BY <1>1, OtpInit, OtpNext, PTL DEF TwoFactorSpec

(***************************************************************************)
(* A backup code that has been accepted is dead                            *)
(***************************************************************************)

(* A set of backup codes is made by a call that ends with it: until then   *)
(* nobody has found or spent a code of that set.                           *)
FreshInv ==
  \A c \in Calls : otp[c].at # "done" =>
    /\ backup[c] = "none"
    /\ spent[c] = 0
    /\ \A d \in Calls : otp[d].at = "spend" => c \notin otp[d].set

SpentInv == TwoFactorTypeOK /\ SecretInv /\ SpentIsDead /\ FreshInv

(* A step of a call that neither finds a code nor touches one.             *)
LEMMA SpentMoves ==
  ASSUME TwoFactorTypeOK, SpentIsDead, FreshInv, NEW c \in Calls, NEW x \in Otp,
         otp' = [otp EXCEPT ![c] = x], otp[c].at # "done", x.at # "spend",
         UNCHANGED <<backup, spent>>
  PROVE  SpentIsDead' /\ FreshInv'
  <1>1. \A d \in Calls : /\ otp'[d].at # "done" => otp[d].at # "done"
                         /\ otp'[d].at = "spend" => otp'[d] = otp[d]
    BY DEF TwoFactorTypeOK
  <1> QED BY <1>1 DEF SpentIsDead, FreshInv

LEMMA SpentGoes ==
  ASSUME TwoFactorTypeOK, NEW c \in Calls, NEW place \in {"done", "claimed", "passed",
                                                          "read", "delete"},
         Goes(c, place)
  PROVE  \E x \in Otp : otp' = [otp EXCEPT ![c] = x] /\ x.at = place
  <1> DEFINE x == [otp[c] EXCEPT !.at = place]
  <1>1. otp[c] \in Otp
    BY DEF TwoFactorTypeOK
  <1>2. x \in Otp
    BY <1>1, OtpUpdates
  <1>3. x.at = place
    BY <1>1 DEF Otp
  <1>4. otp' = [otp EXCEPT ![c] = x]
    BY DEF Goes
  <1> QED BY <1>2, <1>3, <1>4

LEMMA SpentNext == SpentInv /\ [TwoFactorNext]_factorVars => SpentInv'
  <1> SUFFICES ASSUME SpentInv, [TwoFactorNext]_factorVars
               PROVE  SpentIsDead' /\ FreshInv'
    BY TwoFactorNextType DEF SpentInv
  <1>0. /\ TwoFactorTypeOK /\ SpentIsDead /\ FreshInv
        /\ otp \in [Calls -> Otp] /\ \A c \in Calls : otp[c] \in Otp
        /\ factor.id \in Calls \cup {None} /\ factor.secret \in Calls \cup {None}
        /\ backup \in [Calls -> {"none", "unused", "used"}] /\ spent \in [Calls -> Nat]
        /\ now \in Nat
    BY DEF SpentInv, TwoFactorTypeOK, Factor
  <1>1. ASSUME NEW c \in Calls, StartEnrollment(c) PROVE SpentIsDead' /\ FreshInv'
    <2> DEFINE x == [otp[c] EXCEPT !.at = "enroll", !.factor = factor.id]
    <2>1. x \in Otp
      BY <1>0, OtpUpdates
    <2>2. x.at = "enroll"
      BY <1>0 DEF Otp
    <2>3. /\ otp' = [otp EXCEPT ![c] = x] /\ otp[c].at = "start"
          /\ UNCHANGED <<backup, spent>>
      BY <1>1 DEF StartEnrollment, Begins, rows
    <2> HIDE DEF x
    <2> QED BY <1>0, <2>1, <2>2, <2>3, SpentMoves
  <1>2. ASSUME NEW c \in Calls, NEW purpose \in Purposes, NEW step \in Steps,
               CheckCode(c, purpose, step)
        PROVE SpentIsDead' /\ FreshInv'
    <2> DEFINE x == [otp[c] EXCEPT !.at = "claim", !.for = purpose, !.factor = factor.id,
                                   !.secret = factor.secret, !.step = step, !.since = now]
    <2>1. x \in Otp
      <3>1. step \in Nat
        BY TwoFactorAssumption DEF Steps
      <3>2. \A f, s \in Calls \cup {None}, n, m \in Nat :
              [otp[c] EXCEPT !.at = "claim", !.for = purpose, !.factor = f, !.secret = s,
                             !.step = n, !.since = m] \in Otp
        BY <1>0, OtpUpdates
      <3> QED BY <1>0, <3>1, <3>2
    <2>2. x.at = "claim"
      BY <1>0 DEF Otp
    <2>3. /\ otp' = [otp EXCEPT ![c] = x] /\ otp[c].at = "start"
          /\ UNCHANGED <<backup, spent>>
      BY <1>2 DEF CheckCode, rows
    <2> HIDE DEF x
    <2> QED BY <1>0, <2>1, <2>2, <2>3, SpentMoves
  (* A code is found: the call that made its set has ended.                *)
  <1>3. ASSUME NEW c \in Calls, NEW g \in Calls, CheckBackup(c, g)
        PROVE SpentIsDead' /\ FreshInv'
    <2>1. otp[g].at = "done"
      BY <1>0, <1>3 DEF CheckBackup, FreshInv
    <2>2. /\ otp'[c].set = {g} /\ otp'[c].at = "spend" /\ otp[c].at = "start"
          /\ \A d \in Calls \ {c} : otp'[d] = otp[d]
          /\ UNCHANGED <<backup, spent>>
      BY <1>0, <1>3 DEF CheckBackup, rows, Otp
    <2>3. \A b \in Calls : otp'[b].at # "done" => otp[b].at # "done"
      BY <2>2
    <2> QED BY <1>0, <2>1, <2>2, <2>3 DEF SpentIsDead, FreshInv
  (* A code is spent: it is marked in the same step.                       *)
  <1>4. ASSUME NEW c \in Calls, SpendBackup(c) PROVE SpentIsDead' /\ FreshInv'
    <2>1. PICK x \in Otp : otp' = [otp EXCEPT ![c] = x] /\ x.at = "passed"
      BY <1>0, <1>4, SpentGoes DEF SpendBackup
    <2>2. \A g \in otp[c].set : g \in Calls => otp[g].at = "done"
      BY <1>0, <1>4 DEF SpendBackup, FreshInv
    <2>3. \A d \in Calls : /\ otp'[d].at # "done" => otp[d].at # "done"
                           /\ otp'[d].at = "spend" => otp'[d] = otp[d]
      BY <1>0, <1>4, <2>1 DEF SpendBackup
    <2>4. \A g \in Calls : IF g \in otp[c].set
                           THEN backup'[g] = "used"
                           ELSE backup'[g] = backup[g] /\ spent'[g] = spent[g]
      BY <1>4 DEF SpendBackup
    <2>5. SpentIsDead'
      BY <1>0, <2>4 DEF SpentIsDead
    <2>6. FreshInv'
      BY <1>0, <2>2, <2>3, <2>4 DEF FreshInv
    <2> QED BY <2>5, <2>6
  (* A set is made: nobody has spent a code of it.                         *)
  <1>5. ASSUME NEW c \in Calls, Enable(c) \/ RenewBackups(c)
        PROVE SpentIsDead' /\ FreshInv'
    <2>1. /\ otp[c].at \in {"claimed", "renew"} /\ Goes(c, "done") /\ spent' = spent
          /\ \A g \in Calls \ {c} : backup'[g] \in {backup[g], "none"}
      BY <1>0, <1>5 DEF Enable, RenewBackups, Claimed
    <2>2. PICK x \in Otp : otp' = [otp EXCEPT ![c] = x] /\ x.at = "done"
      BY <1>0, <2>1, SpentGoes
    <2>3. \A d \in Calls : /\ otp'[d].at # "done" => otp[d].at # "done" /\ d # c
                           /\ otp'[d].at = "spend" => otp'[d] = otp[d]
      BY <1>0, <2>1, <2>2
    <2>4. spent[c] = 0
      BY <1>0, <2>1 DEF FreshInv
    <2>5. SpentIsDead'
      BY <1>0, <2>1, <2>4 DEF SpentIsDead
    <2>6. FreshInv'
      BY <1>0, <2>1, <2>3 DEF FreshInv
    <2> QED BY <2>5, <2>6
  <1>6. ASSUME NEW c \in Calls, Disable(c) PROVE SpentIsDead' /\ FreshInv'
    <2>1. PICK x \in Otp : otp' = [otp EXCEPT ![c] = x] /\ x.at = "done"
      BY <1>0, <1>6, SpentGoes DEF Disable
    <2>2. \A d \in Calls : /\ otp'[d].at # "done" => otp[d].at # "done"
                           /\ otp'[d].at = "spend" => otp'[d] = otp[d]
      BY <1>0, <1>6, <2>1
    <2>3. spent' = spent /\ \A g \in Calls : backup'[g] = "none"
      BY <1>6 DEF Disable, DropFactor
    <2> QED BY <1>0, <2>2, <2>3 DEF SpentIsDead, FreshInv
  (* The other steps of a call that is under way.                          *)
  <1>7. ASSUME NEW c \in Calls,
               \/ StoreSecret(c) \/ Claim(c) \/ Replayed(c) \/ PassLogin(c)
               \/ GrantStepUp(c) \/ ReadToDisable(c)
        PROVE SpentIsDead' /\ FreshInv'
    <2>1. /\ otp[c].at \in {"enroll", "claim", "claimed"}
          /\ \E p \in {"done", "claimed", "passed", "read", "delete"} : Goes(c, p)
          /\ UNCHANGED <<backup, spent>>
      BY <1>7 DEF StoreSecret, Claim, Accept, Replayed, PassLogin, GrantStepUp,
                  ReadToDisable, Claimed, rows
    <2>2. \E x \in Otp : otp' = [otp EXCEPT ![c] = x] /\ x.at # "spend"
      BY <1>0, <2>1, SpentGoes
    <2> QED BY <1>0, <2>1, <2>2, SpentMoves
  <1>8. ASSUME NEW c \in Calls, SeeBackups(c) PROVE SpentIsDead' /\ FreshInv'
    <2> DEFINE seen == {g \in Calls : backup[g] # "none"}
               x == [otp[c] EXCEPT !.at = "renew", !.factor = factor.id, !.set = seen]
    <2>1. x \in Otp
      <3>1. seen \in SUBSET Calls
        OBVIOUS
      <3> HIDE DEF seen
      <3> QED BY <1>0, <3>1, OtpUpdates
    <2>2. x.at = "renew"
      BY <1>0 DEF Otp
    <2>3. /\ otp' = [otp EXCEPT ![c] = x] /\ otp[c].at = "read"
          /\ UNCHANGED <<backup, spent>>
      BY <1>8 DEF SeeBackups, rows
    <2> HIDE DEF x
    <2> QED BY <1>0, <2>1, <2>2, <2>3, SpentMoves
  <1>9. CASE CleanupExpiredEnrollments
    BY <1>0, <1>9 DEF CleanupExpiredEnrollments, DropFactor, SpentIsDead, FreshInv
  <1>10. CASE Challenge \/ Tick \/ UNCHANGED factorVars
    <2>1. UNCHANGED <<backup, spent, otp>>
      BY <1>10 DEF Challenge, Tick, factorVars, rows
    <2> QED BY <1>0, <2>1 DEF SpentIsDead, FreshInv
  <1> QED BY <1>1, <1>2, <1>3, <1>4, <1>5, <1>6, <1>7, <1>8, <1>9, <1>10
          DEF TwoFactorNext, FactorCall, FactorStep

LEMMA SpentInit == TwoFactorInit => SpentInv
  <1> SUFFICES ASSUME TwoFactorInit PROVE SpentIsDead /\ FreshInv
    BY TwoFactorInitType DEF SpentInv
  <1>1. PICK before \in SUBSET Calls : EnrolledBy(before)
    BY DEF TwoFactorInit
  <1>2. /\ \A c \in Calls : spent[c] = 0
        /\ \A c \in Calls : c \notin before => backup[c] = "none"
    BY <1>1 DEF TwoFactorInit, EnrolledBy
  <1>3. \A c \in Calls : /\ otp[c].at \in {"start", "done"}
                         /\ c \in before => otp[c].at = "done"
    BY <1>1 DEF EnrolledBy, NoCall
  <1> QED BY <1>2, <1>3 DEF SpentIsDead, FreshInv

(* A backup code that has been accepted is never again found unused,       *)
(* however the calls of TwoFactorService overlap.                          *)
THEOREM SpentCodesAreDead == TwoFactorSpec => []SpentIsDead
  <1>1. SpentInv => SpentIsDead
    BY DEF SpentInv
  <1> QED BY <1>1, SpentInit, SpentNext, PTL DEF TwoFactorSpec
=============================================================================
