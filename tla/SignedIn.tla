------------------------------- MODULE SignedIn -------------------------------
(***************************************************************************)
(* Who is signed in to the web client: the user that AuthProvider gives to *)
(* the pages, and the user whose tokens lib/auth.ts keeps in local storage *)
(* and sends along.  The two are written in different places: a sign-in    *)
(* and a sign-out write both, but a request that is answered 401 trades    *)
(* the tokens in on its own, and stores or clears them without a word to   *)
(* AuthProvider.                                                           *)
(*                                                                         *)
(* One window, which shows the form of LoginForm or RegisterForm, the      *)
(* profile, or any other page ("home").  That a refresh may be refused for *)
(* its token is in AccountSecurity; here it succeeds or fails.             *)
(***************************************************************************)
EXTENDS Pages

CONSTANT
  Users          (* accounts that are used in this browser                   *)

ASSUME UsersAssumption == None \notin Users

VARIABLES
  visiting,      (* the page that is open                                    *)
  heading,       (* the page the router has been told to show, or None       *)
  signedIn,      (* AuthProvider's user, or None                             *)
  kept,          (* whose tokens are stored, or None                         *)
  sending,       (* the form waits for its answer                            *)
  menu,          (* the menu of the header is open                           *)
  profile,       (* whose profile the profile page has loaded, or None       *)
  due,           (* the profile page has yet to load it                      *)
  trip,          (* the calls                                                *)
  overtaken,     (* a sign-in or a sign-out came while a refresh was waiting *)
  strayed        (* a sign-in was answered over the open profile page        *)

signView == <<visiting, heading, sending, menu, profile, due, strayed>>
signVars == <<signView, signedIn, kept, trip, overtaken>>

SignPages == {"home", "login", "register", "profile"}

(* What a call is for, how far it is, and whose account it is about: whose *)
(* token it was sent with.  The component that made it may be gone.        *)
Trip == [does : {"none", "login", "register", "request"},
             at : {"start", "asked", "refreshing", "again", "ended"},
             as : Users \cup {None}, heard : BOOLEAN]
NewTrip == [does |-> "none", at |-> "start", as |-> None, heard |-> FALSE]
TripOver == [NewTrip EXCEPT !.at = "ended"]

SignTypeOK ==
  /\ visiting \in SignPages /\ heading \in SignPages \cup {None}
  /\ signedIn \in Users \cup {None} /\ kept \in Users \cup {None}
  /\ profile \in Users \cup {None}
  /\ sending \in BOOLEAN /\ menu \in BOOLEAN
  /\ due \in BOOLEAN /\ overtaken \in BOOLEAN /\ strayed \in BOOLEAN
  /\ trip \in [Calls -> Trip]

(* The client has just been loaded, with what an earlier visit has stored. *)
SignInit ==
  /\ visiting = "home" /\ heading = None
  /\ kept \in Users \cup {None} /\ signedIn = kept
  /\ profile = None
  /\ sending = FALSE /\ menu = FALSE /\ due = FALSE
  /\ overtaken = FALSE /\ strayed = FALSE
  /\ trip = [c \in Calls |-> NewTrip]

Begins(c, what, who, heard) ==
  trip' = [trip EXCEPT ![c] =
             [does |-> what, at |-> "asked", as |-> who, heard |-> heard]]

TripEnds(c) == trip' = [trip EXCEPT ![c] = TripOver]

(* A page is left: its component hears no answers, but what was begun goes *)
(* on.                                                                     *)
Left(calls) == [c \in Calls |-> [calls[c] EXCEPT !.heard = FALSE]]

Shows(p) ==
  /\ visiting' = p /\ heading' = None /\ strayed' = FALSE
  /\ sending' = FALSE
  /\ profile' = None
  /\ due' = (p = "profile")

(* Somebody else is signed in, or nobody, while a refresh is under way.    *)
Overtakes ==
  overtaken' = (overtaken \/ \E c \in Calls : trip[c].at = "refreshing")

-----------------------------------------------------------------------------
(* Pages *)

(* The client is loaded anew: no earlier call is heard of any more, and    *)
(* AuthProvider starts with what is stored.                                *)
Open ==
  /\ \E p \in SignPages : Shows(p)
  /\ signedIn' = kept
  /\ menu' = FALSE
  /\ trip' = [c \in Calls |-> IF trip[c].at = "start" THEN trip[c] ELSE TripOver]
  /\ overtaken' = FALSE
  /\ UNCHANGED kept

(* A page is shown when the router is done with it.  What it was told      *)
(* before is dropped, also for a link to the page that is open already,    *)
(* which stays as it is.                                                   *)
Goes(p) ==
  /\ \/ p # visiting /\ Shows(p) /\ trip' = Left(trip)
     \/ /\ p = visiting /\ heading' = None
        /\ UNCHANGED <<visiting, sending, profile, due, strayed, trip>>
  /\ UNCHANGED <<signedIn, kept, overtaken>>

(* router.push of a sign-in or a sign-out, a transition, is done.          *)
Arrive ==
  /\ heading # None
  /\ Goes(heading)
  /\ UNCHANGED menu

(* A click beside the menu closes it.                                      *)
FollowHeader == Goes("home") /\ menu' = FALSE

FollowVisitor ==
  /\ signedIn = None
  /\ Goes("login") \/ Goes("register")
  /\ menu' = FALSE

(* The menu is there for whoever is signed in.                             *)
MenuOpen == signedIn # None /\ menu

FollowMenu ==
  /\ MenuOpen
  /\ Goes("profile") \/ Goes("home")
  /\ menu' = FALSE

(* Links of the pages themselves.  A click on one closes the menu.         *)
LoginFormLinks ==
  /\ visiting = "login" /\ signedIn = None
  /\ Goes("register") \/ Goes("home")
  /\ menu' = FALSE

RegisterFormLinks ==
  /\ visiting = "register" /\ signedIn = None
  /\ Goes("login")
  /\ menu' = FALSE

QuickActions ==
  /\ visiting = "profile" /\ signedIn # None
  /\ Goes("home")
  /\ menu' = FALSE

(* The history of the browser.                                             *)
GoBack ==
  /\ \E p \in SignPages : Goes(p)
  /\ UNCHANGED menu

(* The forms are not for those who are signed in, the profile is not for   *)
(* the others.                                                             *)
Redirect ==
  /\ \/ visiting \in {"login", "register"} /\ signedIn # None /\ Goes("home")
     \/ visiting = "profile" /\ signedIn = None /\ Goes("login")
  /\ UNCHANGED menu

-----------------------------------------------------------------------------
(* Signing in and out *)

LoginFormReady == visiting = "login" /\ signedIn = None /\ ~sending
RegisterFormReady == visiting = "register" /\ signedIn = None /\ ~sending

SubmitLogin(c, user) ==
  /\ trip[c].at = "start"
  /\ LoginFormReady
  /\ sending' = TRUE
  /\ Begins(c, "login", user, TRUE)
  /\ UNCHANGED <<visiting, heading, menu, profile, due, strayed, signedIn, kept, overtaken>>

SubmitRegister(c, user) ==
  /\ trip[c].at = "start"
  /\ RegisterFormReady
  /\ sending' = TRUE
  /\ Begins(c, "register", user, TRUE)
  /\ UNCHANGED <<visiting, heading, menu, profile, due, strayed, signedIn, kept, overtaken>>

SignsIn(c) == trip[c].does \in {"login", "register"} /\ trip[c].at = "asked"

(* Where a sign-in leads: to where the address of a login page says, or    *)
(* home, which is also where that page redirects to.                       *)
LeadsTo(c) ==
  {"home"} \cup {p \in {"profile"} : trip[c].does = "login" /\ visiting = "login"}

(* Even if the form has been left: the tokens are stored, the user is set, *)
(* and the router is told to leave the page, whichever it is.  Until it    *)
(* does the page stays, with what it has loaded, and hears its answers.    *)
SignedInAs(c) ==
  /\ SignsIn(c)
  /\ kept' = trip[c].as /\ signedIn' = trip[c].as
  /\ sending' = (sending /\ ~trip[c].heard)
  /\ heading' \in LeadsTo(c)
  /\ strayed' = (strayed \/ visiting = "profile")
  /\ TripEnds(c)
  /\ Overtakes
  /\ UNCHANGED <<visiting, menu, profile, due>>

(* Refused, not answered, or answered with a challenge for a second        *)
(* factor, which authResponseSchema does not know.                         *)
SignInFails(c) ==
  /\ SignsIn(c)
  /\ sending' = (sending /\ ~trip[c].heard)
  /\ TripEnds(c)
  /\ UNCHANGED <<visiting, heading, menu, profile, due, strayed, signedIn, kept, overtaken>>

ToggleMenu ==
  /\ signedIn # None
  /\ menu' = ~menu
  /\ UNCHANGED <<visiting, heading, sending, profile, due, strayed, signedIn, kept,
                 trip, overtaken>>

(* The profile page leads to the form, the menu leads home.                *)
SignedOutTo == {"home"} \cup {p \in {"login"} : visiting = "profile"}

(* A mutant: AuthProvider forgets the user and leaves the tokens.          *)
LogoutKeepsTokens ==
  /\ MenuOpen
  /\ signedIn' = None
  /\ menu' = FALSE
  /\ heading' \in SignedOutTo
  /\ Overtakes
  /\ UNCHANGED <<visiting, sending, profile, due, strayed, trip, kept>>

(* Again the page stays until the router has left it.                      *)
Logout ==
  /\ MenuOpen
  /\ kept' = None /\ signedIn' = None
  /\ menu' = FALSE
  /\ heading' \in SignedOutTo
  /\ Overtakes
  /\ UNCHANGED <<visiting, sending, profile, due, strayed, trip>>

-----------------------------------------------------------------------------
(* Requests *)

LoadProfile(c) ==
  /\ trip[c].at = "start"
  /\ visiting = "profile" /\ due
  /\ due' = FALSE
  /\ Begins(c, "request", kept, TRUE)
  /\ UNCHANGED <<visiting, heading, sending, menu, profile, strayed, signedIn, kept,
                 overtaken>>

(* Any other request, of which only the tokens are followed.               *)
AuthenticatedFetch(c) ==
  /\ trip[c].at = "start"
  /\ Begins(c, "request", kept, FALSE)
  /\ UNCHANGED <<signView, signedIn, kept, overtaken>>

RequestAt(c, places) == trip[c].does = "request" /\ trip[c].at \in places

(* The answer is about the account of the token that was sent.             *)
ProfileArrives(c) ==
  /\ RequestAt(c, {"asked", "again"}) /\ trip[c].as # None
  /\ profile' = IF trip[c].heard THEN trip[c].as ELSE profile
  /\ TripEnds(c)
  /\ UNCHANGED <<visiting, heading, sending, menu, due, strayed, signedIn, kept,
                 overtaken>>

(* The page shows the user's name, and beside it what it has loaded.       *)
ShownProfile == IF visiting = "profile" /\ signedIn # None THEN profile ELSE None

RequestFails(c) ==
  /\ RequestAt(c, {"asked", "again"})
  /\ TripEnds(c)
  /\ UNCHANGED <<signView, signedIn, kept, overtaken>>

(* Answered 401: the refresh takes the token that is stored by now.        *)
StartRefresh(c) ==
  /\ RequestAt(c, {"asked"}) /\ kept # None
  /\ trip' = [trip EXCEPT ![c].at = "refreshing", ![c].as = kept]
  /\ UNCHANGED <<signView, signedIn, kept, overtaken>>

(* The new tokens are stored over whatever is there, and the request is    *)
(* repeated with them.                                                     *)
RefreshArrives(c) ==
  /\ RequestAt(c, {"refreshing"})
  /\ kept' = trip[c].as
  /\ trip' = [trip EXCEPT ![c].at = "again"]
  /\ UNCHANGED <<signView, signedIn, overtaken>>

(* Whatever is stored is cleared; the user stays signed in to the eye.     *)
RefreshFails(c) ==
  /\ RequestAt(c, {"refreshing"})
  /\ kept' = None
  /\ TripEnds(c)
  /\ UNCHANGED <<signView, signedIn, overtaken>>

SignCall(c) ==
  \/ \E user \in Users : SubmitLogin(c, user) \/ SubmitRegister(c, user)
  \/ LoadProfile(c) \/ AuthenticatedFetch(c)

SignStep(c) ==
  \/ SignedInAs(c) \/ SignInFails(c)
  \/ ProfileArrives(c) \/ RequestFails(c)
  \/ StartRefresh(c) \/ RefreshArrives(c) \/ RefreshFails(c)

SignAct ==
  \/ Open \/ FollowHeader \/ FollowVisitor \/ FollowMenu
  \/ LoginFormLinks \/ RegisterFormLinks \/ QuickActions \/ GoBack \/ Redirect
  \/ Arrive
  \/ ToggleMenu \/ Logout

SignNext == (\E c \in Calls : SignCall(c) \/ SignStep(c)) \/ SignAct

SignSpec == SignInit /\ [][SignNext]_signVars

-----------------------------------------------------------------------------
(* Properties *)

(* Requests are made for the user that is shown, or for nobody, and the    *)
(* profile that is shown is that user's, however sign-ins, sign-outs and   *)
(* pages overlap.  There are two exceptions.  A refresh that was under way *)
(* when somebody signed in or out brings back the tokens of the user       *)
(* before.  And when a form that had been left is answered while the       *)
(* profile page is open, that page shows the profile it has, or is yet to  *)
(* hear, under the new name, until it is left.                             *)
TokensOfShownUser ==
  ~overtaken => /\ kept \in {None, signedIn}
                /\ strayed \/ ShownProfile \in {None, signedIn}
=============================================================================
