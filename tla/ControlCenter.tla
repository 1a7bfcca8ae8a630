---------------------------- MODULE ControlCenter ----------------------------
(***************************************************************************)
(* The administrator's page (app/admin/page.tsx with AdminController), the *)
(* contact page whose messages it lists, and the bell in which a user      *)
(* finds the notices that it sends (NotificationBell with UsersService).   *)
(*                                                                         *)
(* One account is managed, and the bell is its user's.  Two roles stand    *)
(* for all of them.  A message is named after the call that sent it; the   *)
(* notices are numbered as they come.  Which tab of the page is shown is   *)
(* left out: anything on it can be reached at any time.                    *)
(***************************************************************************)
EXTENDS Pages

CONSTANT
  Window         (* how many notices the bell shows: 50                      *)

ASSUME CenterAssumption == Window \in Nat

VARIABLES
  account,       (* the User row that is managed                             *)
  letters,       (* the status of the ContactMessage rows, or "none"         *)
  notices,       (* the user's Notification rows: "read" or "unread"         *)
  shownUser, shownLetters,  (* the page's lists                              *)
  target, chosen,  (* whom the broadcast is for; its user is selected        *)
  confirming,    (* the page asks whether to delete the user                 *)
  task,          (* the page's calls, and those of the contact page          *)
  contacting, contactError, reference,  (* the contact page                  *)
  bellOpen, items,  (* the bell: whether its list is open, and the list      *)
  ring,          (* its calls                                                *)
  doubtful,      (* notices it took to be read though the call to mark them  *)
                 (* failed, or though they came after it was performed       *)
  centerActs     (* how much was done without a call                         *)

centerRows == <<account, letters, notices>>
centerPage == <<shownUser, shownLetters, target, chosen, confirming>>
contactPage == <<contacting, contactError, reference>>
bell == <<bellOpen, items, ring, doubtful>>
centerVars == <<centerRows, centerPage, task, contactPage, bell, centerActs>>

AccountRoles == {"JOB_SEEKER", "EMPLOYER"}
Accounts == [status : {"none", "active", "suspended"}, role : AccountRoles]
NoAccount == [status |-> "none", role |-> "JOB_SEEKER"]
LetterStatuses == {"NEW", "READ", "RESOLVED"}
Letters == [Calls -> {"none"} \cup LetterStatuses]
NoLetters == [c \in Calls |-> "none"]

(* What a call is for, how far it is and whether its page still waits; the *)
(* account, or the field of it, that it writes or has read; the messages.  *)
Task == [does : {"none", "load", "create", "role", "status", "remove", "contact",
                 "all", "oneRole", "specific", "submit"},
         at : {"start", "asked", "half", "served", "ended"},
         heard : BOOLEAN, got : SUBSET {"users", "contacts"},
         user : Accounts, letter : Calls \cup {None}, status : LetterStatuses, list : Letters]
NewTask == [does |-> "none", at |-> "start", heard |-> FALSE, got |-> {},
            user |-> NoAccount, letter |-> None, status |-> "NEW", list |-> NoLetters]
TaskOver == [NewTask EXCEPT !.at = "ended"]

(* A call of the bell: what it does, to which notice, up to which it found *)
(* any, and the list it brings.                                            *)
Lists(n) == UNION {[S -> {"read", "unread"}] : S \in SUBSET (1..n)}
NewRing == [does |-> "none", at |-> "start", note |-> 0, upto |-> 0, list |-> <<>>]
RingOver == [NewRing EXCEPT !.at = "ended"]

CenterTypeOK ==
  /\ account \in Accounts /\ letters \in Letters
  /\ notices \in Seq({"read", "unread"})
  /\ shownUser \in Accounts /\ shownLetters \in Letters
  /\ target \in {"all", "oneRole", "specific"} /\ chosen \in BOOLEAN /\ confirming \in BOOLEAN
  /\ task \in [Calls -> Task]
  /\ contacting \in BOOLEAN /\ contactError \in BOOLEAN /\ reference \in Calls \cup {None}
  /\ bellOpen \in BOOLEAN
  /\ items \in Lists(Len(notices)) /\ doubtful \subseteq DOMAIN items
  /\ ring \in [Calls -> [does : {"none", "load", "read", "readAll"},
                         at : {"start", "asked", "served", "late", "ended"},
                         note : 0..Len(notices), upto : 0..Len(notices),
                         list : Lists(Len(notices))]]
  /\ centerActs \in 0..MaxActs

CenterInit ==
  /\ account \in {NoAccount, [NoAccount EXCEPT !.status = "active"]}
  /\ letters = NoLetters
  /\ notices = IF account.status = "none" THEN <<>> ELSE <<"unread">>
  /\ shownUser = NoAccount /\ shownLetters = NoLetters
  /\ target = "all" /\ chosen = FALSE /\ confirming = FALSE
  /\ task = [c \in Calls |-> NewTask]
  /\ contacting = FALSE /\ contactError = FALSE /\ reference = None
  /\ bellOpen = FALSE /\ items = <<>> /\ doubtful = {}
  /\ ring = [c \in Calls |-> NewRing]
  /\ centerActs = 0

CenterActs == centerActs < MaxActs /\ centerActs' = centerActs + 1

Requests(c, call) ==
  /\ task[c].at = "start"
  /\ task' = [task EXCEPT ![c] = call]

Asking(errand) == [NewTask EXCEPT !.does = errand, !.at = "asked", !.heard = TRUE]

(* The server has work on c, of one of these kinds.                        *)
Asked(c, errands) == task[c].at = "asked" /\ task[c].does \in errands

(* The page hears that it was done.                                        *)
Done(c, errands) == task[c].at = "served" /\ task[c].heard /\ task[c].does \in errands

TaskServed(c) ==
  task' = [task EXCEPT ![c] = IF @.heard THEN [@ EXCEPT !.at = "served"] ELSE TaskOver]
TaskEnds(c) == task' = [task EXCEPT ![c] = TaskOver]
TaskLoads(c) == task' = [task EXCEPT ![c] = Asking("load")]

-----------------------------------------------------------------------------
(* The page's lists *)

LoadCenter(c) ==
  /\ Requests(c, Asking("load"))
  /\ UNCHANGED <<centerRows, centerPage, contactPage, bell, centerActs>>

GetUsers(c) ==
  /\ Asked(c, {"load"}) /\ "users" \notin task[c].got
  /\ task' = [task EXCEPT ![c].got = @ \cup {"users"}, ![c].user = account]
  /\ UNCHANGED <<centerRows, centerPage, contactPage, bell, centerActs>>

GetContacts(c) ==
  /\ Asked(c, {"load"}) /\ "contacts" \notin task[c].got
  /\ task' = [task EXCEPT ![c].got = @ \cup {"contacts"}, ![c].list = letters]
  /\ UNCHANGED <<centerRows, centerPage, contactPage, bell, centerActs>>

(* Both answers are there; either may be an error, which changes nothing.  *)
CenterLoaded(c) ==
  /\ Asked(c, {"load"}) /\ task[c].got = {"users", "contacts"}
  /\ shownUser' \in {shownUser, task[c].user}
  /\ shownLetters' \in {shownLetters, task[c].list}
  /\ TaskEnds(c)
  /\ UNCHANGED <<centerRows, target, chosen, confirming, contactPage, bell, centerActs>>

-----------------------------------------------------------------------------
(* Users *)

CreateUser(c) ==
  /\ \E r \in AccountRoles :
       Requests(c, [Asking("create") EXCEPT !.user = [status |-> "active", role |-> r]])
  /\ UNCHANGED <<centerRows, centerPage, contactPage, bell, centerActs>>

(* The unique e-mail refuses a second account.                             *)
StoreUser(c) ==
  /\ Asked(c, {"create"})
  /\ account.status = "none"
  /\ account' = task[c].user
  /\ TaskServed(c)
  /\ UNCHANGED <<letters, notices, centerPage, contactPage, bell, centerActs>>

ChangeRole(c) ==
  /\ shownUser.status # "none"
  /\ \E r \in AccountRoles \ {shownUser.role} :
       Requests(c, [Asking("role") EXCEPT !.user = [shownUser EXCEPT !.role = r]])
  /\ UNCHANGED <<centerRows, centerPage, contactPage, bell, centerActs>>

(* The contrary of what is shown.                                          *)
ChangeActive(c) ==
  /\ shownUser.status # "none"
  /\ LET status == IF shownUser.status = "active" THEN "suspended" ELSE "active"
     IN  Requests(c, [Asking("status") EXCEPT !.user = [shownUser EXCEPT !.status = status]])
  /\ UNCHANGED <<centerRows, centerPage, contactPage, bell, centerActs>>

UpdateUser(c) ==
  /\ Asked(c, {"role", "status"})
  /\ account.status # "none"
  /\ account' = IF task[c].does = "role" THEN [account EXCEPT !.role = task[c].user.role]
                ELSE [account EXCEPT !.status = task[c].user.status]
  /\ TaskServed(c)
  /\ UNCHANGED <<letters, notices, centerPage, contactPage, bell, centerActs>>

AskDelete ==
  /\ CenterActs
  /\ shownUser.status # "none" /\ ~confirming
  /\ confirming' = TRUE
  /\ UNCHANGED <<centerRows, shownUser, shownLetters, target, chosen, task, contactPage, bell>>

CancelDelete ==
  /\ CenterActs
  /\ confirming
  /\ confirming' = FALSE
  /\ UNCHANGED <<centerRows, shownUser, shownLetters, target, chosen, task, contactPage, bell>>

(* The dialog closes when its button is pressed.                           *)
RemoveUser(c) ==
  /\ confirming
  /\ confirming' = FALSE
  /\ Requests(c, Asking("remove"))
  /\ UNCHANGED <<centerRows, shownUser, shownLetters, target, chosen, contactPage, bell,
                 centerActs>>

(* What refers to the user without cascading, as notices do, forbids it.   *)
DeleteUser(c) ==
  /\ Asked(c, {"remove"})
  /\ account.status # "none" /\ notices = <<>>
  /\ account' = NoAccount
  /\ TaskServed(c)
  /\ UNCHANGED <<letters, notices, centerPage, contactPage, bell, centerActs>>

(* Deleted or refused; whatever dialog is open by then is closed.          *)
RemoveEnds(c) ==
  /\ Done(c, {"remove"}) \/ (Asked(c, {"remove"}) /\ task[c].heard)
  /\ confirming' = FALSE
  /\ TaskLoads(c)
  /\ UNCHANGED <<centerRows, shownUser, shownLetters, target, chosen, contactPage, bell,
                 centerActs>>

-----------------------------------------------------------------------------
(* Messages *)

ChangeContact(c) ==
  /\ \E l \in Calls : \E s \in LetterStatuses \ {shownLetters[l]} :
       /\ shownLetters[l] # "none"
       /\ Requests(c, [Asking("contact") EXCEPT !.letter = l, !.status = s])
  /\ UNCHANGED <<centerRows, centerPage, contactPage, bell, centerActs>>

UpdateContact(c) ==
  /\ Asked(c, {"contact"})
  /\ letters' = [letters EXCEPT ![task[c].letter] = task[c].status]
  /\ TaskServed(c)
  /\ UNCHANGED <<account, notices, centerPage, contactPage, bell, centerActs>>

(* What was changed is loaded again.                                       *)
ChangeDone(c) ==
  /\ Done(c, {"create", "role", "status", "contact"})
  /\ TaskLoads(c)
  /\ UNCHANGED <<centerRows, centerPage, contactPage, bell, centerActs>>

(* Refused, or unanswered: then the server may perform it yet.             *)
TaskFails(c) ==
  /\ task[c].heard /\ task[c].does # "submit"
  /\ \/ TaskEnds(c)
     \/ /\ task[c].at \in {"asked", "half"} /\ task[c].does # "load"
        /\ task' = [task EXCEPT ![c].heard = FALSE]
  /\ UNCHANGED <<centerRows, centerPage, contactPage, bell, centerActs>>

-----------------------------------------------------------------------------
(* Broadcasts *)

SetTargetType ==
  /\ CenterActs
  /\ target' \in {"all", "oneRole", "specific"} \ {target}
  /\ UNCHANGED <<centerRows, shownUser, shownLetters, chosen, confirming, task, contactPage, bell>>

SelectUser ==
  /\ target = "specific" /\ ~chosen /\ shownUser.status = "active"
  /\ chosen' = TRUE
  /\ UNCHANGED <<centerRows, shownUser, shownLetters, target, confirming, task, contactPage, bell,
                 centerActs>>

DropUser ==
  /\ target = "specific" /\ chosen /\ shownUser.status # "none"
  /\ chosen' = FALSE
  /\ UNCHANGED <<centerRows, shownUser, shownLetters, target, confirming, task, contactPage, bell,
                 centerActs>>

(* The role the form has, if it asks for one.                              *)
TargetRoles == IF target = "oneRole" THEN AccountRoles ELSE {NoAccount.role}

Broadcast(c) ==
  /\ target = "specific" => chosen
  /\ \E r \in TargetRoles :
       Requests(c, [Asking(target) EXCEPT !.user.role = r])
  /\ UNCHANGED <<centerRows, centerPage, contactPage, bell, centerActs>>

(* The user is among those who are to be told, as far as can be seen now.  *)
FindRecipients(c) ==
  /\ Asked(c, {"all", "oneRole", "specific"})
  /\ account.status = "active"
  /\ task[c].does = "oneRole" => account.role = task[c].user.role
  /\ task' = [task EXCEPT ![c].at = "half"]
  /\ UNCHANGED <<centerRows, centerPage, contactPage, bell, centerActs>>

(* There is nobody to tell.                                                *)
NoRecipients(c) ==
  /\ Asked(c, {"all", "oneRole", "specific"})
  /\ \/ account.status # "active"
     \/ task[c].does = "oneRole" /\ account.role # task[c].user.role
  /\ TaskServed(c)
  /\ UNCHANGED <<centerRows, centerPage, contactPage, bell, centerActs>>

(* Not to a user who has been deleted since.                               *)
DeliverNotices(c) ==
  /\ task[c].at = "half"
  /\ account.status # "none"
  /\ notices' = Append(notices, "unread")
  /\ TaskServed(c)
  /\ UNCHANGED <<account, letters, centerPage, contactPage, bell, centerActs>>

Delivered(c) ==
  /\ Done(c, {"all", "oneRole", "specific"})
  /\ target' = "all" /\ chosen' = FALSE
  /\ TaskEnds(c)
  /\ UNCHANGED <<centerRows, shownUser, shownLetters, confirming, contactPage, bell, centerActs>>

-----------------------------------------------------------------------------
(* The contact page *)

ContactFormOpen == reference = None

SubmitContact(c) ==
  /\ ContactFormOpen /\ ~contacting
  /\ contacting' = TRUE /\ contactError' = FALSE
  /\ Requests(c, Asking("submit"))
  /\ UNCHANGED <<centerRows, centerPage, reference, bell, centerActs>>

StoreContact(c) ==
  /\ Asked(c, {"submit"})
  /\ letters' = [letters EXCEPT ![c] = "NEW"]
  /\ TaskServed(c)
  /\ UNCHANGED <<account, notices, centerPage, contactPage, bell, centerActs>>

(* The form is reset through an event that is over by then, which throws:  *)
(* the error shows when the form does again.                               *)
ContactSent(c) ==
  /\ Done(c, {"submit"})
  /\ reference' = c /\ contactError' = TRUE /\ contacting' = FALSE
  /\ TaskEnds(c)
  /\ UNCHANGED <<centerRows, centerPage, bell, centerActs>>

ContactFails(c) ==
  /\ task[c].heard /\ task[c].does = "submit"
  /\ contactError' = TRUE /\ contacting' = FALSE
  /\ \/ TaskEnds(c)
     \/ task[c].at = "asked" /\ task' = [task EXCEPT ![c].heard = FALSE]
  /\ UNCHANGED <<centerRows, centerPage, reference, bell, centerActs>>

SendAnother ==
  /\ reference # None
  /\ reference' = None
  /\ UNCHANGED <<centerRows, centerPage, task, contacting, contactError, bell, centerActs>>

-----------------------------------------------------------------------------
(* The bell *)

(* Another service has something to tell the user.                         *)
NotifyUser ==
  /\ CenterActs
  /\ account.status # "none"
  /\ notices' = Append(notices, "unread")
  /\ UNCHANGED <<account, letters, centerPage, task, contactPage, bell>>

Rings(c, call) ==
  /\ ring[c].at = "start"
  /\ ring' = [ring EXCEPT ![c] = call]

Ringing(errand) == [NewRing EXCEPT !.does = errand, !.at = "asked"]

RingEnds(c) == ring' = [ring EXCEPT ![c] = RingOver]

(* A call that nobody waits for is over when it is performed.              *)
RingServed(c) ==
  ring' = [ring EXCEPT ![c] = IF @.at = "late" THEN RingOver
                              ELSE [@ EXCEPT !.at = "served", !.upto = Len(notices)]]

(* When the page opens, every minute, and when the list is opened.         *)
PollNotices(c) ==
  /\ Rings(c, Ringing("load"))
  /\ bellOpen' \in {bellOpen, TRUE}
  /\ UNCHANGED <<centerRows, centerPage, task, contactPage, items, doubtful, centerActs>>

CloseBell ==
  /\ CenterActs
  /\ bellOpen
  /\ bellOpen' = FALSE
  /\ UNCHANGED <<centerRows, centerPage, task, contactPage, items, ring, doubtful>>

(* The newest ones.                                                        *)
GetNotifications(c) ==
  /\ ring[c].does = "load" /\ ring[c].at = "asked"
  /\ LET newest == {k \in 1..Len(notices) : k + Window > Len(notices)} IN
     ring' = [ring EXCEPT ![c].at = "served", ![c].list = [k \in newest |-> notices[k]]]
  /\ UNCHANGED <<centerRows, centerPage, task, contactPage, bellOpen, items, doubtful, centerActs>>

NoticesArrive(c) ==
  /\ ring[c].does = "load" /\ ring[c].at = "served"
  /\ items' = ring[c].list /\ doubtful' = {}
  /\ RingEnds(c)
  /\ UNCHANGED <<centerRows, centerPage, task, contactPage, bellOpen, centerActs>>

(* A mutant: the notice is shown as read at once.                          *)
ReadAtOnce(c, k) ==
  /\ Rings(c, [Ringing("read") EXCEPT !.note = k])
  /\ items' = [items EXCEPT ![k] = "read"]
  /\ UNCHANGED <<centerRows, centerPage, task, contactPage, bellOpen, doubtful, centerActs>>

Read(c, k) ==
  /\ Rings(c, [Ringing("read") EXCEPT !.note = k])
  /\ UNCHANGED <<centerRows, centerPage, task, contactPage, bellOpen, items, doubtful, centerActs>>

OpenNotice(c) ==
  /\ bellOpen
  /\ \E k \in DOMAIN items : items[k] = "unread" /\ Read(c, k)

ReadAll(c) ==
  /\ bellOpen /\ \E k \in DOMAIN items : items[k] = "unread"
  /\ Rings(c, Ringing("readAll"))
  /\ UNCHANGED <<centerRows, centerPage, task, contactPage, bellOpen, items, doubtful, centerActs>>

MarkNotificationRead(c) ==
  /\ ring[c].does = "read" /\ ring[c].at \in {"asked", "late"}
  /\ notices' = [notices EXCEPT ![ring[c].note] = "read"]
  /\ RingServed(c)
  /\ UNCHANGED <<account, letters, centerPage, task, contactPage, bellOpen, items, doubtful,
                 centerActs>>

MarkAllNotificationsRead(c) ==
  /\ ring[c].does = "readAll" /\ ring[c].at \in {"asked", "late"}
  /\ notices' = [k \in 1..Len(notices) |-> "read"]
  /\ RingServed(c)
  /\ UNCHANGED <<account, letters, centerPage, task, contactPage, bellOpen, items, doubtful,
                 centerActs>>

(* Whatever the answer is, the page takes those notices to be read that it *)
(* has by now.                                                             *)
Marked(c) ==
  LET meant == IF ring[c].does = "read" THEN {ring[c].note} ELSE DOMAIN items
      wrong == {k \in meant : ring[c].at = "asked" \/ k > ring[c].upto} IN
  /\ ring[c].does \in {"read", "readAll"} /\ ring[c].at \in {"asked", "served"}
  /\ items' = [k \in DOMAIN items |-> IF k \in meant THEN "read" ELSE items[k]]
  /\ doubtful' = doubtful \cup {k \in DOMAIN items : k \in wrong /\ items[k] = "unread"}
  /\ RingEnds(c)
  /\ UNCHANGED <<centerRows, centerPage, task, contactPage, bellOpen, centerActs>>

(* fetch rejects; or the list was not to be had.                           *)
RingFails(c) ==
  /\ ring[c].at \in {"asked", "served"}
  /\ IF ring[c].at = "asked" /\ ring[c].does # "load" THEN ring' = [ring EXCEPT ![c].at = "late"]
     ELSE RingEnds(c)
  /\ UNCHANGED <<centerRows, centerPage, task, contactPage, bellOpen, items, doubtful, centerActs>>

-----------------------------------------------------------------------------
CenterCall(c) ==
  \/ LoadCenter(c) \/ CreateUser(c) \/ ChangeRole(c) \/ ChangeActive(c) \/ RemoveUser(c)
  \/ ChangeContact(c) \/ Broadcast(c) \/ SubmitContact(c)
  \/ PollNotices(c) \/ OpenNotice(c) \/ ReadAll(c)

CenterStep(c) ==
  \/ GetUsers(c) \/ GetContacts(c) \/ CenterLoaded(c)
  \/ StoreUser(c) \/ UpdateUser(c) \/ DeleteUser(c) \/ RemoveEnds(c)
  \/ UpdateContact(c) \/ ChangeDone(c) \/ TaskFails(c)
  \/ FindRecipients(c) \/ NoRecipients(c) \/ DeliverNotices(c) \/ Delivered(c)
  \/ StoreContact(c) \/ ContactSent(c) \/ ContactFails(c)
  \/ GetNotifications(c) \/ NoticesArrive(c) \/ Marked(c) \/ RingFails(c)
  \/ MarkNotificationRead(c) \/ MarkAllNotificationsRead(c)

CenterAct ==
  \/ AskDelete \/ CancelDelete \/ SetTargetType \/ SelectUser \/ DropUser
  \/ SendAnother \/ CloseBell \/ NotifyUser

CenterFree(c) == task[c].at = "start" /\ ring[c].at = "start"

CenterNext ==
  \/ \E c \in Calls : CenterStep(c) \/ (CenterFree(c) /\ CenterCall(c))
  \/ CenterAct

CenterSpec == CenterInit /\ [][CenterNext]_centerVars

-----------------------------------------------------------------------------
(* Properties *)

(* A notice that the bell shows as read is stored as read, unless the call *)
(* to mark it failed or, for "Mark all read", was performed before the     *)
(* notice came: the page looks at neither.                                 *)
ReadShownIsRead == \A k \in DOMAIN items \ doubtful : items[k] = "read" => notices[k] = "read"
=============================================================================
