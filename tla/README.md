# Beleqet: specifications

Beleqet is a job board and a freelance marketplace: a NestJS API over
PostgreSQL (Prisma), Bull queues on Redis, and the payment gateways Chapa,
Stripe and PayPal. This directory holds TLA+ specifications of its core,
TLC configurations that check them on small instances, and theorems about them
that the TLA+ proof system checks for instances of any size.

Paths below are relative to the repository. The API is in `src/modules/`.

## 1. The system

### Components

| Component | State | Operations |
|---|---|---|
| Freelance marketplace (`freelance`) | `FreelanceJob`, `Bid`, `Contract`, `Milestone` rows | create a gig, submit, accept and reject a bid, create a milestone |
| Escrow (`escrow`: service, controller, queue processor) | `EscrowTransaction` rows, `EmployerWallet` (balance, locked balance), ledger rows, jobs of the queue `escrow` | `initiate` a charge, the gateway's callback, approve (release) a milestone, the auto-release job |
| Wallet (`wallet`) | `FreelancerWallet` (pending, available), ledger rows | withdraw, currency conversion, read the wallet |
| Dispute manager (`dispute-manager`, `admin`) | `Dispute` rows, status of the contract, employer wallet | open, resolve with a refund; a second, shorter resolution by the admin controller |
| Sessions (`auth`) | users, refresh tokens (at most five each), reset and verification tokens | register, log in, refresh, log out, change or reset the password, change e-mail |
| Two-factor (`two-factor`) | TOTP secret, backup codes, replay keys in Redis | enrol, confirm, verify, step up, use or renew backup codes, disable |
| Web clients (`beleqet-jobs-nextjs`, `frontend`) | tokens in the browser's storage; forms and the modal that asks for a second factor; the admin's dispute page; what the pages of the job board show | refresh after a 401, log out, submit and repeat a request, resolve a dispute; sign in, register and sign out; build a CV, save a job and apply, post a job, list applicants, administer |
| KYC (`kyc`) | one verification row per user | submit (asks an external provider), approve, reject |
| Applications and screening (`applications`, `screening`) | `Application`, `CandidateScore`, `Interview` rows, jobs of the queue `screening` | apply, withdraw, update status, screen, notify, schedule |
| Payments (`payments`) | Stripe and PayPal payment rows | create, confirm, refund, webhook |
| Exception filter and error recurrence tracker (`common/filters`) | timestamps and an alert flag per error code, in memory | classify an exception, track, snapshot, reset |
| Chat (`chat`) | `ChatRoom`, `Message` rows, rooms of sockets on every instance | join, leave, send a message, a file or a call, relay through Redis |
| Jobs, users, contact, admin (`jobs`, `users`, `contact`, `admin`) | `Job`, `Company`, `SavedJob`, `CvDraft`, `Notification`, `ContactMessage` rows, accounts | what the pages of the job board call |
| Telegram, e-mail, uploads, search, admin statistics | rows of their own | output, CRUD, reports |

### How they interact

* A request handler is an `async` function; anything may happen at each of its
  `await`s: other requests, other server instances and queue workers run on the
  same database. Only `prisma.$transaction` groups writes, and reads made before
  a transaction are not protected by it.
* Handlers and queue processors share tables directly: acceptance of a bid
  changes the escrow row and the employer wallet; a payment callback sets the
  status of the gig.
* Work is handed over through Bull queues (`escrow`, `screening`,
  `notifications`, ...). Bull delivers a job at least once: a handler that throws,
  or whose worker dies, is run again from its start, a limited number of times.
* Payment gateways are called over HTTP, may fail, may lose the answer, and call
  back later, repeatedly and in any order.
* A sign-in goes through three services: `AuthService` checks the password,
  `TwoFactorService` may ask for a code, `AuthService.issueTokens` stores the tokens.
  The guards of sensitive requests answer 401 with a challenge, and the web client
  repeats the request when a code has been verified.
* Every failing request ends in the one exception filter, which tells the
  recurrence tracker.
* Chat runs on several instances of the server, joined by a Redis adapter.
* A page of the job board keeps a copy of what it shows, changes it when answers come,
  and often loads it again. Its calls are answered in any order or not at all; a call
  whose answer is lost may still be performed.

### What is hard, and what must hold

The full list, line by line, is `hazards` in `PROJECT.json`. In short:

* **Marketplace.** `acceptBid`, `rejectBid`, late inserts of `submitBid` and late
  callbacks interleave. There must be one winner per gig, the same person the
  contract names, for good.
* **Charging.** `initiate` performs up to seven writes and calls, with no
  transaction around them, and the callback handler tests the status it read
  before its transaction. Escrows must be FUNDED only against payment, debits
  must stay bounded, the wallet must add up.
* **Payout.** The auto-release job is queued without delay, finds that the hold
  of three days has not elapsed and queues a delayed copy of itself; it writes
  the wallet and the ledger separately. Money must not move early, be paid twice
  or be lost.
* **Withdrawal.** The check and the debit are separate and the gateway's answer
  can be lost.
* **Screening.** A language model is asked between reading an application and
  writing the verdict, in jobs that are retried from the start. Verdicts must match
  scores, and nobody may be invited twice.
* **Accounts.** Rotation, the cap of five sessions, ending all sessions, replaying a
  one-time code, enrolment and backup codes are each a read and later writes. A
  session must not fork, survive its end or be lost by the browser; a code must be
  accepted once.
* **Card and PayPal payments.** The row is written after the provider has acted, and
  a write that fails is forgotten; events arrive in any order. The row must not
  tell what never happened.
* **Alerts.** The tracker prunes, caps and forgets. It must report each burst of
  errors, once.
* **Disputes and KYC.** Decisions are looked for, then made, by admins whose page
  shows old data, against submissions whose provider answers late.
* **Second-factor forms.** Requests, codes and repeats of requests overlap in one
  form. Nothing asked for once may be performed twice, nothing cancelled at all.
* **Chat.** The history is read, the socket joins, messages are saved, emitted and
  relayed in separate steps. A participant should see each message once.
* **Pages.** Answers are applied to whatever the page shows by then: an older one after a
  newer one, a saved draft over a changed one, a list under another heading. What a page
  says is stored, published or read should be so.
* **Who is signed in.** The header and the stored tokens are written in different places, and
  refreshes overlap with sign-ins and sign-outs. Requests should be made for the user who is
  shown.

## 2. Modules

| Module | Models |
|---|---|
| `GigAward` | what the marketplace promises: offers that never change once made, one final award per gig, made to somebody at the offer they made |
| `EscrowFunding` | `freelance.service`, `EscrowService.initiate`, the gateway, `EscrowProcessor.handleWebhook`; implements `GigAward` |
| `EscrowFundingMC` | symmetry for TLC |
| `EscrowFundingProofs` | theorems about `EscrowFunding` |
| `MilestonePayout` | `createMilestone`, `releaseMilestone`, `handleAutoRelease`, `WalletService.withdraw` |
| `MilestonePayoutMC` | instances for TLC |
| `MilestonePayoutProofs` | theorems about `MilestonePayout` |
| `CandidateScreening` | what screening promises: an applicant is scored once and invited at most once, on a score of 90 or more |
| `HiringPipeline` | `applications.service`, `ScreeningProcessor` with its language model and its interview job; implements `CandidateScreening` |
| `HiringPipelineMC` | the answers of the language model for TLC |
| `HiringPipelineProofs` | theorems about `HiringPipeline` |
| `ApiCalls` | the calls that the modules below name things after |
| `Sessions` | refresh tokens: `issueTokens`, `refresh`, `logout`, the end of `changePassword` |
| `Credentials` | password, address and e-mailed links of `auth.service` |
| `TwoFactor` | `two-factor.service`, its controller, `StepUpGuard` |
| `AccountSecurity` | composes the three: sign-in and guarded calls, and the browser of `lib/auth.ts` |
| `Payments` | `stripe.service`, `paypal.service`, both webhooks, what the providers do |
| `ErrorRecurrence` | `AllExceptionsFilter`, `ErrorRecurrenceTrackerService` |
| `PaymentErrors` | composes the two: payment requests that fail are answered by the filter |
| `DisputeResolution` | `dispute-manager.service`, the admin controller's resolution, the admin's page |
| `Verification` | `kyc.service` with its providers |
| `StepUpForm` | the four forms that may need a second factor, and their modal |
| `Chat` | `chat.gateway`, `chat.service`, `RedisIoAdapter` |
| `Pages` | the bound that the pages below share |
| `CvMaker` | the CV builder, the draft it saves, the assistant that writes a summary |
| `JobPages` | bookmarks and applications: `SaveJobButton`, `JobActions`, the list of both |
| `Vacancies` | the page that posts a job, `createCompany`, `JobsService.create` |
| `Workspace` | the employer's dashboard: applicants and their status |
| `ControlCenter` | the admin's page with `AdminController`, the contact page, the bell |
| `SignedIn` | `LoginForm`, `RegisterForm`, `Header`, `HeaderAuth`, `AuthProvider`, the profile page, `lib/auth.ts` |
| `Desk` | composes the last eleven |
| `AccountSecurityMC`, `PaymentErrorsMC`, `DeskMC` | instances for TLC |
| `SignInProofs`, `AccountSecurityProofs`, `PaymentErrorsProofs`, `DeskProofs` | theorems |
| `SumTheorems` | what the sum of a function does, for the theorems about wallets |

The exact lines behind each definition are in `map` of `PROJECT.json`.

### EscrowFunding

One employer with one employer wallet.

| Variable | In the code |
|---|---|
| `gig`, `bid`, `contract`, `escrow` | rows of the tables of these names, with the columns that matter (absent rows are `NoBid`, `NoContract`, `NoEscrow`) |
| `submitting` | calls of `submitBid` that passed the check and have not inserted yet |
| `balance`, `locked` | `EmployerWallet.balance`, `lockedBalance` |
| `debits`, `credit` | ledger rows: `DEBIT_WITHDRAWAL` per charge, `CREDIT_AVAILABLE` per gig |
| `req` | local variables and program counter of each call of `initiate`; its identity is its fresh `txRef` |
| `unlock`, `job`, `slot`, `faults` | the jobs of the queue, what each worker holds, failures so far |
| `paid` | what happened at the gateway |

`initiate` is one action per `await`: `ReadGig`, `ReadWallet`, `ApplyWallet`,
`UpsertEscrow`, then `WriteLedger` and `SpendLocked` if the wallet covers
everything, or `QueueUnlock` and `OpenCheckout` if not. The callback is `Deliver`
(the controller queues a job), `ReadEscrow` or `SkipCallback`, `CommitFunded` (the
transaction), `NotifyClient`; `WorkerFault` may strike after any of them.
`acceptBid` is one action, because it is one transaction and what it uses of the
bid it read before never changes.

### MilestonePayout

One freelancer. A call of `releaseMilestone` is `Approve`, `CreditPending`,
`EnqueueRelease`. A job is `Requeue` (too early) or `MoveFunds`, `RecordCredit`;
then `FinishJob`. `HoldElapses` is the passing of the three days, `DelayEnds`
Bull's promotion of a delayed job, `JobFault` a failure at any point. A call
of `withdraw` is `CheckBalance`, `DebitWallet`, `Transfer`, and then
`RollbackRefused` or `RollbackUnreached` if the gateway refuses or does not
answer. The first stands inside the `try` of the code: if it fails, or is committed and
seen to fail ("unacknowledged"), the second follows. `moves` is a history that no table
keeps, of how often an amount was moved; a ledger row (`credits`) is a second write.
The fee and the conversion to ETB are computed as the code computes them, rates in
tenths.

### HiringPipeline

The applications for one job. `status`, `score`, `noted` are columns and rows;
`screen` is the screening job of an application with its attempt and the score it
holds; `interview` holds the interview jobs, by the attempt of screening that
queued them, so that a second one would be visible. `touched` records what
no table does: whether a person (employer or applicant) has set the status.

An attempt is `StartScreening`, `AskForScore`, `StoreScore`, `WriteVerdict`,
`QueueInterview` (from 90), `FinishScreening`; `ScreeningFault` may end it after
any of them, and Bull then starts the next attempt from the beginning
(`Retry`). Once the score is stored a new attempt always ends in `ScoreExists`: the
score's unique key refuses the second insert. `OnFailed` runs after the last
attempt. `UpdateStatus` and the two steps of `withdraw` interleave with all this.

### AccountSecurity: Credentials, TwoFactor, Sessions

One account. A call (of `Calls`) is made once and goes through one or more of the
three modules; each keeps the call's local variables in a record of its own
(`cred`, `otp`, `session`).

| Variable | In the code |
|---|---|
| `password`, `latest`, `legacy`, `address`, `verified` | columns of `User`; passwords are numbered in the order they were set, `legacy` is a hash in the WordPress format |
| `links` | `VerificationToken` rows that have not expired |
| `refresh`, `expired` | `RefreshToken` rows, numbered by `createdAt` |
| `login`, `ended` | which sign-in a token descends from, and which sign-ins had their row deleted by a logout or a change of password: what no table records. |
| `factor`, `backup` | the `UserTwoFactor` row, `BackupCode` rows |
| `used` | expiry of the replay keys in Redis |
| `enrolUntil`, `challenged`, `granted` | expiry of signed enrolment and challenge tokens, step-up tokens |
| `accepted`, `spent` | how often a one-time code and a backup code were accepted |
| `stored`, `fetch` | the browser's refresh token; the browser's view of a call |

A refresh is `Refresh`, `Rotate` (the delete throws for the loser), `Create`, `List`,
`Prune`; a sign-in is `Validate`, perhaps `Rehash`, then `LoginDirectly`, or
`LoginChallenged` and, in a later call, `CheckCode`, `Claim`, `PassLogin`, `LoginVerified`;
then it issues tokens as a refresh does. A change of password is `AskChange`,
`ChangeGuarded`, `WritePassword`, `EndsSessions`. Every other statement on the database or
Redis is an action of its own as well. Time is counted in periods of 30 s.

### PaymentErrors: Payments, ErrorRecurrence

One payment: a card intent, a PayPal order to be captured, one with the intent
AUTHORIZE (`reservation`) or a subscription. `stage`, `past`, `refunded` are the provider's
side, `asked` the refunds it has accepted and not made, `events` what it sends; `row` is
`Payment.status`. The execution of a reservation takes no money, and the activation of a
subscription does not charge it; either may be paid later, or never. A refund may be
pending and fail (`SettlesRefund`). With `Verified` FALSE, which stands for a missing
`PAYPAL_WEBHOOK_ID`, `HandleUnverified` takes an event that PayPal never sent; `claimed`
keeps what such events told. A write of a
handler or webhook waits in `writes` and is made by `Persist` or lost by `LoseWrite`,
which is also what a thrown and swallowed exception does. `of` numbers the change
at the provider that an event or write tells of; `inOrder` records that no write was
lost, found no row or came after a later one. `Catch` classifies an exception and
tracks its code: `store`, `alerted` are the tracker's maps; `answers`, `alerts` are the
history the property is about. An occurrence in `store` is named by the answer it belongs
to, which also says when it was; `Newest` is what the tracker keeps of a code's
occurrences, the last `MaxOccurrences` of those in the window. `PaymentErrors` joins a failing payment handler
with `Catch` in one step, as the request does.

### Desk: four services and the pages

Ten parts that share no variables. Where one of them writes a row that is in another
(an employer who rejects an application, another service that notifies a user), the
other has an action for it.

* *DisputeResolution*: one contract. `createDispute` is `CreateDispute`, `StoreDispute`;
  `resolveDispute` is `ReadDispute`, `WriteResolution`, `CreditRefund`, `CloseContract`. The
  page polls (`ReadForPage`, `SetData`, answers in any order) and posts (`HandleResolve`,
  `Answered`). `overlapped`, `elsewhere`, `unanswered` record how a second resolution
  could come about.
* *Verification*: one user. A submission is `Submit`, `UploadFiles`, `Verify`,
  `SaveVerdict`; an admin's decision is one transaction.
* *StepUpForm*: the state of the React component and its modal; `request` is how
  far each request is, `performed` how often the server performed it.
* *Chat*: one room. `saved` are the rows, `relay` what Redis has to deliver, `feed` how
  often each socket was sent each message, `crossed` where a join and a sending overlap.
* *CvMaker*: `cv`, `draftSaved`, `aiLoading` are the component's state, `cvRow` and
  `localDraft` where drafts are kept. A saving is `SaveDraft`, `SaveCvDraft`, `DraftIsSaved`.
  `muddled` records that what the button says is from a saving that overlapped with another
  or with a change.
* *JobPages*: one job and one user. `opened` is the page that is shown; leaving it makes its
  calls unheard. `markRow`, `appRow` are the rows. A toggle is `ToggleCard` (or `ToggleSaved`,
  `Unsave`), `SaveJob`, `CardMarked` (`JobMarked`, `UnsaveEnds`); an application goes through
  `UploadResume` if it has a file; a withdrawal is `FindOpen`, `WriteWithdrawn`, as in
  `HiringPipeline`. `blurred` records that exchanges got lost or disagreed.
* *Vacancies*: a visit goes from `CheckCompany`, perhaps over `CreateCompany`, to `PostJob`
  (`FindCompany`, `CreateJob`, `Published`). `visit` and `unheard` are the visit's calls and
  those whose answer was lost.
* *Workspace*: `selected` is the heading, `applicants` the list. `OpenApplicants` is called by
  the button and after each change of status. `astray` records loads that overlapped.
* *ControlCenter*: `task` are the calls of the admin's and the contact page, each of which
  loads the lists again; `ring` those of the bell. A broadcast is `FindRecipients`,
  `DeliverNotices`. `doubtful` are the notices shown as read on the word of a call that failed
  or came too early.

* *SignedIn*: one window and several accounts. `signedIn` is `AuthProvider`'s user, `kept` says whose
  tokens are in local storage. A sign-in is `SubmitLogin` or `SubmitRegister`, then `SignedInAs`, which
  sets the user and tells the router where to go (`heading`); the page is left in a step of its
  own (`Arrive`), and until then shows what it has and hears its answers. A sign-out goes the same way. A
  request is `LoadProfile` or `AuthenticatedFetch`, perhaps `StartRefresh`, `RefreshArrives`.
  `overtaken` records that the user changed while a refresh was waiting, `strayed` that a sign-in
  was answered over the open profile page. Here it matters whose the
  tokens are; which of one user's tokens are alive is in `AccountSecurity`.

`muddled`, `blurred`, `unheard`, `astray`, `doubtful`, `overtaken` and `strayed` are in no component; each keeps apart
what the code does not promise, and the properties say what holds of the rest.

### Abstractions

* One backup code stands for the ten of a set. A step-up token is good for any
  guarded action; in the code it is bound to one, which only refuses more.
  `register` appears as a sign-in.
* otplib's tolerance is the parameter `Drift`; how long a call may take between
  checking a code and claiming it is `MaxLag`.
* `CleanupExpiredEnrollments` may run at any time, although nothing in the repository
  queues its job.
* Amounts of a payment are counted in units that can be refunded. Capture of a Stripe
  intent is automatic, the default, so `requires_capture` does not occur. What an event
  of a failed refund says is handled by neither webhook, so none is sent.
* Amounts are small naturals; fee and net amount of an escrow row are functions
  of its gross amount and are left out of `EscrowFunding`. Authorisation checks
  that only compare user identities are left out: there is one employer and, in
  `MilestonePayout`, one freelancer.
* A transaction is one step. PostgreSQL runs them at READ COMMITTED; each
  transaction modelled here updates rows by increment or by key, and the rows it
  reads beforehand are read in a step of their own.
* The contract's currency is ETB: no code sets another one, so the payout of a
  milestone needs no conversion. Withdrawals may name any supported currency.
* A call that dies takes no further step; nothing is said about calls being
  completed. A job that stalls and is started a second time is a `WorkerFault`
  or `JobFault`.
* Scores are whole numbers. An answer that is no number makes the insert of the
  score fail, which is a `ScreeningFault`.
* Without a configured gateway, `withdraw` succeeds and nothing is sent; this is
  one of the outcomes of `Transfer`.
* Of the fields of a form, one or two stand for all; the text of a search, a preview and the
  choice of a tab are left out. The CV builder's upload only shows the name of the file.
* Each of the pages has one browser; a job has one applicant in `Workspace`, and the admin
  manages one account. Redirections of a visitor who is not signed in are in `SignedIn` only.
* `None` stands for an absent row or reference.

Each operator commented "a mutant" is a copy of the definition after it with one
plausible bug. No action uses it. Substituted for the definition it breaks the
property listed with it in `PROJECT.json`, which shows that the property depends
on that line of the code.

## 3. What is checked

### Properties

* `AcceptedBidIsContracted`: an accepted bid is the bid of the contract.
* `ContractIsFinal`: a contract is never replaced, even after a late callback
  lists the gig again and it takes new bids.
* `AuctionSpec`: the marketplace implements `GigAward`. An offer is a bid's amount,
  an award is a contract; everything about money is a stuttering step.
* `FundedOnlyIfPaid`: somebody paid for a FUNDED escrow.
* `DebitsBoundedByWorkers`: a charge is debited at most once per worker of the
  queue. One would be the promise; the code keeps this much.
* `WalletAccounted`: balance and locked balance of the employer wallet agree with
  the charges in progress and the ledger.
* `PaidCallbackFunds`: a queued success callback leads to a FUNDED escrow.
* `WalletConserved`: each balance is accounted for by itself. Pending is what approvals
  credited minus what jobs moved, available is what was moved minus what withdrawals
  debited and did not take back, plus what one took back twice; without a failure
  pending is never negative.
* `PaidOncePlusFaults`: the amount of an approval is moved at most once more than there
  were failures, and every row that records a credit has a move behind it.
* `HoldIsKept`: only an approval whose hold has elapsed is moved to the available
  balance, by exactly its amount.
* `QueuedIsPaid`: a queued payout is eventually available.
* `VerdictIsEarned`: as long as no person set its status, an application is
  rejected, shortlisted or invited only on a stored score that earns it, and a
  screening that completed has led to what its score earns.
* `ScreenedOnce`: applications implement `CandidateScreening`. This is what the
  unique key of the score is worth: a retry can repeat neither the score nor
  the invitation.
* `JobsEnd`: screening and interview jobs complete or are given up.
* `OneSessionPerLogin`: rotation never forks a login, however many refreshes present
  one token.
* `SessionCap`: the cap of sessions is exceeded only by calls that have yet to prune.
* `EndedStaysEnded`: a login whose row was deleted by a logout or a change of password
  never has a token again, though refreshes that had read the row go on. Of a login that
  was between two rows it says nothing: that one goes on (see Findings and observations).
* `OtpSingleUse`: a one-time code is accepted once, whatever it is used for, because
  its key in Redis outlives the periods in which it is valid.
* `SpentIsDead`: a backup code that was accepted is never found unused again, however
  sign-ins, renewals, enrolments and disabling overlap. That it is accepted only once is
  what the code says and does not keep: `BackupCodeSingleUse`, below.
* `BrowserHoldsLiveToken`: no interleaving of rotation, answers and give-ups leaves the
  browser with a token that rotation has deleted.
* `MigrationSettles`: sign-ins that replace a WordPress hash can take back a change of
  the password only until the last of them is done.
* `RowWasTrue`: whatever is lost, repeated or out of order, a payment row shows only
  what the provider has done or accepted, or what an unverified event told. SUCCEEDED
  means charged, reserved or activated; a refunded status that a refund was accepted.
* `RowFollowsProvider`: when everything has arrived, in order and unspoiled, the row is that
  of the newest event or of a later answer; and whenever the row is no older than any
  event, it shows how the payment stands, whatever was lost, untrue or out of order before.
* `AlertsWhereBurstsBegin`: against a definition over the whole history of answers,
  an alert is logged exactly at the beginning of each burst. Per window, as a comment
  says, it is not (`AlertOncePerWindow`).
* `RefundedOnce`: refund and outcome follow the resolution; the wallet is credited once
  unless two calls found the dispute open together, which the page alone does
  only after giving up a call that is still running.
* `ReviewStands`: a submission that waits or was approved is changed only by an admin,
  once no earlier submission is left; the user's flag always says what the row says.
* `AskedOnce`: no request of a form is performed twice, no cancelled one at all.
* `SeenOnce`: a socket in a room is sent every message exactly once, but for those
  beyond the length of the history and those whose sending overlaps its joining.
* `SavedIsStored`: the CV builder says "Draft saved" only of what is stored as it is shown,
  whatever is typed, loaded or written by the assistant before or after a saving.
* `MarkIsStored`: when all answers are there, the bookmark is filled if and only if the job is
  saved, whatever was toggled on whichever page.
* `PostedOnce`: a visit posts at most one job whose answer was not lost; what the page says is
  published is, for an employer with a company.
* `ListMatchesHeading`: when nothing is being loaded, the applicants shown are those of the
  job in the heading.
* `ReadShownIsRead`: a notice that the bell shows as read is stored as read.
* `TokensOfShownUser`: requests are made with the tokens of the user in the header, or with none,
  and the profile that is shown is that user's, unless a refresh was overtaken; a profile page
  that a sign-in was answered over may show another's until it is left.

The last six except what overlaps or fails, as their comments say; the code gives up
there, and the models reach the states in which they would be false.

### Runs that pass

| Run | Instance | Shows |
|---|---|---|
| `funding` | 1 gig, 2 freelancers, 2 charges, 2 callbacks, 2 workers, 1 failure, amounts 1 and 2, 1 in the wallet | every interleaving of bidding, acceptance, charges, callbacks and a failure keeps the safety properties and implements `GigAward` |
| `funding_live` | 2 gigs on one wallet, no bids, 2 charges, 2 callbacks, 2 workers, 2 failures, fair workers | callbacks in the queue fund their escrow |
| `payout` | 1 milestone approved twice, 1 withdrawal in ETB or USD, 2 jobs at once, 5 jobs, 1 failure, fair jobs | both balances add up, the hold is kept, amounts are moved again only after a failure, every queued payout arrives |
| `hiring` | 1 applicant, 3 attempts of each job, failures anywhere, answers on both sides of every threshold, out of range and missing | verdicts match scores, one score and one invitation, jobs end |
| `accounts` | 1 account with or without a factor, 3 calls of any kind, a cap of 1 session, lives of 1 to 3 periods | sessions do not fork, stay capped and deleted, one-time codes are used once, spent backup codes stay spent, the browser keeps a live token, the password settles |
| `payments` | 1 payment of 2 units, 4 changes, untrue events and errors together, 2 writes in flight, window 1, threshold 2, 1 restart | rows tell what was done or told and follow the newest event, alerts are raised where bursts begin |
| `desk` | 3 calls in each part: a dispute and its page, an identity check, a form, a chat room on 2 instances with a history of 1, the five pages with 2 acts of the user, 2 listings and a bell of 2 notices, and a window used by 2 accounts | one refund, reviews stand, nothing performed twice, messages seen once, pages show what is stored, requests made for the user who is shown |

### Runs that disagree with the code's words

| Run | Refutes | Because |
|---|---|---|
| `webhook_twice` | "Idempotency — skip if already funded" (`src/modules/escrow/escrow.processor.ts:77`) | two workers read the PENDING row before either commits |
| `restored_but_paid` | "Your balance has been restored." (`src/modules/wallet/wallet.service.ts:147`) | a lost answer is taken for a failed transfer |
| `alert_repeats` | "De-duplicated: only logs once per window per code" (`src/common/filters/error-recurrence-tracker.service.ts:170`) | the flag is cleared by the first hit below the threshold, and hits of the same window raise the next alert |
| `current_session_ended` | "Invalidate all sessions except the current one" (`src/modules/auth/auth.service.ts:313`) | every refresh token of the user is deleted |
| `backup_code_twice` | "Verify a backup code and consume it (single-use)" (`src/modules/two-factor/two-factor.service.ts:267`) | two calls read the code before either marks it |

### Bounds

* Two charges, two callbacks, two workers: the fewest for a charge to supersede
  another, for callbacks to be duplicated or stale, and for handlers to overlap.
* The wallet starts with 1 and amounts are 1 and 2, so that a charge finds the
  wallet short, exact, empty or (after a concurrent charge) overdrawn.
* `MaxFaults` bounds failures; it is smaller than `Attempts` in the runs that check
  liveness, because a job that fails `Attempts` times is given up, and then nothing
  is promised.
* `MaxJobs` = 5: two approvals queue at most two jobs each, and a failure after
  the copy was queued adds one more; so the bound never stops a job.
* The amount 1300 has a fee of 130 and a net of 1170, which covers a withdrawal of
  9 USD (1085 ETB) once and leaves room for one of 9 ETB: the checks pass and fail
  in both currencies, and what is debited differs from what is asked for.
* `hiring` needs no bound on failures: attempts bound them. One applicant is enough,
  because applications share nothing but whether the job is published. Answers
  are -5, 29, 30, 74, 75, 89, 90, 120 and none.
* `accounts`: with three calls, two refreshes of one token overlap with a sign-in, a
  change of password or each other; one token allowed (for five) is the least cap
  and makes the second login prune. A key of 3 periods with a drift of 1 and no lag is the
  tightest that `TwoFactorAssumption` admits, and is the code's 90 s; the clock runs for
  as long as the key lives. The other lives are as short as they can be and differ,
  so that tokens expire between any two steps.
* `payments`: two writes in flight are the fewest that can be reordered; an order
  is created, paid, refunded in part and in full within four changes. Two errors make
  a burst, and two windows pass, so that a burst ends and another begins. `MaxWork`
  bounds the sum of changes, untrue events and errors, as the two halves meet only in failing
  requests. `Verified` is FALSE, which allows everything that TRUE does; the theorems
  hold for both.
* `desk`: two calls that resolve a dispute and one that opens it; a submission, a
  second one and an admin; two requests whose modals overlap, and a third; two
  messages (one of them beyond the history) and a socket. The pages load, change and load
  again with three calls, or have two of them overlap with a third; `MaxActs` = 2 lets the user
  type, or open the page anew, before and after a call. Two listings are the fewest that can
  be confused, and a `Window` of 2 (for 50) is less than the notices that come. With two accounts and
  three calls, one of them signs in while another's request is refreshed or waits. The theorems
  cover any number.
  `DeskMC` checks one part at a time (`PartSpec`): nothing that a part reads is written
  by another and no property is about two, so what the others do is a stuttering step. That
  `Desk` implements each part is `ImplementsParts`, proved; with all of them at once the
  instance would be their product.
  `Claims` is what the tokens of `src/modules/chat/chat.gateway.spec.ts:12` contain. With
  the claims that `AuthService.issueTokens` signs (`sub`, `email`, `role`; line 349 of
  `auth.service.ts`) the gateway finds no `userId` and refuses every call, and the
  property would hold of an empty room.
* Deadlock is not checked: users may stop, and every counter is bounded.

### Fairness

Workers of a Bull queue keep running: `FairSpec` of `EscrowFunding` is weak fairness
of the work of each worker. Weak fairness is enough and no more is justified: a
worker that is idle while a job waits stays able to take one. `FairSpec` of
`MilestonePayout` adds that time passes and that Bull promotes delayed jobs. That of
`HiringPipeline` is weak fairness of each job, again without its failures. No
fairness is assumed of users, of requests or of the gateway. `AccountSecurity`,
`PaymentErrors` and `Desk` state none: their actions are request handlers and clients,
which nothing completes or retries, so nothing could be promised.

## 4. What is proved

The theorems hold for every value of the constants that satisfies
the assumptions named in the module: any number of gigs, freelancers, charges,
callbacks, workers, milestones, approvals, applicants, attempts, failures, calls,
instances and writes. The ones that say more than the type of a constant are
`2 * Drift + MaxLag < ReplayTTL` (`TwoFactorAssumption`), without which a code could be
used again, and `Threshold <= MaxOccurrences` (`RecurrenceAssumption`), without which no
alert is ever logged; the code's values satisfy both.

| Theorem | Says |
|---|---|
| `EscrowFundingProofs!TypeCorrect` | `Spec => []TypeOK` |
| `AcceptedBidContracted` | `Spec => []AcceptedBidIsContracted` |
| `ContractsAreFinal` | `Spec => ContractIsFinal` |
| `ImplementsAuction` | `Spec => AuctionSpec` |
| `FundingIsPaid` | `Spec => []FundedOnlyIfPaid` |
| `DebitsAreBounded` | `Spec => []DebitsBoundedByWorkers` |
| `WalletIsAccounted` | `Spec => []WalletAccounted` |
| `MilestonePayoutProofs!TypeCorrect` | `Spec => []TypeOK` |
| `HoldKept` | `Spec => HoldIsKept` |
| `PaidOnce` | `Spec => []PaidOncePlusFaults` |
| `MoneyConserved` | `Spec => []WalletConserved` |
| `HiringPipelineProofs!TypeCorrect` | `Spec => []TypeOK` |
| `VerdictsAreEarned` | `Spec => []VerdictIsEarned` |
| `ScreensOnce` | `Spec => ScreenedOnce` |
| `SignInProofs!SessionsTypeCorrect` | `SessionsSpec => []SessionsTypeOK` |
| `RotationNeverForks`, `EndedForGood`, `CapHolds` | `SessionsSpec => []OneSessionPerLogin`, `[]EndedStaysEnded`, `[]SessionCap` |
| `TwoFactorTypeCorrect` | `TwoFactorSpec => []TwoFactorTypeOK` |
| `CodesAreSingleUse` | `TwoFactorSpec => []OtpSingleUse` |
| `SpentCodesAreDead` | `TwoFactorSpec => []SpentIsDead` |
| `ImplementsSessions`, `ImplementsTwoFactor`, `ImplementsCredentials` | `AccountSecurity!Spec` implements each of its parts |
| `AccountTypeCorrect`, `AccountSessionsSafe`, `AccountCodesSingleUse`, `AccountCodesDie` | the theorems about the parts hold of the account |
| `BrowserTokenLives` | `AccountSecurity!Spec => []BrowserHoldsLiveToken` |
| `PasswordsSettle` | `AccountSecurity!Spec => MigrationSettles` |
| `PaymentRowsTrue`, `ApiRowsTrue` | `[](PaymentsTypeOK /\ RowWasTrue)` of `PaymentsSpec`, `[]RowWasTrue` of `PaymentErrors!Spec` |
| `PaymentRowsFollow`, `ApiRowsFollow` | `[]RowFollowsProvider` of both |
| `ApiAlertsBurst`, `ApiTypeCorrect` | `PaymentErrors!Spec => []AlertsWhereBurstsBegin`, `[]TypeOK` |
| `DisputesRefundOnce` | `DisputeSpec => []RefundedOnce` |
| `ReviewsStand` | `KycSpec => ReviewStands` |
| `RequestsAskedOnce` | `FormSpec => []AskedOnce` |
| `MessagesSeenOnce` | `ChatSpec => []SeenOnce` |
| `SavedDraftsAreStored` | `CvSpec => []SavedIsStored` |
| `MarksAreStored` | `JobSpec => []MarkIsStored` |
| `JobsPostedOnce` | `PostSpec => []PostedOnce` |
| `HeadingsMatch` | `WorkSpec => []ListMatchesHeading` |
| `ShownReadIsRead` | `CenterSpec => []ReadShownIsRead` |
| `TokensFollowUser` | `SignSpec => []TokensOfShownUser` |
| `ImplementsParts` | `Desk!Spec` implements its ten parts |
| `DeskSafe`, `PagesSafe` | so the properties of the four services and of the pages hold of it |
| `DeskTypeCorrect` | `Desk!Spec => []TypeOK` |

Along which invariants:

* `AcceptedBidIsContracted` needs to know that a bid without a row has no amount
  (`BidsInv`). The refinement needs the same: offers are never 0, so the mapping
  tells a missing bid from a made one.
* `FundedOnlyIfPaid` and `DebitsBoundedByWorkers` are proved together from
  `ChargesInv`. Neither is inductive. A worker commits with what it read earlier,
  so what it holds must be known to be paid (`CallbacksInv`); the row it changes
  may by then hold another reference, so the witness is the call it read, not
  the one in the row. A debit is counted against the workers that still hold
  the PENDING row (`Handlers`): each debit uses one of them up, and no new worker
  can join once the row is FUNDED. That this bound survives a second `initiate`,
  which makes the row PENDING again, is why `RowsInv` ties the reference in the row
  to a call without debits.
* `WalletAccounted` and `WalletConserved` say that a balance is a sum over calls. A step changes
  the term of one call at most and the balance by as much (`CallBooked`, `RefundBooked`,
  `ApprovalPays`, `WithdrawalPays`), so what is left is a fact about sums, `SumChangesByOne`.
  Of a withdrawal the term turns negative when the catch restores what had been restored.
  Of the escrow it also takes `AppliedInv`: a handler debits the amount it read in a row,
  which `initiate` may have overwritten since, and that amount is what the call of the
  reference locked.
* `SumTheorems` proves that fact by induction over the parts of a finite set. The
  library states induction for an operator, which the provers cannot instantiate, but also
  that the strict order on finite subsets is well founded, hence that a nonempty set of
  parts has a minimal one (`MinimalPart`): a set of counterexamples that has none is
  empty. That the recursion of the sum has a solution at all is shown by `LeastNumber`
  in the same way (`SumsExist`).
* `PaidOncePlusFaults` is proved from `CopiesInv`: the moves of an approval and
  the jobs that may still move it number at most one more than the failures, and its
  credits and the jobs that have yet to record one at most as many as its moves.
  Re-queueing replaces a job by its copy; only a failure returns a job that
  had already copied itself or moved the amount. That pending covers what is moved as long as
  nothing failed (`PendingCovers`) follows from the same counts, with `SumGrows`.
* `HoldIsKept` needs the type invariant (a net amount is not negative, so that no
  other action lowers `pending`).
* `ScreensOnce` is proved from `InvitationsInv`: an attempt that has stored the
  score and may still invite is the first one to do so, because storing needs
  that there is no score, and without a score nobody is invited. `VerdictsAreEarned`
  adds `StatusInv`: after the verdict only the interview job of the same score
  can replace it.
* `OneSessionPerLogin` and `EndedStaysEnded` are proved together from `RotationInv`, which
  adds to them that a call about to rotate a token has its login (`LoginsInv`) and that
  a login whose next token is being made has not been ended (`CreatesLive`). A
  login has a token, or a call that is about to create one, and never both or two:
  the right to create passes from the deleted row to the one call whose delete did
  not throw. That an ended login stays ended needs that no such right was out
  when it ended, which is what `Endable` says.
* `SessionCap` is not inductive: what a call is about to delete was chosen from tokens
  of which other calls may have deleted some since. `CapInv` therefore counts, for
  every set of calls that are about to prune, what will be left once they have.
* `OtpSingleUse` is proved from `OtpInv`. `ReplayInv` says how long the key of an accepted
  code lives, `LagInv` how old a code can be that a call is about to claim; that the
  first is longer than the second is the assumption on drift, lag and the key's life.
* `SpentIsDead` is proved from `SpentInv`, which adds to it that a call has no codes of its own
  until it makes them (`FreshInv`): so no enrolment and no renewal brings an accepted code back.
* `BrowserHoldsLiveToken` is proved from `BrowserInv`, on top of `RotationInv`. A token on its
  way to the browser is kept by nobody else and no call is about to delete it
  (`FreshTokens`); a call that deletes the token the browser keeps is a refresh it waits
  for (`RotationAwaited`), so that until the answer the token may be dead, but only then
  (`StoredLives`).
* A composed specification implements its parts, since each of its steps is a step of a
  part or leaves the part's variables alone. The theorems about the parts carry
  over; none is proved twice.
* `MigrationSettles` needs that no password is in use, or remembered by a sign-in, but
  one that was set (`PasswordInv`).
* `RowWasTrue` is proved from `RowInv`, which says the same of every write in flight and
  every event: what is late or repeated was true, or told by an unverified event, when it was
  sent, and what the provider has done, or was said to have done, stays so.
* `RowFollowsProvider` is proved from `FollowInv`, which adds to `RowInv` that every change at the
  provider sends at most one event and that what is written for it says the same
  (`EventsTold`), that a delivered event is in the row, older than what is, or about to be
  written (`DeliveredWritten`), and that the newest event told how the payment stands, since
  when nothing but accepted refunds was written (`StageTold`). An unverified event writes for
  change 0, so that a row no older than any real event is not its doing.
* `AlertsWhereBurstsBegin` is proved from `AlertInv`: of a code the running process has
  answered, the store holds the occurrences that the last answer made recur, or the newest
  of them when there are more than the cap, and the flag says whether that answer was
  in a burst (`Remembers`). The cap loses occurrences but not the count up to
  `Threshold`, since it is no smaller.
* `RefundedOnce` is proved from `DisputeInv`: one call resolves the dispute unless a second
  has overlapped with it, and as long as only the page asks, the call that is active is
  the one it waits for.
* `AskedOnce` is proved from `FormInv`: a request that waits for a code or is repeated has
  not been performed, and a cancelled one waits for ever and is not the one kept.
* `SeenOnce` is proved from `ChatInv`: a socket that has read the history has a message
  in it or has yet to be sent it (`WillSee`, `Sees`), and a message is saved once
  (`SavedOnce`).
* `SavedIsStored` is proved from `CvInv`: a saving that is still `clean` carries the CV that is
  shown, is the only one, and has stored it once it is performed (`Lonely`); when the button
  says so, whatever has yet to be written to the row is the same CV (`Kept`).
* `MarkIsStored` is proved from `JobInv`. An exchange that is `alone` agrees with every other
  that may change the bookmark, and with the row once it has written it (`AloneMark`,
  `AloneLoad`); while nothing is `blurred`, calls that were left behind ask for what is shown,
  and the row has it too if no answer says otherwise (`MarkSettled`). A card makes one
  exchange at a time (`OneOnCard`), without which turning what is shown would be wrong.
* `PostedOnce` is proved from `PostInv`: one posting of a visit is awaited at most, while it
  is nothing is published, and a job whose answer was not lost is the one that is awaited or
  the one that is shown.
* `ListMatchesHeading` is proved from `WorkInv`: unless loads went astray, one list is being
  loaded, and it is of the job in the heading.
* `ReadShownIsRead` is proved from `BellInv`: a row never becomes unread again, so a list
  on its way shows nothing as read that is not, and a marking that was performed holds of
  all notices there were by then (`RingInv`).
* `TokensOfShownUser` is proved from `SignInv`: a refresh that is under way is the user's, and so is
  the answer the profile page waits for (`OwnTrip`). A sign-out leaves nobody to show a profile
  to, and nobody can sign in from the page itself; a sign-in that comes from a form left before
  is what `strayed` excepts, until the page is left: then nothing of it is shown, or heard, any
  more (`PageLeft`).

* `Desk!TypeOK` is proved part by part, next to these invariants, and needs three facts of its
  own. A history is no longer than the calls are many because no message is saved twice
  (`SavedAreFew`, from the pigeonhole theorem). A socket is sent a message at most once while
  the message is still under way to its instance, hence at most twice (`FewSent`). The lists
  and numbers that the bell's calls carry are of notices that there are, which only ever
  become more (`BellRest`).

TLC only: everything about liveness. Every invariant and every action property that a passing
run checks is a theorem.

## 5. What is not modelled

* `EscrowProcessor.handleWithdrawal` and the wallet processor's `release-pending`:
  nothing queues their jobs.
* E-mail and Telegram only send what they are given. What of jobs, users and uploads no
  modelled page calls is CRUD over single rows, search an index fed from them, admin
  statistics, analytics and index master reports. None has a protocol or state
  that several actors change in steps.
* The pages of the web clients that only show data or send one request (listings,
  the wallet, the assistant's chat): their state is what the user has typed.
* Creation of a user and of a chat room: single inserts, the latter called by nobody.
* Payment, identity and e-mail providers, Redis and otplib appear as what they may do
  to the API.

## 6. Findings and observations

The runs that end in a violation are the findings; each refutes words of the
code. What follows was noticed while modelling. The models do what the code does.

* `initiate` queues an UNLOCK_FUNDS job "to unlock funds if Chapa payment is not completed in 24
  hours" (`escrow.service.ts:76`), which no processor handles: the lock stays.
* `withdraw` refuses what the wallet does not hold before the transaction that debits
  (`wallet.service.ts:83`): two withdrawals at once overdraw it.
* The rollback of a refused transfer (`wallet.service.ts:121`) is inside the `try` whose `catch`
  rolls back too (`:137`): committed and seen to fail, it is made twice. `WalletConserved` counts
  both.
* "Candidates above this threshold are automatically shortlisted" (`queues.constants.ts:75`) but for
  one failure between the score and the verdict: every retry then fails at the insert of the
  score (`screening.processor.ts:100`), and the application stays in SCREENING.
* A refresh that has deleted its row (`auth.service.ts:146`) stores the next one after a logout
  (`:152`), which tells the user that the "active login token for this device has been invalidated"
  (`email-templates.tsx:220`). `resetPassword` deletes no refresh token.
* An enrolment begun anew replaces the secret of the row (`two-factor.service.ts:105`) also
  between the check of a code and the update that enables it (`:171`): the factor is then enabled
  with a secret nobody has confirmed.
* Of two resets with one link both succeed.
* A refund made through the API with an amount is `PARTIALLY_REFUNDED` even when
  it is full; `charge.refunded` sets `REFUNDED` even when it is partial. A refund that Stripe
  accepts and fails to make leaves the row refunded (`stripe.service.ts:214`). PayPal's sale
  events carry the id of the sale, which is not the one stored.
* "Capture an approved PayPal order (completes the payment)" (`paypal.service.ts:164`) stores
  SUCCEEDED for an order with the intent AUTHORIZE, whose money is only reserved (`:201`). A
  subscription is SUCCEEDED once it is activated (`:398`), before it is charged.
* Webhooks are "verified via HMAC signature" (`payments.controller.ts:14`), PayPal's not without
  PAYPAL_WEBHOOK_ID (`paypal.service.ts:319`): the row may show what PayPal never did.
* What a failed job moves twice makes the pending balance negative.
* The chat gateway reads a claim that `issueTokens` does not sign (see Bounds). A history
  is the oldest 50 messages. A message whose sending overlaps a join may be seen
  twice or never.
* In a step-up form, the end of a retry closes a newer modal, and a code verified in an
  older modal performs the newer request.
* The admin's form for a dispute stays open and enabled for 1.5 s after it succeeded.
* The contact page (`app/contact/page.tsx:45`) resets its form through an event that is over
  by then, which throws: the message is sent, and an error shows when the form does again.
* A change of status on the employer's dashboard brings back the job that was selected when it
  was made (`app/employer/page.tsx:61`), whatever has been selected since.
* A refresh that is answered after a sign-out stores tokens again, so that the next reload signs the
  user in; after a sign-in as somebody else, requests go out for the user before
  (`lib/auth.ts:82`). A refresh that fails clears the tokens and leaves the user in the header
  until the client is loaded anew. A request answered 401 after another sign-in is repeated for
  the other user.
* A login form that was left and is answered while another user's profile is open shows that
  profile under the new user's name, until the router has left the page (`LoginForm.tsx:42`).
* An account with a second factor cannot sign in through `LoginForm`: the challenge is not what
  `authResponseSchema` expects, and the form says that something went wrong.
* `frontend/src/App.tsx` asks for `/auth/2fa/status`, which no controller serves, so its settings
  never show an enabled factor; the wizard and the settings are not modelled for that reason.
* A lost connection leaves the bookmark of a card waiting until the page is opened again
  (`SaveJobButton.tsx:45`).
* `wallet.service.ts:110` debits the converted amount and asks for the unconverted one.

## 7. Files

`X.tla` specification, `XMC.tla` instances, `XProofs.tla` theorems, `*.cfg` TLC
configurations (`v_*.cfg` for the runs that end in a violation), `PROJECT.json` the
list of components, runs, mutants, source lines, findings, hazards and theorems.

    tlc -workers 2 -config funding.cfg EscrowFundingMC.tla
    tlapm EscrowFundingProofs.tla

## 8. Plan

Done, in this order: `GigAward`, `EscrowFunding`, `MilestonePayout`, `CandidateScreening`,
`HiringPipeline`; then `Sessions`, `TwoFactor`, `Credentials` and the account they make up;
`Payments` and `ErrorRecurrence` behind one filter; `DisputeResolution`, `Verification`,
`StepUpForm` and `Chat`; the pages of the job board; and the proofs of all of them.

What remains worth doing: the escrow rows of a disputed contract, which `resolveDispute`
leaves alone; the payout with disputes in one instance.
