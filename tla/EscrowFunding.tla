---------------------------- MODULE EscrowFunding ----------------------------
(***************************************************************************)
(* How one employer's gigs are auctioned and paid for.                     *)
(*                                                                         *)
(* FreelanceService keeps the gigs, the bids and the contract a gig ends   *)
(* in.  EscrowService.initiate charges the employer: it takes what it can  *)
(* from the employer wallet and asks the payment gateway (Chapa) for the   *)
(* rest.  The gateway's callbacks are queued on the Bull queue "escrow"    *)
(* and handled by EscrowProcessor.handleWebhook.                           *)
(*                                                                         *)
(* Requests and queue workers interleave at every await of the code.  A    *)
(* request that dies simply takes no further step.                         *)
(***************************************************************************)
EXTENDS Integers, FiniteSets, Functions

CONSTANTS
  Gigs,          (* gigs of one employer, who owns one employer wallet       *)
  Freelancers,   (* the users who may bid                                    *)
  Requests,      (* calls of initiate; a call's identity is its fresh txRef  *)
  Callbacks,     (* payment callbacks, each one a job of the escrow queue    *)
  Workers,       (* concurrency of the escrow queue, over all instances      *)
  Amounts,       (* budgets and bid amounts                                  *)
  StartBalance,  (* what earlier refunds left in the employer wallet         *)
  Attempts,      (* Bull attempts of a job                                   *)
  MaxFaults,     (* bound on the worker failures considered                  *)
  None           (* no row, no reference                                     *)

ASSUME FundingAssumption ==
  /\ IsFiniteSet(Gigs) /\ IsFiniteSet(Requests)
  /\ IsFiniteSet(Workers) /\ Workers # {}
  /\ Amounts \subseteq Nat \ {0}
  /\ StartBalance \in Nat
  /\ Attempts \in Nat \ {0}
  /\ MaxFaults \in Nat
  /\ None \notin Requests \cup Freelancers \cup Gigs \cup Callbacks

VARIABLES
  gig,         (* FreelanceJob rows                                          *)
  bid,         (* Bid rows                                                   *)
  submitting,  (* gigs and freelancers with submitBid calls past the checks  *)
  contract,    (* Contract rows; freelancer = None: no row                   *)
  escrow,      (* EscrowTransaction rows                                     *)
  balance,     (* EmployerWallet.balance                                     *)
  locked,      (* EmployerWallet.lockedBalance                               *)
  debits,      (* DEBIT_WITHDRAWAL rows, counted by the charge they record   *)
  credit,      (* amount of the CREDIT_AVAILABLE row of a gig, 0: no row     *)
  req,         (* local variables of the calls of initiate                   *)
  unlock,      (* the delayed UNLOCK_FUNDS job of a request                  *)
  paid,        (* requests whose checkout the employer paid, at the gateway  *)
  job,         (* jobs process-payment-webhook                               *)
  slot,        (* what each worker holds                                     *)
  faults       (* worker failures so far                                     *)

market == <<gig, bid, submitting, contract>>
wallet == <<balance, locked, debits, credit>>
gateway == <<unlock, paid>>
queue == <<job, slot, faults>>
vars == <<market, escrow, wallet, req, gateway, queue>>

(* The place of a call of initiate: the step it takes next, or where it    *)
(* ended ("open": the checkout is payable, "closed": it is not).           *)
Places == {"start", "wallet", "apply", "upsert", "queue", "ledger", "spend",
           "checkout", "open", "closed", "spent"}
Unapplied == {"start", "wallet", "apply"}   (* the wallet is untouched       *)
Unwritten == Unapplied \cup {"upsert"}      (* the escrow row is not written *)
WalletFunded == {"ledger", "spend", "spent"}(* the wallet covers all of it   *)

GigRow == [status : {"NONE", "OPEN", "FUNDED", "IN_PROGRESS"}, budgetMax : Nat]
BidRow == [status : {"NONE", "PENDING", "ACCEPTED", "REJECTED"}, amount : Nat]
ContractRow == [freelancer : Freelancers \cup {None}, agreedAmount : Nat]
EscrowRow == [status : {"NONE", "PENDING", "FUNDED"}, grossAmount : Nat,
              walletApplied : Nat, gatewayRef : Requests \cup {None}]
Call == [at : Places, gig : Gigs \cup {None}, gross : Nat, applied : Nat]
Job == [state : {"none", "waiting", "active", "done", "failed"},
        ref : Requests \cup {None}, success : BOOLEAN, attempts : Nat]
Slot == [at : {"idle", "commit", "notify"}, job : Callbacks \cup {None},
         gig : Gigs \cup {None}, ref : Requests \cup {None}, applied : Nat]

TypeOK ==
  /\ gig \in [Gigs -> GigRow]
  /\ bid \in [Gigs -> [Freelancers -> BidRow]]
  /\ submitting \subseteq Gigs \X Freelancers
  /\ contract \in [Gigs -> ContractRow]
  /\ escrow \in [Gigs -> EscrowRow]
  /\ balance \in Int /\ locked \in Int
  /\ debits \in [Requests -> Nat]
  /\ credit \in [Gigs -> Nat]
  /\ req \in [Requests -> Call]
  /\ unlock \in [Requests -> {"none", "delayed", "ran"}]
  /\ paid \subseteq Requests
  /\ job \in [Callbacks -> Job]
  /\ slot \in [Workers -> Slot]
  /\ faults \in Nat

-----------------------------------------------------------------------------
NoBid == [status |-> "NONE", amount |-> 0]
NoContract == [freelancer |-> None, agreedAmount |-> 0]
NoEscrow == [status |-> "NONE", grossAmount |-> 0, walletApplied |-> 0,
             gatewayRef |-> None]
NewCall == [at |-> "start", gig |-> None, gross |-> 0, applied |-> 0]
NoJob == [state |-> "none", ref |-> None, success |-> FALSE, attempts |-> 0]
Idle == [at |-> "idle", job |-> None, gig |-> None, ref |-> None, applied |-> 0]

Init ==
  /\ gig = [g \in Gigs |-> [status |-> "NONE", budgetMax |-> 0]]
  /\ bid = [g \in Gigs |-> [f \in Freelancers |-> NoBid]]
  /\ submitting = {}
  /\ contract = [g \in Gigs |-> NoContract]
  /\ escrow = [g \in Gigs |-> NoEscrow]
  /\ balance = StartBalance /\ locked = 0
  /\ debits = [r \in Requests |-> 0]
  /\ credit = [g \in Gigs |-> 0]
  /\ req = [r \in Requests |-> NewCall]
  /\ unlock = [r \in Requests |-> "none"]
  /\ paid = {}
  /\ job = [c \in Callbacks |-> NoJob]
  /\ slot = [w \in Workers |-> Idle]
  /\ faults = 0

-----------------------------------------------------------------------------
(* FreelanceService *)

Exists(g) == gig[g].status # "NONE"
Contracted(g) == contract[g].freelancer # None

CreateJob(g, b) ==
  /\ ~Exists(g)
  /\ gig' = [gig EXCEPT ![g] = [status |-> "OPEN", budgetMax |-> b]]
  /\ UNCHANGED <<bid, submitting, contract, escrow, wallet, req, gateway, queue>>

(* submitBid: the gig takes bids and the freelancer has none on it yet.    *)
SubmitBidCheck(g, f) ==
  /\ gig[g].status \in {"OPEN", "FUNDED"}
  /\ bid[g][f] = NoBid
  /\ submitting' = submitting \cup {<<g, f>>}
  /\ UNCHANGED <<gig, bid, contract, escrow, wallet, req, gateway, queue>>

(* A mutant: no unique key, the second call of a freelancer wins.          *)
SubmitBidCreateAgain(g, f, a) ==
  /\ <<g, f>> \in submitting
  /\ bid' = [bid EXCEPT ![g][f] = [status |-> "PENDING", amount |-> a]]
  /\ UNCHANGED <<gig, submitting, contract, escrow, wallet, req, gateway, queue>>

(* bid.create; the unique key (freelanceJobId, freelancerId) refuses a     *)
(* second row of the same freelancer.  Any number of his calls may have    *)
(* passed the checks together, and each may insert late, or never.         *)
SubmitBidCreate(g, f, a) ==
  /\ <<g, f>> \in submitting
  /\ bid' = IF bid[g][f] = NoBid
            THEN [bid EXCEPT ![g][f] = [status |-> "PENDING", amount |-> a]]
            ELSE bid
  /\ UNCHANGED <<gig, submitting, contract, escrow, wallet, req, gateway, queue>>

(* A mutant: whatever the escrow holds is adjusted to the bid.             *)
ExcessUnchecked(g, a) ==
  IF escrow[g].status \in {"FUNDED", "PENDING"}
  THEN escrow[g].grossAmount - a ELSE 0

(* What the escrow holds above the accepted amount is refunded.            *)
Excess(g, a) ==
  IF escrow[g].status \in {"FUNDED", "PENDING"} /\ escrow[g].grossAmount > a
  THEN escrow[g].grossAmount - a ELSE 0

(* A mutant: no unique key, a second acceptance replaces the contract.     *)
AcceptBidAgain(g, f) ==
  LET a == bid[g][f].amount
      excess == Excess(g, a)
  IN /\ bid[g][f] # NoBid
     /\ bid' = [bid EXCEPT ![g] = [h \in Freelancers |->
                  IF bid[g][h] = NoBid THEN NoBid
                  ELSE [bid[g][h] EXCEPT !.status =
                          IF h = f THEN "ACCEPTED" ELSE "REJECTED"]]]
     /\ contract' = [contract EXCEPT ![g] = [freelancer |-> f, agreedAmount |-> a]]
     /\ gig' = [gig EXCEPT ![g].status = "IN_PROGRESS"]
     /\ balance' = balance + excess
     /\ credit' = [credit EXCEPT ![g] = @ + excess]
     /\ escrow' = [escrow EXCEPT ![g].grossAmount = @ - excess]
     /\ UNCHANGED <<submitting, locked, debits, req, gateway, queue>>

(* A mutant: no transaction, a refused contract leaves the bids changed.   *)
AcceptBidNoRollback(g, f) ==
  LET a == bid[g][f].amount
      excess == Excess(g, a)
  IN /\ bid[g][f] # NoBid
     /\ bid' = [bid EXCEPT ![g] = [h \in Freelancers |->
                  IF bid[g][h] = NoBid THEN NoBid
                  ELSE [bid[g][h] EXCEPT !.status =
                          IF h = f THEN "ACCEPTED" ELSE "REJECTED"]]]
     /\ contract' = IF Contracted(g) THEN contract ELSE
                   [contract EXCEPT ![g] = [freelancer |-> f, agreedAmount |-> a]]
     /\ gig' = [gig EXCEPT ![g].status = "IN_PROGRESS"]
     /\ balance' = balance + excess
     /\ credit' = [credit EXCEPT ![g] = @ + excess]
     /\ escrow' = [escrow EXCEPT ![g].grossAmount = @ - excess]
     /\ UNCHANGED <<submitting, locked, debits, req, gateway, queue>>

(* acceptBid, one transaction: the unique key of Contract.freelanceJobId   *)
(* rolls a second one back.  The bid is read before the transaction, but   *)
(* what is used of it never changes.                                       *)
AcceptBid(g, f) ==
  LET a == bid[g][f].amount
      excess == Excess(g, a)
  IN /\ bid[g][f] # NoBid
     /\ ~Contracted(g)
     /\ bid' = [bid EXCEPT ![g] = [h \in Freelancers |->
                  IF bid[g][h] = NoBid THEN NoBid
                  ELSE [bid[g][h] EXCEPT !.status =
                          IF h = f THEN "ACCEPTED" ELSE "REJECTED"]]]
     /\ contract' = [contract EXCEPT ![g] = [freelancer |-> f, agreedAmount |-> a]]
     /\ gig' = [gig EXCEPT ![g].status = "IN_PROGRESS"]
     /\ balance' = balance + excess
     /\ credit' = [credit EXCEPT ![g] = @ + excess]
     /\ escrow' = [escrow EXCEPT ![g].grossAmount = @ - excess]
     /\ UNCHANGED <<submitting, locked, debits, req, gateway, queue>>

RejectBid(g, f) ==
  /\ bid[g][f] # NoBid
  /\ bid' = [bid EXCEPT ![g][f].status = "REJECTED"]
  /\ UNCHANGED <<gig, submitting, contract, escrow, wallet, req, gateway, queue>>

-----------------------------------------------------------------------------
(* EscrowService.initiate, one action per await *)

Goto(r, place) == req' = [req EXCEPT ![r].at = place]

(* The gig and its contract are read; they fix the gross amount.           *)
ReadGig(r, g) ==
  /\ req[r].at = "start"
  /\ Exists(g)
  /\ req' = [req EXCEPT ![r] =
       [at |-> "wallet", gig |-> g, applied |-> 0,
        gross |-> IF Contracted(g) THEN contract[g].agreedAmount
                                   ELSE gig[g].budgetMax]]
  /\ UNCHANGED <<market, escrow, wallet, gateway, queue>>

(* The wallet is read; it fixes how much of it will be applied.            *)
ReadWallet(r) ==
  /\ req[r].at = "wallet"
  /\ req' = [req EXCEPT
       ![r].applied = IF balance <= 0 THEN 0
                      ELSE IF balance >= req[r].gross THEN req[r].gross
                      ELSE balance,
       ![r].at = IF balance > 0 THEN "apply" ELSE "upsert"]
  /\ UNCHANGED <<market, escrow, wallet, gateway, queue>>

(* A mutant: the amount is taken from the balance and never locked.        *)
ApplyWalletUnlocked(r) ==
  /\ req[r].at = "apply"
  /\ balance' = balance - req[r].applied
  /\ Goto(r, "upsert")
  /\ UNCHANGED <<market, escrow, locked, debits, credit, gateway, queue>>

(* balance is decremented by the amount computed before, unconditionally.  *)
ApplyWallet(r) ==
  /\ req[r].at = "apply"
  /\ balance' = balance - req[r].applied
  /\ locked' = locked + req[r].applied
  /\ Goto(r, "upsert")
  /\ UNCHANGED <<market, escrow, debits, credit, gateway, queue>>

(* The escrow row of the gig is created or overwritten, whatever its       *)
(* status.  Fee and net amount are functions of the gross amount.          *)
UpsertEscrow(r) ==
  LET full == req[r].applied = req[r].gross
  IN /\ req[r].at = "upsert"
     /\ escrow' = [escrow EXCEPT ![req[r].gig] =
          [status |-> IF full THEN "FUNDED" ELSE "PENDING",
           grossAmount |-> req[r].gross, walletApplied |-> req[r].applied,
           gatewayRef |-> r]]
     /\ Goto(r, IF full THEN "ledger"
                ELSE IF req[r].applied > 0 THEN "queue" ELSE "checkout")
     /\ UNCHANGED <<market, wallet, gateway, queue>>

QueueUnlock(r) ==
  /\ req[r].at = "queue"
  /\ unlock' = [unlock EXCEPT ![r] = "delayed"]
  /\ Goto(r, "checkout")
  /\ UNCHANGED <<market, escrow, wallet, paid, queue>>

WriteLedger(r) ==
  /\ req[r].at = "ledger"
  /\ debits' = [debits EXCEPT ![r] = @ + 1]
  /\ Goto(r, "spend")
  /\ UNCHANGED <<market, escrow, balance, locked, credit, gateway, queue>>

SpendLocked(r) ==
  /\ req[r].at = "spend"
  /\ locked' = locked - req[r].applied
  /\ Goto(r, "spent")
  /\ UNCHANGED <<market, escrow, balance, debits, credit, gateway, queue>>

(* The gateway is asked for a checkout; an error is logged and swallowed.  *)
OpenCheckout(r) ==
  /\ req[r].at = "checkout"
  /\ \E place \in {"open", "closed"} : Goto(r, place)
  /\ UNCHANGED <<market, escrow, wallet, gateway, queue>>

(* 24 hours later the escrow queue runs UNLOCK_FUNDS, for which no module  *)
(* registers a handler: Bull fails the job and nothing else happens.       *)
UnlockFunds(r) ==
  /\ unlock[r] = "delayed"
  /\ unlock' = [unlock EXCEPT ![r] = "ran"]
  /\ UNCHANGED <<market, escrow, wallet, req, paid, queue>>

-----------------------------------------------------------------------------
(* The payment gateway *)

Pay(r) ==
  /\ req[r].at = "open"
  /\ paid' = paid \cup {r}
  /\ UNCHANGED <<market, escrow, wallet, req, unlock, queue>>

(* A callback is accepted by the controller and queued by handleWebhook.   *)
(* The gateway may send any number of them for a transaction, at any time, *)
(* but reports success only of a payment it received.                      *)
Deliver(c, r, success) ==
  /\ job[c].state = "none"
  /\ req[r].at = "open"
  /\ success => r \in paid
  /\ job' = [job EXCEPT ![c] = [state |-> "waiting", ref |-> r,
                                success |-> success, attempts |-> 0]]
  /\ UNCHANGED <<market, escrow, wallet, req, gateway, slot, faults>>

-----------------------------------------------------------------------------
(* EscrowProcessor.handleWebhook *)

Matches(c, g) == escrow[g].gatewayRef = job[c].ref

(* Mutants: any callback funds, and a FUNDED row is funded again.          *)
FundsUnpaid(c, g) == Matches(c, g) /\ escrow[g].status # "FUNDED"
FundsAgain(c, g) == Matches(c, g) /\ job[c].success

(* The callback that will fund gig g: it succeeded, and the row that holds *)
(* its reference is not yet FUNDED.                                        *)
Funds(c, g) == Matches(c, g) /\ job[c].success /\ escrow[g].status # "FUNDED"

SkipCallback(w, c) ==
  /\ slot[w].at = "idle"
  /\ job[c].state = "waiting"
  /\ \A g \in Gigs : ~Funds(c, g)
  /\ job' = [job EXCEPT ![c].state = "done"]
  /\ UNCHANGED <<market, escrow, wallet, req, gateway, slot, faults>>

(* The escrow row is read before the transaction that uses it.             *)
ReadEscrow(w, c, g) ==
  /\ slot[w].at = "idle"
  /\ job[c].state = "waiting"
  /\ Funds(c, g)
  /\ job' = [job EXCEPT ![c].state = "active"]
  /\ slot' = [slot EXCEPT ![w] = [at |-> "commit", job |-> c, gig |-> g,
                                  ref |-> job[c].ref,
                                  applied |-> escrow[g].walletApplied]]
  /\ UNCHANGED <<market, escrow, wallet, req, gateway, faults>>

(* One transaction, with the amounts read before it.                       *)
CommitFunded(w) ==
  LET s == slot[w]
  IN /\ s.at = "commit"
     /\ escrow' = [escrow EXCEPT ![s.gig].status = "FUNDED"]
     /\ gig' = [gig EXCEPT ![s.gig].status = "FUNDED"]
     /\ locked' = locked - s.applied
     /\ debits' = IF s.applied > 0 THEN [debits EXCEPT ![s.ref] = @ + 1]
                                   ELSE debits
     /\ slot' = [slot EXCEPT ![w].at = "notify"]
     /\ UNCHANGED <<bid, submitting, contract, balance, credit, req, gateway,
                    job, faults>>

NotifyClient(w) ==
  /\ slot[w].at = "notify"
  /\ job' = [job EXCEPT ![slot[w].job].state = "done"]
  /\ slot' = [slot EXCEPT ![w] = Idle]
  /\ UNCHANGED <<market, escrow, wallet, req, gateway, faults>>

(* A mutant: a job that fails is not attempted again.                      *)
WorkerFaultGivesUp(w) ==
  /\ slot[w].at # "idle"
  /\ faults < MaxFaults
  /\ faults' = faults + 1
  /\ LET c == slot[w].job
         n == job[c].attempts + 1
     IN job' = [job EXCEPT ![c].attempts = n,
                           ![c].state = "failed"]
  /\ slot' = [slot EXCEPT ![w] = Idle]
  /\ UNCHANGED <<market, escrow, wallet, req, gateway>>

(* A database error, a Redis error or a crash while a job is active: Bull  *)
(* runs the handler again from its start, or gives the job up.             *)
WorkerFault(w) ==
  /\ slot[w].at # "idle"
  /\ faults < MaxFaults
  /\ faults' = faults + 1
  /\ LET c == slot[w].job
         n == job[c].attempts + 1
     IN job' = [job EXCEPT ![c].attempts = n,
                           ![c].state = IF n < Attempts THEN "waiting" ELSE "failed"]
  /\ slot' = [slot EXCEPT ![w] = Idle]
  /\ UNCHANGED <<market, escrow, wallet, req, gateway>>

-----------------------------------------------------------------------------
Freelance ==
  \E g \in Gigs :
    \/ \E b \in Amounts : CreateJob(g, b)
    \/ \E f \in Freelancers :
         \/ SubmitBidCheck(g, f)
         \/ \E a \in Amounts : SubmitBidCreate(g, f, a)
         \/ AcceptBid(g, f)
         \/ RejectBid(g, f)

Initiate ==
  \E r \in Requests :
    \/ \E g \in Gigs : ReadGig(r, g)
    \/ ReadWallet(r) \/ ApplyWallet(r) \/ UpsertEscrow(r) \/ QueueUnlock(r)
    \/ WriteLedger(r) \/ SpendLocked(r) \/ OpenCheckout(r) \/ UnlockFunds(r)

Gateway ==
  \E r \in Requests :
    \/ Pay(r)
    \/ \E c \in Callbacks, success \in BOOLEAN : Deliver(c, r, success)

TakeJob(w) ==
  \E c \in Callbacks : SkipCallback(w, c) \/ \E g \in Gigs : ReadEscrow(w, c, g)

Work(w) == TakeJob(w) \/ CommitFunded(w) \/ NotifyClient(w)

Next ==
  \/ Freelance
  \/ Initiate
  \/ Gateway
  \/ \E w \in Workers : Work(w) \/ WorkerFault(w)

Spec == Init /\ [][Next]_vars

(* Bull keeps every worker running: a queued job is eventually taken and a *)
(* job that was taken is eventually carried on.  Nobody has to bid, accept *)
(* or pay, and a call of initiate may die at any of its steps.             *)
FairSpec == Spec /\ \A w \in Workers : WF_vars(Work(w))

-----------------------------------------------------------------------------
(* Properties *)

(* A gig has at most one accepted bid, and it is the bid of the contract,  *)
(* at the agreed amount: however acceptBid, rejectBid and late bids of     *)
(* submitBid interleave, nobody else is told that they won.                *)
AcceptedBidIsContracted ==
  \A g \in Gigs, f \in Freelancers :
    bid[g][f].status = "ACCEPTED" =>
      contract[g] = [freelancer |-> f, agreedAmount |-> bid[g][f].amount]

(* Somebody paid for a FUNDED escrow: a call of initiate for that gig was  *)
(* paid at the gateway, or took its whole gross amount from the wallet.    *)
(* Stale reads of handleWebhook and repeated calls cannot invent funding.  *)
FundedOnlyIfPaid ==
  \A g \in Gigs : escrow[g].status = "FUNDED" =>
    \E r \in Requests :
      /\ req[r].gig = g
      /\ req[r].at \notin Unwritten
      /\ r \in paid \/ req[r].applied = req[r].gross

(* What a call of initiate locked is debited at most once per worker of    *)
(* the queue: only handlers that overlap can debit it again, a retry or a  *)
(* later duplicate of the callback cannot.                                 *)
DebitsBoundedByWorkers ==
  \A r \in Requests : debits[r] <= Cardinality(Workers)

(* The wallet loses and gains nothing on the way: balance and lockedBalance*)
(* always agree with the charges in progress and with the ledger rows.     *)
Taken(r) == IF req[r].at \in Unapplied THEN 0 ELSE req[r].applied
Released(r) == debits[r] * req[r].applied
               - (IF req[r].at = "spend" THEN req[r].applied ELSE 0)
TakenAmounts == [r \in Requests |-> Taken(r)]
ReleasedAmounts == [r \in Requests |-> Released(r)]
WalletAccounted ==
  /\ balance = StartBalance + SumFunction(credit) - SumFunction(TakenAmounts)
  /\ locked = SumFunction(TakenAmounts) - SumFunction(ReleasedAmounts)

(* A contract, once made, is never replaced or altered by a later acceptBid*)
(* on the same gig, even after a late callback lists the gig again.        *)
ContractIsFinal ==
  [][\A g \in Gigs : Contracted(g) => contract'[g] = contract[g]]_contract

(* A success callback in the queue leads to a FUNDED escrow, unless a new  *)
(* call of initiate replaced the reference the callback carries.           *)
PaidCallbackFunds ==
  \A c \in Callbacks :
    (job[c].state = "waiting" /\ job[c].success)
      ~> (\A g \in Gigs : Matches(c, g) => escrow[g].status = "FUNDED")

(* The gigs, bids and contracts implement the auction of GigAward: the     *)
(* offers are the amounts of the bids, the award is the contract.          *)
Auction == INSTANCE GigAward WITH
  offer <- [g \in Gigs |-> [f \in Freelancers |-> bid[g][f].amount]],
  award <- contract
AuctionSpec == Auction!Spec

-----------------------------------------------------------------------------
(* The inductive invariants the theorems of EscrowFundingProofs rest on *)

BidsInv ==
  /\ \A g \in Gigs, f \in Freelancers :
       bid[g][f].status = "NONE" <=> bid[g][f].amount = 0
  /\ AcceptedBidIsContracted

(* What is paid is open; what was not written, or is about to be, has no   *)
(* debit.                                                                  *)
CallsInv ==
  \A r \in Requests :
    /\ req[r].at = "start" \/ req[r].gig \in Gigs
    /\ req[r].at \in WalletFunded => req[r].applied = req[r].gross
    /\ r \in paid => req[r].at = "open"
    /\ req[r].at \in Unwritten \cup {"ledger"} => debits[r] = 0

(* A row holds the reference of a call for its gig, and until it is FUNDED *)
(* that call has not been debited.                                         *)
RowsInv ==
  \A g \in Gigs :
    LET r == escrow[g].gatewayRef
    IN r \in Requests =>
         /\ req[r].gig = g /\ req[r].at \notin Unwritten
         /\ escrow[g].status # "FUNDED" =>
              debits[r] = 0 /\ req[r].at \notin WalletFunded

CallbacksInv ==
  /\ \A c \in Callbacks : job[c].success => job[c].ref \in paid
  /\ \A w \in Workers : slot[w].at = "commit" =>
       slot[w].ref \in paid /\ slot[w].gig \in Gigs /\ slot[w].gig = req[slot[w].ref].gig

(* The workers that read a PENDING row of call r and will debit it.        *)
Handlers(r) == {w \in Workers : slot[w].at = "commit" /\ slot[w].ref = r}

DebitsInv ==
  \A r \in Requests :
    debits[r] = 0 \/ debits[r] + Cardinality(Handlers(r)) <= Cardinality(Workers)

(* A row, and a handler that read one, hold what the call of the reference *)
(* applied of the wallet: what is debited is what was locked.              *)
AppliedInv ==
  /\ \A g \in Gigs : escrow[g].gatewayRef \in Requests =>
       escrow[g].walletApplied = req[escrow[g].gatewayRef].applied
  /\ \A w \in Workers : slot[w].at = "commit" =>
       slot[w].applied = req[slot[w].ref].applied

ChargesInv == CallsInv /\ RowsInv /\ CallbacksInv /\ DebitsInv /\ FundedOnlyIfPaid

-----------------------------------------------------------------------------
(* What the code claims and the model refutes *)

(* "Idempotency -- skip if already funded" (escrow.processor.ts:77): the   *)
(* locked amount of a charge is debited once, however often its success is *)
(* reported.                                                               *)
WebhookIdempotent == \A r \in Requests : debits[r] <= 1
=============================================================================
