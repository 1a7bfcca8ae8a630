--------------------------- MODULE MilestonePayout ---------------------------
(***************************************************************************)
(* How one freelancer is paid: from the employer's approval of a milestone *)
(* to a transfer out of the freelancer wallet.                             *)
(*                                                                         *)
(* EscrowService.releaseMilestone credits the pending balance and queues   *)
(* an auto-release job; EscrowProcessor.handleAutoRelease moves the amount *)
(* to the available balance once a hold of three days has elapsed;         *)
(* WalletService.withdraw debits the available balance, asks the payment   *)
(* gateway for a transfer and takes the debit back when that fails.        *)
(* Both balances are kept apart: what a job moves twice leaves their sum   *)
(* as it was.                                                              *)
(*                                                                         *)
(* Calls and jobs interleave at every await.  A call that dies, or whose   *)
(* error is swallowed (the catch of releaseMilestone), takes no further    *)
(* step.                                                                   *)
(***************************************************************************)
EXTENDS Integers, FiniteSets, Functions

CONSTANTS
  Milestones,   (* milestones of the freelancer's contracts                  *)
  Approvals,    (* calls of releaseMilestone                                 *)
  Withdrawals,  (* calls of withdraw                                         *)
  Amounts,      (* gross milestone amounts                                   *)
  Requested,    (* amounts asked for in a withdrawal                         *)
  Currencies,   (* currencies they are asked for in                          *)
  MaxJobs,      (* bound on the auto-release jobs queued                     *)
  Concurrency,  (* jobs of the escrow queue that may run at once             *)
  Attempts,     (* Bull attempts of a job                                    *)
  MaxFaults,    (* bound on the job failures considered                      *)
  None

Jobs == 1..MaxJobs

(* The wallet is kept in ETB; rates are in tenths of an ETB, and a         *)
(* converted amount is rounded half up.                                    *)
Rate == [ETB |-> 10, USD |-> 1205, EUR |-> 1302]
ToETB(n, currency) == (n * Rate[currency] + 5) \div 10

ASSUME PayoutAssumption ==
  /\ IsFiniteSet(Approvals) /\ IsFiniteSet(Withdrawals)
  /\ Amounts \subseteq Nat \ {0} /\ Requested \subseteq Nat \ {0}
  /\ Currencies \subseteq DOMAIN Rate
  /\ MaxJobs \in Nat /\ Concurrency \in Nat \ {0}
  /\ Attempts \in Nat \ {0} /\ MaxFaults \in Nat
  /\ None \notin Milestones \cup Approvals

VARIABLES
  milestone,   (* Milestone rows                                             *)
  pending,     (* FreelancerWallet.pendingBalance                            *)
  available,   (* FreelancerWallet.availableBalance                          *)
  credits,     (* CREDIT_AVAILABLE rows, counted by the approval they pay    *)
  moves,       (* history: how often the amount of an approval was moved     *)
  approval,    (* local variables of the calls of releaseMilestone           *)
  due,         (* approvals whose releaseAt has passed                       *)
  job,         (* auto-release jobs                                          *)
  faults,      (* job failures so far                                        *)
  withdrawal,  (* local variables of the calls of withdraw                   *)
  sent         (* ETB the gateway really transferred for a withdrawal        *)

balances == <<pending, available>>
ledger == <<credits, moves>>
release == <<approval, due, job, faults>>
payout == <<withdrawal, sent>>
vars == <<milestone, balances, ledger, release, payout>>

Waiting == {"waiting", "delayed"}
Running == {"requeued", "moved", "recorded"}

(* Where a withdrawal is once it was debited: the gateway is being asked,  *)
(* has refused, was not reached (the catch of withdraw), or has accepted.  *)
(* "unacknowledged" is the catch as well, entered from a rollback that was *)
(* committed although the call saw it fail.                                *)
Outstanding == {"transfer", "refused", "unreached", "returned"}
Debited == Outstanding \cup {"unacknowledged", "restored", "twice"}

MilestoneRow == [status : {"NONE", "PENDING", "APPROVED"}, amount : Nat]
Approval == [at : {"start", "credit", "enqueue", "queued"},
             milestone : Milestones \cup {None}, net : Nat]
Job == [state : {"none", "done", "failed"} \cup Waiting \cup Running,
        approval : Approvals \cup {None}, attempts : Nat]
Withdrawal == [at : {"start", "debit"} \cup Debited, asked : Nat, debit : Nat]

TypeOK ==
  /\ milestone \in [Milestones -> MilestoneRow]
  /\ pending \in Int /\ available \in Int
  /\ credits \in [Approvals -> Nat] /\ moves \in [Approvals -> Nat]
  /\ approval \in [Approvals -> Approval]
  /\ due \subseteq Approvals
  /\ job \in [Jobs -> Job]
  /\ faults \in Nat
  /\ withdrawal \in [Withdrawals -> Withdrawal]
  /\ sent \in [Withdrawals -> Nat]

Init ==
  /\ milestone = [m \in Milestones |-> [status |-> "NONE", amount |-> 0]]
  /\ pending = 0 /\ available = 0
  /\ credits = [a \in Approvals |-> 0] /\ moves = [a \in Approvals |-> 0]
  /\ approval = [a \in Approvals |-> [at |-> "start", milestone |-> None, net |-> 0]]
  /\ due = {}
  /\ job = [j \in Jobs |-> [state |-> "none", approval |-> None, attempts |-> 0]]
  /\ faults = 0
  /\ withdrawal = [x \in Withdrawals |-> [at |-> "start", asked |-> 0, debit |-> 0]]
  /\ sent = [x \in Withdrawals |-> 0]

-----------------------------------------------------------------------------
(* Milestones and their approval *)

(* A mutant: the percentage is taken for a fraction.                       *)
FeeTenfold(gross) == gross * 10

(* The platform keeps 10%, rounded half up.                                *)
Fee(gross) == (gross + 5) \div 10
Net(gross) == gross - Fee(gross)

CreateMilestone(m, gross) ==
  /\ milestone[m].status = "NONE"
  /\ milestone' = [milestone EXCEPT ![m] = [status |-> "PENDING", amount |-> gross]]
  /\ UNCHANGED <<balances, ledger, release, payout>>

(* Any existing milestone can be approved, also one that already is.       *)
Approve(a, m) ==
  /\ approval[a].at = "start"
  /\ milestone[m].status # "NONE"
  /\ milestone' = [milestone EXCEPT ![m].status = "APPROVED"]
  /\ approval' = [approval EXCEPT ![a] = [at |-> "credit", milestone |-> m,
                                          net |-> Net(milestone[m].amount)]]
  /\ UNCHANGED <<balances, ledger, due, job, faults, payout>>

CreditPending(a) ==
  /\ approval[a].at = "credit"
  /\ pending' = pending + approval[a].net
  /\ approval' = [approval EXCEPT ![a].at = "enqueue"]
  /\ UNCHANGED <<milestone, available, ledger, due, job, faults, payout>>

Fresh(j) ==
  job[j].state = "none" /\ \A k \in Jobs : job[k].state = "none" => j <= k

Queue(j, a, state) == [state |-> state, approval |-> a, attempts |-> 0]

(* The job is queued at once; the hold is checked by whoever runs it.      *)
EnqueueRelease(a, j) ==
  /\ approval[a].at = "enqueue"
  /\ Fresh(j)
  /\ job' = [job EXCEPT ![j] = Queue(j, a, "waiting")]
  /\ approval' = [approval EXCEPT ![a].at = "queued"]
  /\ UNCHANGED <<milestone, balances, ledger, due, faults, payout>>

HoldElapses(a) ==
  /\ approval[a].at = "queued"
  /\ a \notin due
  /\ due' = due \cup {a}
  /\ UNCHANGED <<milestone, balances, ledger, approval, job, faults, payout>>

-----------------------------------------------------------------------------
(* EscrowProcessor.handleAutoRelease *)

CanStart(j) ==
  /\ job[j].state = "waiting"
  /\ Cardinality({k \in Jobs : job[k].state \in Running}) < Concurrency

(* A mutant: the job is copied and stays in the queue as well.             *)
RequeueKeepsJob(j, k) ==
  /\ CanStart(j)
  /\ job[j].approval \notin due
  /\ Fresh(k)
  /\ job' = [job EXCEPT ![k] = Queue(k, job[j].approval, "delayed")]
  /\ UNCHANGED <<milestone, balances, ledger, approval, due, faults, payout>>

(* A mutant: the job completes without a copy.                             *)
RequeueForgets(j, k) ==
  /\ CanStart(j)
  /\ job[j].approval \notin due
  /\ Fresh(k)
  /\ job' = [job EXCEPT ![j].state = "requeued"]
  /\ UNCHANGED <<milestone, balances, ledger, approval, due, faults, payout>>

(* Too early: a delayed copy of the job is queued, this one will complete. *)
Requeue(j, k) ==
  /\ CanStart(j)
  /\ job[j].approval \notin due
  /\ Fresh(k)
  /\ job' = [job EXCEPT ![j].state = "requeued",
                        ![k] = Queue(k, job[j].approval, "delayed")]
  /\ UNCHANGED <<milestone, balances, ledger, approval, due, faults, payout>>

(* The delay of a copy ends with the hold.                                 *)
DelayEnds(j) ==
  /\ job[j].state = "delayed"
  /\ job[j].approval \in due
  /\ job' = [job EXCEPT ![j].state = "waiting"]
  /\ UNCHANGED <<milestone, balances, ledger, approval, due, faults, payout>>

(* A mutant: the hold is not checked.                                      *)
MoveFundsEarly(j) ==
  LET net == approval[job[j].approval].net
  IN /\ CanStart(j)
     /\ pending' = pending - net
     /\ available' = available + net
     /\ moves' = [moves EXCEPT ![job[j].approval] = @ + 1]
     /\ job' = [job EXCEPT ![j].state = "moved"]
     /\ UNCHANGED <<milestone, credits, approval, due, faults, payout>>

(* One upsert of the wallet row moves the amount.                          *)
MoveFunds(j) ==
  LET net == approval[job[j].approval].net
  IN /\ CanStart(j)
     /\ job[j].approval \in due
     /\ pending' = pending - net
     /\ available' = available + net
     /\ moves' = [moves EXCEPT ![job[j].approval] = @ + 1]
     /\ job' = [job EXCEPT ![j].state = "moved"]
     /\ UNCHANGED <<milestone, credits, approval, due, faults, payout>>

RecordCredit(j) ==
  /\ job[j].state = "moved"
  /\ credits' = [credits EXCEPT ![job[j].approval] = @ + 1]
  /\ job' = [job EXCEPT ![j].state = "recorded"]
  /\ UNCHANGED <<milestone, balances, moves, approval, due, faults, payout>>

(* The event is logged, the freelancer is notified, the job completes.     *)
FinishJob(j) ==
  /\ job[j].state \in {"requeued", "recorded"}
  /\ job' = [job EXCEPT ![j].state = "done"]
  /\ UNCHANGED <<milestone, balances, ledger, approval, due, faults, payout>>

(* An error or a crash after any of the steps above: Bull runs the handler *)
(* again from its start, or gives the job up.                              *)
JobFault(j) ==
  /\ job[j].state \in Running
  /\ faults < MaxFaults
  /\ faults' = faults + 1
  /\ LET n == job[j].attempts + 1
     IN job' = [job EXCEPT ![j].attempts = n,
                           ![j].state = IF n < Attempts THEN "waiting" ELSE "failed"]
  /\ UNCHANGED <<milestone, balances, ledger, approval, due, payout>>

-----------------------------------------------------------------------------
(* WalletService.withdraw *)

(* The balance is read and compared before the transaction that uses it.   *)
CheckBalance(x, n, currency) ==
  /\ withdrawal[x].at = "start"
  /\ available >= ToETB(n, currency)
  /\ withdrawal' = [withdrawal EXCEPT ![x] =
       [at |-> "debit", asked |-> n, debit |-> ToETB(n, currency)]]
  /\ UNCHANGED <<milestone, balances, ledger, release, sent>>

(* Debit and ledger row, in one transaction.                               *)
DebitWallet(x) ==
  /\ withdrawal[x].at = "debit"
  /\ available' = available - withdrawal[x].debit
  /\ withdrawal' = [withdrawal EXCEPT ![x].at = "transfer"]
  /\ UNCHANGED <<milestone, pending, ledger, release, sent>>

(* The gateway is asked for the amount of the request, in ETB whatever its *)
(* currency.  It accepts (also for want of a configured gateway, then with *)
(* no transfer), or refuses, or no usable answer comes back: then it may   *)
(* have transferred or not.                                                *)
Transfer(x) ==
  /\ withdrawal[x].at = "transfer"
  /\ \E place \in {"returned", "refused", "unreached"}, transferred \in BOOLEAN :
       /\ place = "refused" => ~transferred
       /\ sent' = IF transferred THEN [sent EXCEPT ![x] = withdrawal[x].asked]
                                 ELSE sent
       /\ withdrawal' = [withdrawal EXCEPT ![x].at = place]
  /\ UNCHANGED <<milestone, balances, ledger, release>>

(* A refusal takes the debit back and marks the ledger row as failed.  The *)
(* transaction stands inside the try: when it fails, the catch treats that *)
(* like a gateway it could not reach, also if it was committed and only    *)
(* its acknowledgement was lost.                                           *)
RollbackRefused(x) ==
  /\ withdrawal[x].at = "refused"
  /\ \/ /\ available' = available + withdrawal[x].debit
        /\ \E place \in {"restored", "unacknowledged"} :
             withdrawal' = [withdrawal EXCEPT ![x].at = place]
     \/ /\ withdrawal' = [withdrawal EXCEPT ![x].at = "unreached"]
        /\ UNCHANGED available
  /\ UNCHANGED <<milestone, pending, ledger, release, sent>>

(* A mutant: what was asked for is restored, not what was debited.         *)
RollbackAsked(x) ==
  /\ withdrawal[x].at \in {"unreached", "unacknowledged"}
  /\ available' = available + withdrawal[x].asked
  /\ withdrawal' = [withdrawal EXCEPT ![x].at =
                      IF @ = "unreached" THEN "restored" ELSE "twice"]
  /\ UNCHANGED <<milestone, pending, ledger, release, sent>>

(* The catch takes the debit back whatever it caught.  When this fails the *)
(* call ends there.                                                        *)
RollbackUnreached(x) ==
  /\ withdrawal[x].at \in {"unreached", "unacknowledged"}
  /\ available' = available + withdrawal[x].debit
  /\ withdrawal' = [withdrawal EXCEPT ![x].at =
                      IF @ = "unreached" THEN "restored" ELSE "twice"]
  /\ UNCHANGED <<milestone, pending, ledger, release, sent>>

-----------------------------------------------------------------------------
Release(a) ==
  \/ \E m \in Milestones : Approve(a, m)
  \/ CreditPending(a)
  \/ \E j \in Jobs : EnqueueRelease(a, j)

Run(j) ==
  \/ \E k \in Jobs : Requeue(j, k)
  \/ MoveFunds(j) \/ RecordCredit(j) \/ FinishJob(j)

Withdraw(x) ==
  \/ \E n \in Requested, currency \in Currencies : CheckBalance(x, n, currency)
  \/ DebitWallet(x) \/ Transfer(x) \/ RollbackRefused(x) \/ RollbackUnreached(x)

Next ==
  \/ \E m \in Milestones, gross \in Amounts : CreateMilestone(m, gross)
  \/ \E a \in Approvals : Release(a) \/ HoldElapses(a)
  \/ \E j \in Jobs : Run(j) \/ DelayEnds(j) \/ JobFault(j)
  \/ \E x \in Withdrawals : Withdraw(x)

Spec == Init /\ [][Next]_vars

(* Time passes, Bull promotes delayed jobs and keeps running what is       *)
(* queued.  Nobody has to approve or withdraw, and those calls may die.    *)
FairSpec ==
  /\ Spec
  /\ \A a \in Approvals : WF_vars(HoldElapses(a))
  /\ \A j \in Jobs : WF_vars(Run(j)) /\ WF_vars(DelayEnds(j))

-----------------------------------------------------------------------------
(* Properties *)

(* Each balance is accounted for by itself.  Pending is what approvals     *)
(* credited minus what jobs moved; available is what jobs moved minus what *)
(* withdrawals debited and did not take back - and plus the debit that a   *)
(* withdrawal took back twice, once for the refusal and once in the catch. *)
(* As long as no job failed, no amount was moved that was not pending.     *)
Credited(a) == IF approval[a].at \in {"enqueue", "queued"} THEN approval[a].net ELSE 0
Moved(a) == moves[a] * approval[a].net
Taken(x) == CASE withdrawal[x].at \in Outstanding -> withdrawal[x].debit
              [] withdrawal[x].at = "twice" -> 0 - withdrawal[x].debit
              [] OTHER -> 0
CreditedAmounts == [a \in Approvals |-> Credited(a)]
MovedAmounts == [a \in Approvals |-> Moved(a)]
TakenAmounts == [x \in Withdrawals |-> Taken(x)]
WalletConserved ==
  /\ pending = SumFunction(CreditedAmounts) - SumFunction(MovedAmounts)
  /\ available = SumFunction(MovedAmounts) - SumFunction(TakenAmounts)
  /\ faults = 0 => pending >= 0

(* The amount of an approval is moved at most once more than there were    *)
(* failures, and every row that records a credit has a move behind it:     *)
(* early runs, re-queued copies and concurrent jobs alone never pay twice. *)
PaidOncePlusFaults ==
  \A a \in Approvals : credits[a] <= moves[a] /\ moves[a] <= 1 + faults

(* Money leaves the pending balance only for an approval whose hold of     *)
(* three days has elapsed, and by exactly the amount of that approval.     *)
HoldIsKept ==
  [][pending' < pending =>
       \E a \in due : /\ pending - pending' = approval[a].net
                      /\ available' - available = approval[a].net]_balances

(* A payout that was queued is eventually recorded as available, also when *)
(* its job runs before the hold has elapsed and when it fails and is run   *)
(* again.                                                                  *)
QueuedIsPaid ==
  \A a \in Approvals : approval[a].at = "queued" ~> credits[a] > 0

-----------------------------------------------------------------------------
(* The inductive invariant behind PaidOncePlusFaults *)

(* Jobs that may still move the amount of the approval, and jobs that have *)
(* moved it and have yet to record the credit.                             *)
Copies(a) == {j \in Jobs : job[j].approval = a /\ job[j].state \in Waiting}
Unrecorded(a) == {j \in Jobs : job[j].approval = a /\ job[j].state = "moved"}

JobsInv == \A j \in Jobs : job[j].state # "none" => job[j].approval \in Approvals

CopiesInv ==
  \A a \in Approvals :
    /\ moves[a] + Cardinality(Copies(a)) <= 1 + faults
    /\ credits[a] + Cardinality(Unrecorded(a)) <= moves[a]
    /\ approval[a].at # "queued" =>
         moves[a] = 0 /\ \A j \in Jobs : job[j].approval # a

-----------------------------------------------------------------------------
(* What the code claims and the model refutes *)

(* "Could not reach payment gateway. Your balance has been restored."      *)
(* (wallet.service.ts:147): a balance that was restored was not paid out.  *)
RestoredIsNotPaid == \A x \in Withdrawals : withdrawal[x].at = "restored" => sent[x] = 0
=============================================================================
