------------------------ MODULE MilestonePayoutProofs ------------------------
(* Theorems about MilestonePayout, for any number of milestones, approvals,*)
(* withdrawals and jobs, any amounts and any failures.                     *)
EXTENDS MilestonePayout, SumTheorems, FiniteSetTheorems, TLAPS

(***************************************************************************)
(* Type correctness                                                        *)
(***************************************************************************)

(* The fee never exceeds the amount, and a conversion yields whole ETB.    *)
LEMMA NetType == \A gross \in Nat : Net(gross) \in Nat
  BY DEF Net, Fee

LEMMA ToETBType == \A n \in Nat, currency \in Currencies : ToETB(n, currency) \in Nat
  <1> TAKE n \in Nat, currency \in Currencies
  <1>1. Rate[currency] \in {10, 1205, 1302}
    BY PayoutAssumption DEF Rate
  <1> QED BY <1>1 DEF ToETB

(* Assigning one field of a row keeps the row well typed.                  *)
LEMMA RowUpdates ==
  /\ \A x \in MilestoneRow : [x EXCEPT !.status = "APPROVED"] \in MilestoneRow
  /\ \A x \in Approval, p \in {"enqueue", "queued"} : [x EXCEPT !.at = p] \in Approval
  /\ \A x \in Job, v \in {"done", "failed"} \cup Waiting \cup Running :
       [x EXCEPT !.state = v] \in Job
  /\ \A x \in Job, n \in Nat : [x EXCEPT !.attempts = n] \in Job
  /\ \A x \in Withdrawal, p \in Debited : [x EXCEPT !.at = p] \in Withdrawal
  BY DEF MilestoneRow, Approval, Job, Withdrawal

LEMMA QueueType ==
  \A j, a, state : a \in Approvals /\ state \in Waiting => Queue(j, a, state) \in Job
  BY DEF Queue, Job

LEMMA InitType == Init => TypeOK
  BY DEF Init, TypeOK, MilestoneRow, Approval, Job, Withdrawal

LEMMA NextType == TypeOK /\ JobsInv /\ [Next]_vars => TypeOK'
  <1> SUFFICES ASSUME TypeOK, JobsInv, [Next]_vars PROVE TypeOK'
    OBVIOUS
  <1> USE PayoutAssumption DEF TypeOK
  <1>1. ASSUME NEW m \in Milestones, NEW gross \in Amounts, CreateMilestone(m, gross)
        PROVE TypeOK'
    <2>1. [status |-> "PENDING", amount |-> gross] \in MilestoneRow
      BY DEF MilestoneRow
    <2> QED BY <1>1, <2>1 DEF CreateMilestone, balances, ledger, release, payout
  <1>2. ASSUME NEW a \in Approvals, NEW m \in Milestones, Approve(a, m) PROVE TypeOK'
    <2>1. [at |-> "credit", milestone |-> m, net |-> Net(milestone[m].amount)]
            \in Approval
      BY NetType DEF Approval, MilestoneRow
    <2>2. [milestone[m] EXCEPT !.status = "APPROVED"] \in MilestoneRow
      BY RowUpdates
    <2> QED BY <1>2, <2>1, <2>2 DEF Approve, balances, ledger, payout
  <1>3. ASSUME NEW a \in Approvals, CreditPending(a) PROVE TypeOK'
    <2>1. [approval[a] EXCEPT !.at = "enqueue"] \in Approval /\ approval[a].net \in Nat
      BY RowUpdates DEF Approval
    <2> QED BY <1>3, <2>1 DEF CreditPending, ledger, payout
  <1>4. ASSUME NEW a \in Approvals, NEW j \in Jobs, EnqueueRelease(a, j) PROVE TypeOK'
    <2>1. [approval[a] EXCEPT !.at = "queued"] \in Approval
      BY RowUpdates
    <2>2. Queue(j, a, "waiting") \in Job
      BY QueueType DEF Waiting
    <2> QED BY <1>4, <2>1, <2>2 DEF EnqueueRelease, balances, ledger, payout
  <1>5. ASSUME NEW a \in Approvals, HoldElapses(a) PROVE TypeOK'
    BY <1>5 DEF HoldElapses, balances, ledger, payout
  <1>6. ASSUME NEW j \in Jobs, NEW k \in Jobs, Requeue(j, k) PROVE TypeOK'
    <2>1. job[j].approval \in Approvals
      BY <1>6 DEF Requeue, CanStart, JobsInv
    <2>2. Queue(k, job[j].approval, "delayed") \in Job
      BY <2>1, QueueType DEF Waiting
    <2>3. [job[j] EXCEPT !.state = "requeued"] \in Job
      BY RowUpdates DEF Running
    <2> QED BY <1>6, <2>2, <2>3 DEF Requeue, balances, ledger, payout
  <1>7. ASSUME NEW j \in Jobs, DelayEnds(j) PROVE TypeOK'
    <2>1. [job[j] EXCEPT !.state = "waiting"] \in Job
      BY RowUpdates DEF Waiting
    <2> QED BY <1>7, <2>1 DEF DelayEnds, balances, ledger, payout
  <1>8. ASSUME NEW j \in Jobs, MoveFunds(j) PROVE TypeOK'
    <2>1. [job[j] EXCEPT !.state = "moved"] \in Job
      BY RowUpdates DEF Running
    <2>2. approval[job[j].approval].net \in Nat
      BY <1>8 DEF MoveFunds, CanStart, JobsInv, Approval
    <2>3. job[j].approval \in Approvals
      BY <1>8 DEF MoveFunds, CanStart, JobsInv
    <2>4. moves' \in [Approvals -> Nat]
      BY <1>8, <2>3 DEF MoveFunds
    <2> QED BY <1>8, <2>1, <2>2, <2>4 DEF MoveFunds, payout
  <1>9. ASSUME NEW j \in Jobs, RecordCredit(j) PROVE TypeOK'
    <2>1. [job[j] EXCEPT !.state = "recorded"] \in Job
      BY RowUpdates DEF Running
    <2>2. job[j].approval \in Approvals
      BY <1>9 DEF RecordCredit, JobsInv
    <2>3. credits' \in [Approvals -> Nat]
      BY <1>9, <2>2 DEF RecordCredit
    <2> QED BY <1>9, <2>1, <2>3 DEF RecordCredit, balances, ledger, payout
  <1>10. ASSUME NEW j \in Jobs, FinishJob(j) PROVE TypeOK'
    <2>1. [job[j] EXCEPT !.state = "done"] \in Job
      BY RowUpdates
    <2> QED BY <1>10, <2>1 DEF FinishJob, balances, ledger, payout
  <1>11. ASSUME NEW j \in Jobs, JobFault(j) PROVE TypeOK'
    <2> DEFINE n == job[j].attempts + 1
               state == IF n < Attempts THEN "waiting" ELSE "failed"
    <2>1. n \in Nat
      BY DEF Job
    <2>2. [job[j] EXCEPT !.attempts = n, !.state = state] \in Job
      <3>1. [job[j] EXCEPT !.attempts = n] \in Job
        BY <2>1, RowUpdates
      <3>2. [[job[j] EXCEPT !.attempts = n] EXCEPT !.state = state] \in Job
        BY <3>1, RowUpdates DEF Waiting
      <3> QED BY <3>2
    <2>3. job' = [job EXCEPT ![j] = [job[j] EXCEPT !.attempts = n, !.state = state]]
      BY <1>11 DEF JobFault
    <2>4. job' \in [Jobs -> Job]
      BY <2>2, <2>3
    <2>5. /\ faults' \in Nat
          /\ UNCHANGED <<milestone, balances, ledger, approval, due, payout>>
      BY <1>11 DEF JobFault
    <2> QED BY <2>4, <2>5 DEF balances, ledger, payout
  <1>12. ASSUME NEW x \in Withdrawals, NEW n \in Requested, NEW currency \in Currencies,
                CheckBalance(x, n, currency) PROVE TypeOK'
    <2>1. [at |-> "debit", asked |-> n, debit |-> ToETB(n, currency)] \in Withdrawal
      BY ToETBType DEF Withdrawal
    <2> QED BY <1>12, <2>1 DEF CheckBalance, balances, ledger, release
  <1>13. ASSUME NEW x \in Withdrawals, DebitWallet(x) \/ Transfer(x) \/ RollbackRefused(x)
                  \/ RollbackUnreached(x)
         PROVE TypeOK'
    <2>1. \A p \in Debited : [withdrawal[x] EXCEPT !.at = p] \in Withdrawal
      BY RowUpdates
    <2>2. withdrawal[x].debit \in Nat /\ withdrawal[x].asked \in Nat
      BY DEF Withdrawal
    <2>3. CASE DebitWallet(x)
      BY <2>1, <2>2, <2>3 DEF DebitWallet, ledger, release, Debited, Outstanding
    <2>4. CASE Transfer(x)
      BY <2>1, <2>2, <2>4
      DEF Transfer, balances, ledger, release, Debited, Outstanding
    <2>5. CASE RollbackRefused(x)
      BY <2>1, <2>2, <2>5 DEF RollbackRefused, ledger, release, Debited, Outstanding
    <2>6. CASE RollbackUnreached(x)
      <3>1. PICK p \in Debited : withdrawal' = [withdrawal EXCEPT ![x].at = p]
        BY <2>6 DEF RollbackUnreached, Debited
      <3> QED BY <2>1, <2>2, <2>6, <3>1 DEF RollbackUnreached, ledger, release
    <2> QED BY <1>13, <2>3, <2>4, <2>5, <2>6
  <1>14. CASE UNCHANGED vars
    BY <1>14 DEF vars, balances, ledger, release, payout
  <1> QED
    BY <1>1, <1>2, <1>3, <1>4, <1>5, <1>6, <1>7, <1>8, <1>9, <1>10, <1>11, <1>12,
       <1>13, <1>14 DEF Next, Release, Run, Withdraw

(***************************************************************************)
(* Jobs and what they may still pay                                        *)
(***************************************************************************)

(* Moving a job to another state leaves the rest of the queue alone.       *)
LEMMA StateAssigned ==
  ASSUME TypeOK, NEW j \in Jobs, NEW v, job' = [job EXCEPT ![j].state = v]
  PROVE  \A i \in Jobs : /\ job'[i].approval = job[i].approval
                         /\ job'[i].state = IF i = j THEN v ELSE job[i].state
  <1> SUFFICES ASSUME NEW i \in Jobs
               PROVE  /\ job'[i].approval = job[i].approval
                      /\ job'[i].state = IF i = j THEN v ELSE job[i].state
    OBVIOUS
  <1>1. job[i] \in Job /\ job[j] \in Job
    BY DEF TypeOK
  <1>2. job'[i] = IF i = j THEN [job[j] EXCEPT !.state = v] ELSE job[i]
    BY DEF TypeOK
  <1> QED BY <1>1, <1>2 DEF Job

(* A re-queued job is copied to a fresh one of the same approval.          *)
LEMMA JobCopied ==
  ASSUME TypeOK, NEW j \in Jobs, NEW k \in Jobs, Requeue(j, k)
  PROVE  /\ job[j].state = "waiting" /\ k # j
         /\ \A i \in Jobs :
              /\ job'[i].approval = IF i = k THEN job[j].approval ELSE job[i].approval
              /\ job'[i].state = IF i = k THEN "delayed"
                                 ELSE IF i = j THEN "requeued" ELSE job[i].state
  <1>1. job[j].state = "waiting" /\ job[k].state = "none" /\ k # j
    BY DEF Requeue, CanStart, Fresh
  <1> SUFFICES ASSUME NEW i \in Jobs
               PROVE  /\ job'[i].approval = IF i = k THEN job[j].approval
                                                    ELSE job[i].approval
                      /\ job'[i].state = IF i = k THEN "delayed"
                                         ELSE IF i = j THEN "requeued" ELSE job[i].state
    BY <1>1
  <1>2. job[i] \in Job /\ job[j] \in Job
    BY DEF TypeOK
  <1>3. job'[i] = IF i = k THEN Queue(k, job[j].approval, "delayed")
                  ELSE IF i = j THEN [job[j] EXCEPT !.state = "requeued"] ELSE job[i]
    BY <1>1 DEF TypeOK, Requeue
  <1> QED BY <1>1, <1>2, <1>3 DEF Job, Queue

(* A queued job pays an approval.                                          *)
LEMMA JobsInvInductive ==
  /\ Init => JobsInv
  /\ TypeOK /\ JobsInv /\ [Next]_vars => JobsInv'
  <1>1. Init => JobsInv
    BY DEF Init, JobsInv
  <1>2. ASSUME TypeOK, JobsInv, [Next]_vars PROVE JobsInv'
    <2> USE <1>2 DEF JobsInv, TypeOK
    <2>1. ASSUME NEW a \in Approvals, NEW j \in Jobs, EnqueueRelease(a, j)
          PROVE JobsInv'
      BY <2>1 DEF EnqueueRelease, Queue
    <2>2. ASSUME NEW j \in Jobs, NEW k \in Jobs, Requeue(j, k) PROVE JobsInv'
      BY <2>2, JobCopied
    <2>3. ASSUME NEW j \in Jobs,
                 DelayEnds(j) \/ MoveFunds(j) \/ RecordCredit(j) \/ FinishJob(j)
          PROVE JobsInv'
      <3>1. job[j].state # "none"
        BY <2>3 DEF DelayEnds, MoveFunds, RecordCredit, FinishJob, CanStart
      <3>2. \E v : job' = [job EXCEPT ![j].state = v]
        BY <2>3 DEF DelayEnds, MoveFunds, RecordCredit, FinishJob
      <3> QED BY <3>1, <3>2, StateAssigned
    <2>4. ASSUME NEW j \in Jobs, JobFault(j) PROVE JobsInv'
      BY <2>4 DEF JobFault, Running
    <2>5. CASE job' = job
      BY <2>5
    <2> QED
      BY <1>2, <2>1, <2>2, <2>3, <2>4, <2>5
      DEF Next, Release, Run, Withdraw, vars, release, CreateMilestone, Approve,
          CreditPending, HoldElapses, CheckBalance, DebitWallet, Transfer,
          RollbackRefused, RollbackUnreached
  <1> QED BY <1>1, <1>2

(* Type correctness: every reachable state is well typed, whatever the     *)
(* amounts, the failures and the interleaving of calls and jobs.           *)
THEOREM TypeCorrect == Spec => []TypeOK
  <1>1. Init => TypeOK /\ JobsInv
    BY InitType, JobsInvInductive
  <1>2. TypeOK /\ JobsInv /\ [Next]_vars => (TypeOK /\ JobsInv)'
    BY NextType, JobsInvInductive
  <1> QED BY <1>1, <1>2, PTL DEF Spec

LEMMA JobsCorrect == Spec => []JobsInv
  <1>1. TypeOK /\ JobsInv /\ [Next]_vars => JobsInv'
    BY JobsInvInductive
  <1> QED BY <1>1, JobsInvInductive, TypeCorrect, PTL DEF Spec

(* Money leaves the pending balance only in MoveFunds, which moves the     *)
(* amount of an approval whose hold has elapsed.                           *)
LEMMA HoldStep ==
  ASSUME TypeOK, JobsInv, [Next]_vars, pending' < pending
  PROVE  \E a \in due : /\ pending - pending' = approval[a].net
                        /\ available' - available = approval[a].net
  <1> USE DEF TypeOK
  <1>1. ASSUME NEW j \in Jobs, MoveFunds(j)
        PROVE  \E a \in due : /\ pending - pending' = approval[a].net
                              /\ available' - available = approval[a].net
    <2>1. approval[job[j].approval].net \in Nat /\ job[j].approval \in due
      BY <1>1 DEF MoveFunds, CanStart, JobsInv, Approval
    <2> QED BY <1>1, <2>1 DEF MoveFunds
  <1>2. ASSUME NEW a \in Approvals, CreditPending(a) PROVE FALSE
    <2>1. approval[a].net \in Nat
      BY DEF Approval
    <2> QED BY <1>2, <2>1 DEF CreditPending
  <1>3. pending' # pending
    OBVIOUS
  <1> QED
    BY <1>1, <1>2, <1>3
    DEF Next, Release, Run, Withdraw, vars, balances, release, CreateMilestone,
        Approve, EnqueueRelease, HoldElapses, Requeue, DelayEnds, RecordCredit,
        FinishJob, JobFault, CheckBalance, DebitWallet, Transfer, RollbackRefused,
        RollbackUnreached

(* The hold: no money becomes available before the three days of its       *)
(* approval are over, whatever runs early, twice or again after a failure. *)
THEOREM HoldKept == Spec => HoldIsKept
  <1>1. TypeOK /\ JobsInv /\ [Next]_vars =>
          [pending' < pending =>
             \E a \in due : /\ pending - pending' = approval[a].net
                            /\ available' - available = approval[a].net]_balances
    BY HoldStep
  <1> QED BY <1>1, TypeCorrect, JobsCorrect, PTL DEF Spec, HoldIsKept

(***************************************************************************)
(* How often an approval is paid                                           *)
(***************************************************************************)

LEMMA CopiesFinite ==
  \A a : /\ IsFiniteSet(Copies(a)) /\ Cardinality(Copies(a)) \in Nat
         /\ IsFiniteSet(Copies(a)') /\ Cardinality(Copies(a)') \in Nat
         /\ IsFiniteSet(Unrecorded(a)) /\ Cardinality(Unrecorded(a)) \in Nat
         /\ IsFiniteSet(Unrecorded(a)') /\ Cardinality(Unrecorded(a)') \in Nat
  <1>1. IsFiniteSet(Jobs)
    BY PayoutAssumption, FS_Interval DEF Jobs
  <1>2. \A T : T \subseteq Jobs => IsFiniteSet(T) /\ Cardinality(T) \in Nat
    BY <1>1, FS_Subset, FS_CardinalityType
  <1> QED BY <1>2 DEF Copies, Unrecorded

(* How many elements a set can have that is derived from a finite set S.   *)
LEMMA Counting ==
  ASSUME NEW S, IsFiniteSet(S), NEW T, NEW x, NEW y
  PROVE  /\ T \subseteq S => Cardinality(T) <= Cardinality(S)
         /\ T \subseteq S \cup {x} => Cardinality(T) <= Cardinality(S) + 1
         /\ x \in S /\ T \subseteq S \ {x} => Cardinality(T) <= Cardinality(S) - 1
         /\ x \in S /\ T \subseteq (S \ {x}) \cup {y} => Cardinality(T) <= Cardinality(S)
  <1>1. Cardinality(S) \in Nat
    BY FS_CardinalityType
  <1>2. ASSUME NEW U, IsFiniteSet(U)
        PROVE  IsFiniteSet(U \cup {y}) /\ Cardinality(U \cup {y}) <= Cardinality(U) + 1
    <2>1. Cardinality(U) \in Nat
      BY <1>2, FS_CardinalityType
    <2>2. /\ IsFiniteSet(U \cup {y})
          /\ Cardinality(U \cup {y}) = IF y \in U THEN Cardinality(U)
                                                  ELSE Cardinality(U) + 1
      BY <1>2, FS_AddElement
    <2> QED BY <2>1, <2>2
  <1>3. IsFiniteSet(S \cup {x}) /\ Cardinality(S \cup {x}) <= Cardinality(S) + 1
    BY <1>1, FS_AddElement
  <1>4. x \in S => IsFiniteSet(S \ {x}) /\ Cardinality(S \ {x}) = Cardinality(S) - 1
    BY FS_RemoveElement
  <1>5. \A U : IsFiniteSet(U) => Cardinality(U) \in Nat
    BY FS_CardinalityType
  <1>6. \A U, V : IsFiniteSet(U) /\ V \subseteq U =>
          IsFiniteSet(V) /\ Cardinality(V) <= Cardinality(U)
    BY FS_Subset
  <1>7. T \subseteq S => Cardinality(T) <= Cardinality(S)
    BY <1>6
  <1>8. ASSUME T \subseteq S \cup {x} PROVE Cardinality(T) <= Cardinality(S) + 1
    <2>1. IsFiniteSet(T) /\ Cardinality(T) <= Cardinality(S \cup {x})
      BY <1>3, <1>6, <1>8
    <2>2. Cardinality(T) \in Nat /\ Cardinality(S \cup {x}) \in Nat
      BY <2>1, <1>3, <1>5
    <2> QED BY <1>1, <1>3, <2>1, <2>2
  <1>9. ASSUME x \in S, T \subseteq S \ {x} PROVE Cardinality(T) <= Cardinality(S) - 1
    BY <1>4, <1>6, <1>9
  <1>10. ASSUME x \in S, T \subseteq (S \ {x}) \cup {y}
         PROVE  Cardinality(T) <= Cardinality(S)
    <2>1. /\ IsFiniteSet((S \ {x}) \cup {y})
          /\ Cardinality((S \ {x}) \cup {y}) <= Cardinality(S \ {x}) + 1
      BY <1>2, <1>4, <1>10
    <2>2. IsFiniteSet(T) /\ Cardinality(T) <= Cardinality((S \ {x}) \cup {y})
      BY <2>1, <1>6, <1>10
    <2>3. Cardinality(T) \in Nat /\ Cardinality((S \ {x}) \cup {y}) \in Nat
      BY <2>1, <2>2, <1>5
    <2>4. Cardinality(S \ {x}) = Cardinality(S) - 1
      BY <1>4, <1>10
    <2> QED BY <1>1, <2>1, <2>2, <2>3, <2>4
  <1> QED BY <1>7, <1>8, <1>9, <1>10

(* What CopiesInv says of one approval, and the numbers it is about.       *)
LEMMA Counts ==
  ASSUME TypeOK, CopiesInv, NEW b \in Approvals
  PROVE  /\ credits[b] \in Nat /\ moves[b] \in Nat /\ faults \in Nat
         /\ moves[b] + Cardinality(Copies(b)) <= 1 + faults
         /\ credits[b] + Cardinality(Unrecorded(b)) <= moves[b]
         /\ approval[b].at # "queued" =>
              moves[b] = 0 /\ \A j \in Jobs : job[j].approval # b
  BY DEF TypeOK, CopiesInv

LEMMA InitCopies == Init => CopiesInv
  <1> SUFFICES ASSUME Init, NEW a \in Approvals
               PROVE  /\ moves[a] + Cardinality(Copies(a)) <= 1 + faults
                      /\ credits[a] + Cardinality(Unrecorded(a)) <= moves[a]
                      /\ moves[a] = 0 /\ \A j \in Jobs : job[j].approval # a
    BY DEF CopiesInv
  <1>1. \A j \in Jobs : job[j].state = "none" /\ job[j].approval = None
    BY DEF Init
  <1>2. Copies(a) = {} /\ Unrecorded(a) = {}
    BY <1>1 DEF Copies, Unrecorded, Waiting
  <1>3. Cardinality(Copies(a)) = 0 /\ Cardinality(Unrecorded(a)) = 0
    BY <1>2, FS_EmptySet
  <1>4. moves[a] = 0 /\ credits[a] = 0 /\ faults = 0
    BY DEF Init
  <1>5. \A j \in Jobs : job[j].approval # a
    BY <1>1, PayoutAssumption
  <1> QED BY <1>3, <1>4, <1>5

(* An approval that gains no copy and no unrecorded move keeps its share of*)
(* CopiesInv in a step that neither moves nor records anything of it.      *)
LEMMA Keeps ==
  ASSUME TypeOK, CopiesInv, NEW b \in Approvals,
         moves'[b] = moves[b], credits'[b] = credits[b],
         faults' \in Nat, faults <= faults',
         Copies(b)' \subseteq Copies(b), Unrecorded(b)' \subseteq Unrecorded(b)
  PROVE  /\ moves'[b] + Cardinality(Copies(b)') <= 1 + faults'
         /\ credits'[b] + Cardinality(Unrecorded(b)') <= moves'[b]
  <1>1. /\ Cardinality(Copies(b)') <= Cardinality(Copies(b))
        /\ Cardinality(Unrecorded(b)') <= Cardinality(Unrecorded(b))
    BY CopiesFinite, Counting
  <1> QED BY <1>1, CopiesFinite, Counts

(* The steps that neither queue a job nor pay: no approval gains a copy.   *)
LEMMA CopiesKept ==
  ASSUME TypeOK, CopiesInv, UNCHANGED <<credits, moves, faults>>,
         \A a \in Approvals : approval[a].at = "queued" => approval'[a].at = "queued",
         \A j \in Jobs : job'[j].approval = job[j].approval,
         \A j \in Jobs : /\ job'[j].state \in Waiting => job[j].state \in Waiting
                         /\ job'[j].state = "moved" => job[j].state = "moved"
  PROVE  CopiesInv'
  <1> SUFFICES ASSUME NEW a \in Approvals
               PROVE  /\ moves'[a] + Cardinality(Copies(a)') <= 1 + faults'
                      /\ credits'[a] + Cardinality(Unrecorded(a)') <= moves'[a]
    BY DEF CopiesInv
  <1>1. Copies(a)' \subseteq Copies(a) /\ Unrecorded(a)' \subseteq Unrecorded(a)
    BY DEF Copies, Unrecorded
  <1> QED BY <1>1, Keeps, Counts

LEMMA NextCopies == TypeOK /\ JobsInv /\ CopiesInv /\ [Next]_vars => CopiesInv'
  <1> SUFFICES ASSUME TypeOK, JobsInv, CopiesInv, [Next]_vars PROVE CopiesInv'
    OBVIOUS
  <1>0. faults \in Nat
    BY DEF TypeOK
  <1> DEFINE Right(b) == /\ moves'[b] + Cardinality(Copies(b)') <= 1 + faults'
                         /\ credits'[b] + Cardinality(Unrecorded(b)') <= moves'[b]
             Unqueued(b) == approval'[b].at # "queued" =>
                              moves'[b] = 0 /\ \A j \in Jobs : job'[j].approval # b
  <1>1. ASSUME NEW a \in Approvals, NEW j \in Jobs, EnqueueRelease(a, j)
        PROVE  CopiesInv'
    <2>1. /\ job[j].state = "none" /\ approval[a].at = "enqueue"
          /\ UNCHANGED <<credits, moves, faults>>
      BY <1>1 DEF EnqueueRelease, Fresh, ledger
    <2>2. \A i \in Jobs : job'[i] = IF i = j THEN Queue(j, a, "waiting") ELSE job[i]
      BY <1>1 DEF EnqueueRelease, TypeOK
    <2>3. \A b \in Approvals : approval'[b].at = IF b = a THEN "queued" ELSE approval[b].at
      BY <1>1 DEF EnqueueRelease, TypeOK, Approval
    <2>4. \A b \in Approvals : Unrecorded(b)' \subseteq Unrecorded(b)
      BY <2>2 DEF Unrecorded, Queue
    <2>5. ASSUME NEW b \in Approvals PROVE Right(b)
      <3>1. CASE b = a
        <4>1. moves[a] = 0 /\ Copies(a) = {}
          BY <2>1 DEF CopiesInv, Copies
        <4>2. Copies(a)' \subseteq {j}
          BY <2>2, <4>1 DEF Copies, Queue
        <4>3. IsFiniteSet({j}) /\ Cardinality({j}) = 1
          BY FS_Singleton
        <4>4. Cardinality(Copies(a)') <= 1
          BY <4>2, <4>3, Counting
        <4>5. Cardinality(Unrecorded(a)') <= Cardinality(Unrecorded(a))
          BY <2>4, CopiesFinite, Counting
        <4> QED BY <2>1, <3>1, <4>1, <4>4, <4>5, CopiesFinite, Counts
      <3>2. CASE b # a
        <4>1. Copies(b)' \subseteq Copies(b)
          BY <2>2, <3>2 DEF Copies, Queue
        <4> QED BY <2>1, <2>4, <4>1, <1>0, Keeps
      <3> QED BY <3>1, <3>2
    <2>6. \A b \in Approvals : Unqueued(b)
      BY <2>1, <2>2, <2>3 DEF CopiesInv, Queue
    <2> QED BY <2>5, <2>6 DEF CopiesInv
  <1>2. ASSUME NEW j \in Jobs, NEW k \in Jobs, Requeue(j, k) PROVE CopiesInv'
    <2>1. UNCHANGED <<credits, moves, faults, approval>>
      BY <1>2 DEF Requeue, ledger
    <2>2. ASSUME NEW b \in Approvals PROVE Right(b)
      <3>1. Unrecorded(b)' \subseteq Unrecorded(b)
        BY <1>2, JobCopied DEF Unrecorded
      <3>2. CASE b = job[j].approval
        <4>1. j \in Copies(b) /\ Copies(b)' \subseteq (Copies(b) \ {j}) \cup {k}
          BY <1>2, <3>2, JobCopied DEF Copies, Waiting
        <4>2. /\ Cardinality(Copies(b)') <= Cardinality(Copies(b))
              /\ Cardinality(Unrecorded(b)') <= Cardinality(Unrecorded(b))
          BY <3>1, <4>1, CopiesFinite, Counting
        <4> QED BY <2>1, <4>2, CopiesFinite, Counts
      <3>3. CASE b # job[j].approval
        <4>1. Copies(b)' \subseteq Copies(b)
          BY <1>2, <3>3, JobCopied DEF Copies, Waiting
        <4> QED BY <2>1, <3>1, <4>1, <1>0, Keeps
      <3> QED BY <3>2, <3>3
    <2>3. \A b \in Approvals : Unqueued(b)
      BY <1>2, <2>1, JobCopied DEF CopiesInv
    <2> QED BY <2>2, <2>3 DEF CopiesInv
  <1>3. ASSUME NEW j \in Jobs, MoveFunds(j) PROVE CopiesInv'
    <2> DEFINE a == job[j].approval
    <2>1. /\ job[j].state = "waiting" /\ a \in Approvals
          /\ UNCHANGED <<credits, faults, approval>>
          /\ job' = [job EXCEPT ![j].state = "moved"]
      BY <1>3 DEF MoveFunds, CanStart, JobsInv
    <2>2. \A b \in Approvals : moves'[b] = IF b = a THEN moves[a] + 1 ELSE moves[b]
      BY <1>3, <2>1 DEF MoveFunds, TypeOK
    <2>3. \A i \in Jobs : /\ job'[i].approval = job[i].approval
                          /\ job'[i].state = IF i = j THEN "moved" ELSE job[i].state
      <3> TAKE i \in Jobs
      <3>1. job[i] \in Job /\ job[j] \in Job
        BY DEF TypeOK
      <3>2. job'[i] = IF i = j THEN [job[j] EXCEPT !.state = "moved"] ELSE job[i]
        BY <2>1 DEF TypeOK
      <3> HIDE DEF a
      <3> QED BY <3>1, <3>2 DEF Job
    <2> HIDE DEF a
    <2>4. ASSUME NEW b \in Approvals PROVE Right(b)
      <3>1. CASE b = a
        <4>1. j \in Copies(b) /\ Copies(b)' \subseteq Copies(b) \ {j}
          BY <2>1, <2>3, <3>1 DEF Copies, Waiting, a
        <4>2. Unrecorded(b)' \subseteq Unrecorded(b) \cup {j}
          BY <2>3 DEF Unrecorded
        <4>3. /\ Cardinality(Copies(b)') <= Cardinality(Copies(b)) - 1
              /\ Cardinality(Unrecorded(b)') <= Cardinality(Unrecorded(b)) + 1
          BY <4>1, <4>2, CopiesFinite, Counting
        <4> QED BY <2>1, <2>2, <3>1, <4>3, CopiesFinite, Counts
      <3>2. CASE b # a
        <4>1. Copies(b)' \subseteq Copies(b) /\ Unrecorded(b)' \subseteq Unrecorded(b)
          BY <2>3, <3>2 DEF Copies, Unrecorded, Waiting, a
        <4> QED BY <2>1, <2>2, <3>2, <4>1, <1>0, Keeps
      <3> QED BY <3>1, <3>2
    <2>5. approval[a].at = "queued"
      BY <2>1 DEF CopiesInv, a
    <2>6. \A b \in Approvals : Unqueued(b)
      BY <2>1, <2>2, <2>3, <2>5 DEF CopiesInv
    <2> QED BY <2>4, <2>6 DEF CopiesInv
  <1>4. ASSUME NEW j \in Jobs, RecordCredit(j) PROVE CopiesInv'
    <2> DEFINE a == job[j].approval
    <2>1. /\ job[j].state = "moved" /\ a \in Approvals
          /\ UNCHANGED <<moves, faults, approval>>
          /\ job' = [job EXCEPT ![j].state = "recorded"]
      BY <1>4 DEF RecordCredit, JobsInv
    <2>2. \A b \in Approvals : credits'[b] = IF b = a THEN credits[a] + 1 ELSE credits[b]
      BY <1>4, <2>1 DEF RecordCredit, TypeOK
    <2>3. \A i \in Jobs : /\ job'[i].approval = job[i].approval
                          /\ job'[i].state = IF i = j THEN "recorded" ELSE job[i].state
      <3> TAKE i \in Jobs
      <3>1. job[i] \in Job /\ job[j] \in Job
        BY DEF TypeOK
      <3>2. job'[i] = IF i = j THEN [job[j] EXCEPT !.state = "recorded"] ELSE job[i]
        BY <2>1 DEF TypeOK
      <3> HIDE DEF a
      <3> QED BY <3>1, <3>2 DEF Job
    <2> HIDE DEF a
    <2>4. ASSUME NEW b \in Approvals PROVE Right(b)
      <3>1. Copies(b)' \subseteq Copies(b)
        BY <2>3 DEF Copies, Waiting
      <3>2. CASE b = a
        <4>1. j \in Unrecorded(b) /\ Unrecorded(b)' \subseteq Unrecorded(b) \ {j}
          BY <2>1, <2>3, <3>2 DEF Unrecorded, a
        <4>2. /\ Cardinality(Copies(b)') <= Cardinality(Copies(b))
              /\ Cardinality(Unrecorded(b)') <= Cardinality(Unrecorded(b)) - 1
          BY <3>1, <4>1, CopiesFinite, Counting
        <4> QED BY <2>1, <2>2, <3>2, <4>2, CopiesFinite, Counts
      <3>3. CASE b # a
        <4>1. Unrecorded(b)' \subseteq Unrecorded(b)
          BY <2>3 DEF Unrecorded
        <4> QED BY <2>1, <2>2, <3>1, <3>3, <4>1, <1>0, Keeps
      <3> QED BY <3>2, <3>3
    <2>5. \A b \in Approvals : Unqueued(b)
      BY <2>1, <2>3 DEF CopiesInv
    <2> QED BY <2>4, <2>5 DEF CopiesInv
  <1>5. ASSUME NEW j \in Jobs, JobFault(j) PROVE CopiesInv'
    <2>1. faults' = faults + 1 /\ UNCHANGED <<credits, moves, approval>>
      BY <1>5 DEF JobFault, ledger
    <2>2. \A i \in Jobs : /\ job'[i].approval = job[i].approval
                          /\ i # j => job'[i] = job[i]
                          /\ job'[j].state # "moved"
      BY <1>5 DEF JobFault, TypeOK, Job
    <2>3. ASSUME NEW b \in Approvals PROVE Right(b)
      <3>1. /\ Copies(b)' \subseteq Copies(b) \cup {j}
            /\ Unrecorded(b)' \subseteq Unrecorded(b)
        BY <2>2 DEF Copies, Unrecorded
      <3>2. /\ Cardinality(Copies(b)') <= Cardinality(Copies(b)) + 1
            /\ Cardinality(Unrecorded(b)') <= Cardinality(Unrecorded(b))
        BY <3>1, CopiesFinite, Counting
      <3> QED BY <2>1, <3>2, CopiesFinite, Counts
    <2>4. \A b \in Approvals : Unqueued(b)
      BY <2>1, <2>2 DEF CopiesInv
    <2> QED BY <2>3, <2>4 DEF CopiesInv
  <1>6. ASSUME NEW j \in Jobs, DelayEnds(j) \/ FinishJob(j)
        PROVE  CopiesInv'
    <2>1. /\ job[j].state \in Waiting \/ FinishJob(j)
          /\ UNCHANGED <<credits, moves, faults, approval>>
      BY <1>6 DEF DelayEnds, FinishJob, Waiting, ledger
    <2>2. PICK v : /\ job' = [job EXCEPT ![j].state = v]
                   /\ v = "done" \/ (v = "waiting" /\ job[j].state \in Waiting)
      BY <1>6, <2>1 DEF DelayEnds, FinishJob
    <2> QED BY <2>1, <2>2, StateAssigned, CopiesKept DEF Waiting
  <1>7. ASSUME NEW a \in Approvals,
               (\E m \in Milestones : Approve(a, m)) \/ CreditPending(a)
        PROVE  CopiesInv'
    <2>1. approval[a].at # "queued" /\ UNCHANGED <<credits, moves, faults, job>>
      BY <1>7 DEF Approve, CreditPending, ledger
    <2>2. \A b \in Approvals \ {a} : approval'[b] = approval[b]
      BY <1>7 DEF Approve, CreditPending, TypeOK
    <2> QED BY <2>1, <2>2, CopiesKept
  <1>8. CASE UNCHANGED <<credits, moves, faults, approval, job>>
    BY <1>8, CopiesKept
  <1> QED
    BY <1>1, <1>2, <1>3, <1>4, <1>5, <1>6, <1>7, <1>8
    DEF Next, Release, Run, Withdraw, vars, ledger, release, CreateMilestone,
        HoldElapses, CheckBalance, DebitWallet, Transfer, RollbackRefused,
        RollbackUnreached

(* However many early runs, copies and concurrent jobs there are, it takes *)
(* a failure between moving the money and completing the job for an amount *)
(* to be moved again, and one failure moves it at most once more.          *)
THEOREM PaidOnce == Spec => []PaidOncePlusFaults
  <1>1. TypeOK /\ CopiesInv => PaidOncePlusFaults
    <2> SUFFICES ASSUME TypeOK, CopiesInv, NEW a \in Approvals
                 PROVE  credits[a] <= moves[a] /\ moves[a] <= 1 + faults
      BY DEF PaidOncePlusFaults
    <2> QED BY CopiesFinite, Counts
  <1>2. TypeOK /\ JobsInv /\ CopiesInv /\ [Next]_vars => CopiesInv'
    BY NextCopies
  <1> QED BY <1>1, <1>2, InitCopies, TypeCorrect, JobsCorrect, PTL DEF Spec

LEMMA CopiesCorrect == Spec => []CopiesInv
  <1>1. TypeOK /\ JobsInv /\ CopiesInv /\ [Next]_vars => CopiesInv'
    BY NextCopies
  <1> QED BY <1>1, InitCopies, TypeCorrect, JobsCorrect, PTL DEF Spec

(***************************************************************************)
(* The money of the freelancer                                             *)
(***************************************************************************)

(***************************************************************************)
(* The money of the freelancer                                             *)
(***************************************************************************)

(* The two equations of WalletConserved.                                   *)
Balanced ==
  /\ pending = SumFunction(CreditedAmounts) - SumFunction(MovedAmounts)
  /\ available = SumFunction(MovedAmounts) - SumFunction(TakenAmounts)

LEMMA AmountTypes ==
  ASSUME TypeOK
  PROVE  /\ \A a \in Approvals : Credited(a) \in Nat /\ Moved(a) \in Nat
         /\ \A x \in Withdrawals : Taken(x) \in Int
         /\ CreditedAmounts \in [Approvals -> Int]
         /\ MovedAmounts \in [Approvals -> Int]
         /\ TakenAmounts \in [Withdrawals -> Int]
  <1>1. \A a \in Approvals : approval[a].net \in Nat /\ moves[a] \in Nat
    BY DEF TypeOK, Approval
  <1>2. \A a \in Approvals : Credited(a) \in Nat /\ Moved(a) \in Nat
    BY <1>1 DEF Credited, Moved
  <1>3. \A x \in Withdrawals : Taken(x) \in Int
    BY DEF TypeOK, Taken, Withdrawal
  <1> QED BY <1>2, <1>3 DEF CreditedAmounts, MovedAmounts, TakenAmounts

LEMMA AmountTypesNext ==
  ASSUME TypeOK'
  PROVE  /\ \A a \in Approvals : Credited(a)' \in Nat /\ Moved(a)' \in Nat
         /\ \A x \in Withdrawals : Taken(x)' \in Int
         /\ CreditedAmounts' \in [Approvals -> Int]
         /\ MovedAmounts' \in [Approvals -> Int]
         /\ TakenAmounts' \in [Withdrawals -> Int]
  <1>1. \A a \in Approvals : approval'[a].net \in Nat /\ moves'[a] \in Nat
    BY DEF TypeOK, Approval
  <1>2. \A a \in Approvals : Credited(a)' \in Nat /\ Moved(a)' \in Nat
    BY <1>1 DEF Credited, Moved
  <1>3. \A x \in Withdrawals : Taken(x)' \in Int
    BY DEF TypeOK, Taken, Withdrawal
  <1> QED BY <1>2, <1>3 DEF CreditedAmounts, MovedAmounts, TakenAmounts

LEMMA SumTypes ==
  ASSUME TypeOK
  PROVE  /\ SumFunction(CreditedAmounts) \in Int
         /\ SumFunction(MovedAmounts) \in Int
         /\ SumFunction(TakenAmounts) \in Int
         /\ pending \in Int /\ available \in Int
  BY AmountTypes, SumType, PayoutAssumption DEF TypeOK

LEMMA InitBalanced == Init => Balanced
  <1> SUFFICES ASSUME Init PROVE Balanced
    OBVIOUS
  <1>1. /\ CreditedAmounts \in [Approvals -> Int]
        /\ \A a \in Approvals : CreditedAmounts[a] = 0
    BY DEF Init, CreditedAmounts, Credited
  <1>2. /\ MovedAmounts \in [Approvals -> Int]
        /\ \A a \in Approvals : MovedAmounts[a] = 0
    BY DEF Init, MovedAmounts, Moved
  <1>3. /\ TakenAmounts \in [Withdrawals -> Int]
        /\ \A x \in Withdrawals : TakenAmounts[x] = 0
    BY DEF Init, TakenAmounts, Taken, Outstanding
  <1>4. /\ SumFunction(CreditedAmounts) = 0 /\ SumFunction(MovedAmounts) = 0
        /\ SumFunction(TakenAmounts) = 0
    BY <1>1, <1>2, <1>3, SumOfZeros, PayoutAssumption
  <1> QED BY <1>4 DEF Init, Balanced

(* A step of one approval changes the balances by what it credits and by   *)
(* what it moves.                                                          *)
LEMMA ApprovalPays ==
  ASSUME TypeOK, TypeOK', Balanced, NEW a \in Approvals,
         \A b \in Approvals \ {a} :
           approval'[b] = approval[b] /\ moves'[b] = moves[b],
         UNCHANGED withdrawal,
         pending' = pending + (Credited(a)' - Credited(a)) - (Moved(a)' - Moved(a)),
         available' = available + (Moved(a)' - Moved(a))
  PROVE  Balanced'
  <1>1. \A b \in Approvals \ {a} : /\ CreditedAmounts'[b] = CreditedAmounts[b]
                                    /\ MovedAmounts'[b] = MovedAmounts[b]
    BY DEF CreditedAmounts, Credited, MovedAmounts, Moved
  <1>2. /\ CreditedAmounts[a] = Credited(a) /\ CreditedAmounts'[a] = Credited(a)'
        /\ MovedAmounts[a] = Moved(a) /\ MovedAmounts'[a] = Moved(a)'
    BY DEF CreditedAmounts, MovedAmounts
  <1>3. TakenAmounts' = TakenAmounts
    BY DEF TakenAmounts, Taken
  <1>4. /\ Credited(a) \in Int /\ Credited(a)' \in Int
        /\ Moved(a) \in Int /\ Moved(a)' \in Int
        /\ CreditedAmounts' \in [Approvals -> Int]
        /\ MovedAmounts' \in [Approvals -> Int]
    BY AmountTypes, AmountTypesNext
  <1>5. /\ SumFunction(CreditedAmounts') =
             SumFunction(CreditedAmounts) + (Credited(a)' - Credited(a))
        /\ SumFunction(MovedAmounts') =
             SumFunction(MovedAmounts) + (Moved(a)' - Moved(a))
    BY <1>1, <1>2, <1>4, AmountTypes, SumChangesByOne, PayoutAssumption
  <1> QED BY <1>3, <1>4, <1>5, SumTypes DEF Balanced

(* A step of one withdrawal takes what it changes in the available balance.*)
LEMMA WithdrawalPays ==
  ASSUME TypeOK, TypeOK', Balanced, NEW x \in Withdrawals,
         \A y \in Withdrawals \ {x} : withdrawal'[y] = withdrawal[y],
         UNCHANGED <<approval, moves, pending>>,
         available' = available - (Taken(x)' - Taken(x))
  PROVE  Balanced'
  <1>1. \A y \in Withdrawals \ {x} : TakenAmounts'[y] = TakenAmounts[y]
    BY DEF TakenAmounts, Taken
  <1>2. TakenAmounts[x] = Taken(x) /\ TakenAmounts'[x] = Taken(x)'
    BY DEF TakenAmounts
  <1>3. CreditedAmounts' = CreditedAmounts /\ MovedAmounts' = MovedAmounts
    BY DEF CreditedAmounts, Credited, MovedAmounts, Moved
  <1>4. /\ Taken(x) \in Int /\ Taken(x)' \in Int
        /\ TakenAmounts' \in [Withdrawals -> Int]
    BY AmountTypes, AmountTypesNext
  <1>5. SumFunction(TakenAmounts') =
          SumFunction(TakenAmounts) + (Taken(x)' - Taken(x))
    BY <1>1, <1>2, <1>4, AmountTypes, SumChangesByOne, PayoutAssumption
  <1> QED BY <1>3, <1>4, <1>5, SumTypes DEF Balanced

LEMMA NextBalanced ==
  TypeOK /\ JobsInv /\ CopiesInv /\ TypeOK' /\ Balanced /\ [Next]_vars => Balanced'
  <1> SUFFICES ASSUME TypeOK, JobsInv, CopiesInv, TypeOK', Balanced, [Next]_vars
               PROVE  Balanced'
    OBVIOUS
  <1>1. \A a \in Approvals : approval[a].net \in Nat /\ moves[a] \in Nat
    BY DEF TypeOK, Approval
  <1>2. \A x \in Withdrawals : withdrawal[x].debit \in Nat
    BY DEF TypeOK, Withdrawal
  <1>3. pending \in Int /\ available \in Int
    BY DEF TypeOK
  <1>4. ASSUME NEW a \in Approvals, NEW m \in Milestones, Approve(a, m)
        PROVE  Balanced'
    <2>1. Credited(a) = 0 /\ Credited(a)' = 0
      BY <1>4 DEF Approve, Credited, TypeOK
    <2>2. moves[a] = 0 /\ moves' = moves
      BY <1>4 DEF Approve, CopiesInv, ledger
    <2>3. Moved(a) = 0 /\ Moved(a)' = 0
      <3>1. approval'[a].net \in Nat
        BY DEF TypeOK, Approval
      <3> QED BY <1>1, <2>2, <3>1 DEF Moved
    <2>4. UNCHANGED <<withdrawal, pending, available>>
      BY <1>4 DEF Approve, payout, balances
    <2>5. \A b \in Approvals \ {a} : approval'[b] = approval[b]
      BY <1>4 DEF Approve, TypeOK
    <2> QED BY <1>3, <2>1, <2>2, <2>3, <2>4, <2>5, ApprovalPays
  <1>5. ASSUME NEW a \in Approvals, CreditPending(a)
        PROVE  Balanced'
    <2>1. Credited(a) = 0 /\ Credited(a)' = approval[a].net
      BY <1>5 DEF CreditPending, Credited, TypeOK, Approval
    <2>2. moves[a] = 0 /\ moves' = moves
      BY <1>5 DEF CreditPending, CopiesInv, ledger
    <2>3. Moved(a) = 0 /\ Moved(a)' = 0
      <3>1. approval'[a].net \in Nat
        BY DEF TypeOK, Approval
      <3> QED BY <1>1, <2>2, <3>1 DEF Moved
    <2>4. /\ UNCHANGED <<withdrawal, available>>
          /\ pending' = pending + approval[a].net
      BY <1>5 DEF CreditPending, payout
    <2>5. \A b \in Approvals \ {a} : approval'[b] = approval[b]
      BY <1>5 DEF CreditPending, TypeOK
    <2>6. /\ pending' = pending + (Credited(a)' - Credited(a)) - (Moved(a)' - Moved(a))
          /\ available' = available + (Moved(a)' - Moved(a))
      BY <1>1, <1>3, <2>1, <2>3, <2>4
    <2> QED BY <2>2, <2>4, <2>5, <2>6, ApprovalPays
  <1>6. ASSUME NEW a \in Approvals, NEW j \in Jobs, EnqueueRelease(a, j)
        PROVE  Balanced'
    <2>1. /\ approval'[a].at = "queued" /\ approval'[a].net = approval[a].net
          /\ approval[a].at = "enqueue"
          /\ \A b \in Approvals \ {a} : approval'[b] = approval[b]
      BY <1>6 DEF EnqueueRelease, TypeOK, Approval
    <2>2. UNCHANGED <<moves, withdrawal, pending, available>>
      BY <1>6 DEF EnqueueRelease, ledger, payout, balances
    <2>3. Credited(a)' = Credited(a) /\ Moved(a)' = Moved(a)
      BY <2>1, <2>2 DEF Credited, Moved
    <2>4. Credited(a) \in Int /\ Moved(a) \in Int
      BY AmountTypes
    <2>5. /\ pending' = pending + (Credited(a)' - Credited(a)) - (Moved(a)' - Moved(a))
          /\ available' = available + (Moved(a)' - Moved(a))
      BY <1>3, <2>2, <2>3, <2>4
    <2> QED BY <2>1, <2>2, <2>5, ApprovalPays
  <1>7. ASSUME NEW j \in Jobs, MoveFunds(j)
        PROVE  Balanced'
    <2>1. PICK a \in Approvals : a = job[j].approval
      BY <1>7 DEF MoveFunds, CanStart, JobsInv
    <2> DEFINE net == approval[a].net
    <2>2. /\ pending' = pending - net /\ available' = available + net
          /\ moves' = [moves EXCEPT ![a] = @ + 1]
          /\ UNCHANGED <<approval, withdrawal>>
      BY <1>7, <2>1 DEF MoveFunds, payout
    <2>3. /\ moves'[a] = moves[a] + 1
          /\ \A b \in Approvals \ {a} : moves'[b] = moves[b]
      BY <2>2 DEF TypeOK
    <2>4. Credited(a)' = Credited(a) /\ Credited(a) \in Int /\ Moved(a) \in Int
      BY <2>2, AmountTypes DEF Credited
    <2>5. Moved(a)' = Moved(a) + net
      <3>1. Moved(a) = moves[a] * net /\ Moved(a)' = (moves[a] + 1) * net
        BY <2>2, <2>3 DEF Moved
      <3>2. \A k, n \in Nat : (k + 1) * n = k * n + n
        OBVIOUS
      <3>3. moves[a] \in Nat /\ net \in Nat
        BY <1>1
      <3> HIDE DEF net
      <3> QED BY <3>1, <3>2, <3>3
    <2> QED BY <1>1, <1>3, <2>1, <2>2, <2>3, <2>4, <2>5, ApprovalPays
  <1>8. ASSUME NEW x \in Withdrawals, NEW n \in Requested, NEW currency \in Currencies,
               CheckBalance(x, n, currency)
        PROVE  Balanced'
    <2>1. Taken(x) = 0 /\ Taken(x)' = 0
      BY <1>8 DEF CheckBalance, Taken, Outstanding, TypeOK
    <2>2. UNCHANGED <<approval, moves, pending, available>>
      BY <1>8 DEF CheckBalance, release, ledger, balances
    <2>3. \A y \in Withdrawals \ {x} : withdrawal'[y] = withdrawal[y]
      BY <1>8 DEF CheckBalance, TypeOK
    <2> QED BY <1>3, <2>1, <2>2, <2>3, WithdrawalPays
  <1>9. ASSUME NEW x \in Withdrawals, DebitWallet(x)
        PROVE  Balanced'
    <2>1. /\ withdrawal[x].at = "debit" /\ withdrawal'[x].at = "transfer"
          /\ withdrawal'[x].debit = withdrawal[x].debit
          /\ \A y \in Withdrawals \ {x} : withdrawal'[y] = withdrawal[y]
      BY <1>9 DEF DebitWallet, TypeOK, Withdrawal
    <2>2. Taken(x) = 0 /\ Taken(x)' = withdrawal[x].debit
      BY <2>1 DEF Taken, Outstanding
    <2>3. /\ UNCHANGED <<approval, moves, pending>>
          /\ available' = available - withdrawal[x].debit
      BY <1>9 DEF DebitWallet, release, ledger
    <2> QED BY <1>2, <1>3, <2>1, <2>2, <2>3, WithdrawalPays
  <1>10. ASSUME NEW x \in Withdrawals, Transfer(x)
         PROVE  Balanced'
    <2>1. /\ withdrawal[x].at = "transfer" /\ withdrawal'[x].at \in Outstanding
          /\ withdrawal'[x].debit = withdrawal[x].debit
          /\ \A y \in Withdrawals \ {x} : withdrawal'[y] = withdrawal[y]
      BY <1>10 DEF Transfer, TypeOK, Withdrawal, Outstanding
    <2>2. Taken(x) = withdrawal[x].debit /\ Taken(x)' = withdrawal[x].debit
      BY <2>1 DEF Taken, Outstanding
    <2>3. UNCHANGED <<approval, moves, pending, available>>
      BY <1>10 DEF Transfer, release, ledger, balances
    <2> QED BY <1>2, <1>3, <2>1, <2>2, <2>3, WithdrawalPays
  <1>11. ASSUME NEW x \in Withdrawals, RollbackRefused(x)
         PROVE  Balanced'
    <2>1. /\ withdrawal[x].at = "refused"
          /\ withdrawal'[x].debit = withdrawal[x].debit
          /\ \A y \in Withdrawals \ {x} : withdrawal'[y] = withdrawal[y]
      BY <1>11 DEF RollbackRefused, TypeOK, Withdrawal
    <2>2. Taken(x) = withdrawal[x].debit
      BY <2>1 DEF Taken, Outstanding
    <2>3. \/ /\ available' = available + withdrawal[x].debit
             /\ withdrawal'[x].at \in {"restored", "unacknowledged"}
          \/ /\ available' = available /\ withdrawal'[x].at = "unreached"
      BY <1>11 DEF RollbackRefused, TypeOK, Withdrawal
    <2>4. UNCHANGED <<approval, moves, pending>>
      BY <1>11 DEF RollbackRefused, release, ledger
    <2>5. available' = available - (Taken(x)' - Taken(x))
      <3>1. CASE withdrawal'[x].at \in {"restored", "unacknowledged"}
        <4>1. Taken(x)' = 0
          BY <3>1 DEF Taken, Outstanding
        <4> QED BY <1>2, <1>3, <2>2, <2>3, <3>1, <4>1
      <3>2. CASE withdrawal'[x].at = "unreached" /\ available' = available
        <4>1. Taken(x)' = withdrawal[x].debit
          BY <2>1, <3>2 DEF Taken, Outstanding
        <4> QED BY <1>2, <1>3, <2>2, <3>2, <4>1
      <3> QED BY <2>3, <3>1, <3>2
    <2> QED BY <2>1, <2>4, <2>5, WithdrawalPays
  <1>12. ASSUME NEW x \in Withdrawals, RollbackUnreached(x)
         PROVE  Balanced'
    <2> DEFINE d == withdrawal[x].debit
    <2>1. /\ withdrawal'[x].debit = d
          /\ \A y \in Withdrawals \ {x} : withdrawal'[y] = withdrawal[y]
          /\ \/ withdrawal[x].at = "unreached" /\ withdrawal'[x].at = "restored"
             \/ withdrawal[x].at = "unacknowledged" /\ withdrawal'[x].at = "twice"
      BY <1>12 DEF RollbackUnreached, TypeOK, Withdrawal
    <2>2. /\ UNCHANGED <<approval, moves, pending>>
          /\ available' = available + d
      BY <1>12 DEF RollbackUnreached, release, ledger
    <2>3. \/ Taken(x) = d /\ Taken(x)' = 0
          \/ Taken(x) = 0 /\ Taken(x)' = 0 - d
      BY <2>1 DEF Taken, Outstanding
    <2>4. available' = available - (Taken(x)' - Taken(x))
      <3>1. d \in Nat
        BY <1>2
      <3> QED BY <1>3, <2>2, <2>3, <3>1
    <2> QED BY <2>1, <2>2, <2>4, WithdrawalPays
  <1>13. CASE UNCHANGED <<balances, approval, moves, withdrawal>>
    BY <1>13 DEF balances, Balanced, CreditedAmounts, MovedAmounts, TakenAmounts,
       Credited, Moved, Taken
  <1> QED
    BY <1>4, <1>5, <1>6, <1>7, <1>8, <1>9, <1>10, <1>11, <1>12, <1>13
    DEF Next, Release, Run, Withdraw, vars, ledger, release, payout, CreateMilestone,
        HoldElapses, Requeue, DelayEnds, RecordCredit, FinishJob, JobFault

(* Without a failure nothing was moved that had not been credited.         *)
LEMMA PendingCovers ==
  ASSUME TypeOK, CopiesInv, Balanced, faults = 0
  PROVE  pending >= 0
  <1>1. \A a \in Approvals : MovedAmounts[a] <= CreditedAmounts[a]
    <2> TAKE a \in Approvals
    <2>1. approval[a].net \in Nat /\ moves[a] \in Nat /\ moves[a] <= 1
      BY Counts, CopiesFinite DEF TypeOK, Approval
    <2>2. CASE moves[a] = 0
      BY <2>1, <2>2, AmountTypes DEF Moved, MovedAmounts, CreditedAmounts
    <2>3. CASE moves[a] = 1
      <3>1. approval[a].at = "queued"
        BY <2>3 DEF CopiesInv
      <3> QED BY <2>1, <2>3, <3>1
              DEF Moved, Credited, MovedAmounts, CreditedAmounts
    <2> QED BY <2>1, <2>2, <2>3
  <1>2. SumFunction(MovedAmounts) <= SumFunction(CreditedAmounts)
    BY <1>1, AmountTypes, SumGrows, PayoutAssumption
  <1> QED BY <1>2, SumTypes DEF Balanced

(* No step of an approval, of a job that is repeated or given up, or of a  *)
(* withdrawal that is rolled back once or twice changes either balance by  *)
(* anything but what it credits, moves, takes or takes back, for any number*)
(* of calls and failures, and without failures nothing is moved unearned.  *)
THEOREM MoneyConserved == Spec => []WalletConserved
  <1>1. TypeOK /\ JobsInv /\ CopiesInv /\ TypeOK' /\ Balanced /\ [Next]_vars
          => Balanced'
    BY NextBalanced
  <1>2. TypeOK /\ CopiesInv /\ Balanced => WalletConserved
    BY PendingCovers DEF WalletConserved, Balanced
  <1> QED
    BY <1>1, <1>2, InitBalanced, TypeCorrect, JobsCorrect, CopiesCorrect, PTL DEF Spec

=============================================================================
