------------------------- MODULE EscrowFundingProofs -------------------------
(* Theorems about EscrowFunding, for any number of gigs, freelancers,      *)
(* calls, callbacks and workers, any amounts and any failures.             *)
EXTENDS EscrowFunding, SumTheorems, FiniteSetTheorems, TLAPS

(***************************************************************************)
(* Type correctness                                                        *)
(***************************************************************************)

(* Assigning one field of a row keeps the row well typed.                  *)
LEMMA RowUpdates ==
  /\ \A x \in GigRow, v \in {"OPEN", "FUNDED", "IN_PROGRESS"} :
       [x EXCEPT !.status = v] \in GigRow
  /\ \A x \in BidRow, v \in {"PENDING", "ACCEPTED", "REJECTED"} :
       [x EXCEPT !.status = v] \in BidRow
  /\ \A x \in EscrowRow, n \in Nat : [x EXCEPT !.grossAmount = n] \in EscrowRow
  /\ \A x \in EscrowRow : [x EXCEPT !.status = "FUNDED"] \in EscrowRow
  /\ \A x \in Call, p \in Places : [x EXCEPT !.at = p] \in Call
  /\ \A x \in Call, n \in Nat : [x EXCEPT !.applied = n] \in Call
  /\ \A x \in Job, v \in {"waiting", "active", "done", "failed"} :
       [x EXCEPT !.state = v] \in Job
  /\ \A x \in Job, n \in Nat : [x EXCEPT !.attempts = n] \in Job
  /\ \A x \in Slot : [x EXCEPT !.at = "notify"] \in Slot
  BY DEF GigRow, BidRow, EscrowRow, Call, Job, Slot

LEMMA InitType == Init => TypeOK
  BY FundingAssumption DEF Init, TypeOK, NoBid, NoContract, NoEscrow, NewCall,
     NoJob, Idle, Places, GigRow, BidRow, ContractRow, EscrowRow, Call, Job, Slot

LEMMA NextType == TypeOK /\ [Next]_vars => TypeOK'
  <1> SUFFICES ASSUME TypeOK, [Next]_vars PROVE TypeOK'
    OBVIOUS
  <1> USE FundingAssumption DEF TypeOK
  <1>1. ASSUME NEW g \in Gigs, NEW b \in Amounts, CreateJob(g, b) PROVE TypeOK'
    <2>1. [status |-> "OPEN", budgetMax |-> b] \in GigRow
      BY DEF GigRow
    <2> QED BY <1>1, <2>1 DEF CreateJob, wallet, gateway, queue
  <1>2. ASSUME NEW g \in Gigs, NEW f \in Freelancers, SubmitBidCheck(g, f)
        PROVE TypeOK'
    BY <1>2 DEF SubmitBidCheck, wallet, gateway, queue
  <1>3. ASSUME NEW g \in Gigs, NEW f \in Freelancers, RejectBid(g, f) PROVE TypeOK'
    <2>0. bid[g][f] \in BidRow
      OBVIOUS
    <2>1. [bid[g][f] EXCEPT !.status = "REJECTED"] \in BidRow
      BY <2>0, RowUpdates
    <2>2. [bid[g] EXCEPT ![f] = [bid[g][f] EXCEPT !.status = "REJECTED"]]
            \in [Freelancers -> BidRow]
      BY <2>1
    <2>3. bid' = [bid EXCEPT ![g] =
                    [bid[g] EXCEPT ![f] = [bid[g][f] EXCEPT !.status = "REJECTED"]]]
      BY <1>3 DEF RejectBid
    <2>4. bid' \in [Gigs -> [Freelancers -> BidRow]]
      BY <2>2, <2>3
    <2> QED BY <1>3, <2>4 DEF RejectBid, wallet, gateway, queue
  <1>4. ASSUME NEW g \in Gigs, NEW f \in Freelancers, NEW a \in Amounts,
               SubmitBidCreate(g, f, a) PROVE TypeOK'
    <2>1. [status |-> "PENDING", amount |-> a] \in BidRow
      BY DEF BidRow
    <2>2. bid' \in [Gigs -> [Freelancers -> BidRow]]
      BY <1>4, <2>1 DEF SubmitBidCreate
    <2> QED BY <1>4, <2>2 DEF SubmitBidCreate, wallet, gateway, queue
  <1>5. ASSUME NEW g \in Gigs, NEW f \in Freelancers, AcceptBid(g, f) PROVE TypeOK'
    <2> DEFINE a == bid[g][f].amount
               excess == Excess(g, a)
    <2>1. a \in Nat
      BY DEF BidRow
    <2>2. excess \in Nat /\ escrow[g].grossAmount - excess \in Nat
      BY <2>1 DEF Excess, EscrowRow
    <2>3. bid' \in [Gigs -> [Freelancers -> BidRow]]
      <3>1. ASSUME NEW h \in Freelancers
            PROVE (IF bid[g][h] = NoBid THEN NoBid
                   ELSE [bid[g][h] EXCEPT !.status =
                           IF h = f THEN "ACCEPTED" ELSE "REJECTED"]) \in BidRow
        <4>1. NoBid \in BidRow
          BY DEF NoBid, BidRow
        <4>2. bid[g][h] \in BidRow
          OBVIOUS
        <4> QED BY <4>1, <4>2, RowUpdates
      <3> QED BY <1>5, <3>1 DEF AcceptBid
    <2>4. contract' \in [Gigs -> ContractRow]
      BY <1>5, <2>1 DEF AcceptBid, ContractRow
    <2>5. gig' \in [Gigs -> GigRow]
      BY <1>5, RowUpdates DEF AcceptBid
    <2>6. escrow' \in [Gigs -> EscrowRow]
      BY <1>5, <2>2, RowUpdates DEF AcceptBid
    <2>7. balance' \in Int /\ credit' \in [Gigs -> Nat]
      BY <1>5, <2>2 DEF AcceptBid
    <2> HIDE DEF a, excess
    <2> QED
      BY <1>5, <2>3, <2>4, <2>5, <2>6, <2>7 DEF AcceptBid, gateway, queue
  <1>6. ASSUME NEW r \in Requests, NEW g \in Gigs, ReadGig(r, g) PROVE TypeOK'
    <2>1. [at |-> "wallet", gig |-> g, applied |-> 0,
           gross |-> IF Contracted(g) THEN contract[g].agreedAmount
                                      ELSE gig[g].budgetMax] \in Call
      BY DEF Call, Places, ContractRow, GigRow
    <2> QED BY <1>6, <2>1 DEF ReadGig, market, wallet, gateway, queue
  <1>7. ASSUME NEW r \in Requests, ReadWallet(r) PROVE TypeOK'
    <2>1. req' \in [Requests -> Call]
      BY <1>7 DEF ReadWallet, Call, Places
    <2> QED BY <1>7, <2>1 DEF ReadWallet, market, wallet, gateway, queue
  <1>8. ASSUME NEW r \in Requests, UpsertEscrow(r) PROVE TypeOK'
    <2>1. [status |-> IF req[r].applied = req[r].gross THEN "FUNDED" ELSE "PENDING",
           grossAmount |-> req[r].gross, walletApplied |-> req[r].applied,
           gatewayRef |-> r] \in EscrowRow
      BY DEF EscrowRow, Call
    <2>2. req' \in [Requests -> Call]
      BY <1>8, RowUpdates DEF UpsertEscrow, Goto, Places
    <2> QED BY <1>8, <2>1, <2>2 DEF UpsertEscrow, market, wallet, gateway, queue
  <1>9. ASSUME NEW r \in Requests, NEW place \in Places, Goto(r, place)
        PROVE req' \in [Requests -> Call]
    BY <1>9, RowUpdates DEF Goto
  <1>10. ASSUME NEW r \in Requests,
                ApplyWallet(r) \/ WriteLedger(r) \/ SpendLocked(r) PROVE TypeOK'
    <2>1. req' \in [Requests -> Call]
      BY <1>9, <1>10 DEF ApplyWallet, WriteLedger, SpendLocked, Places
    <2>2. req[r].applied \in Nat
      BY DEF Call
    <2> QED BY <1>10, <2>1, <2>2 DEF ApplyWallet, WriteLedger, SpendLocked, market,
               wallet, gateway, queue
  <1>11. ASSUME NEW r \in Requests,
                QueueUnlock(r) \/ OpenCheckout(r) \/ UnlockFunds(r) \/ Pay(r)
         PROVE TypeOK'
    <2>1. req' \in [Requests -> Call]
      BY <1>9, <1>11 DEF QueueUnlock, OpenCheckout, UnlockFunds, Pay, Places
    <2> QED BY <1>11, <2>1 DEF QueueUnlock, OpenCheckout, UnlockFunds, Pay, market,
               wallet, gateway, queue
  <1>12. ASSUME NEW c \in Callbacks, NEW r \in Requests, NEW s \in BOOLEAN,
                Deliver(c, r, s) PROVE TypeOK'
    <2>1. [state |-> "waiting", ref |-> r, success |-> s, attempts |-> 0] \in Job
      BY DEF Job
    <2> QED BY <1>12, <2>1 DEF Deliver, market, wallet, gateway
  <1>13. ASSUME NEW w \in Workers, NEW c \in Callbacks, SkipCallback(w, c)
         PROVE TypeOK'
    BY <1>13, RowUpdates DEF SkipCallback, market, wallet, gateway
  <1>14. ASSUME NEW w \in Workers, NEW c \in Callbacks, NEW g \in Gigs,
                ReadEscrow(w, c, g) PROVE TypeOK'
    <2>1. [at |-> "commit", job |-> c, gig |-> g, ref |-> job[c].ref,
           applied |-> escrow[g].walletApplied] \in Slot
      BY DEF Slot, Job, EscrowRow
    <2> QED BY <1>14, <2>1, RowUpdates DEF ReadEscrow, market, wallet, gateway
  <1>15. ASSUME NEW w \in Workers, CommitFunded(w) PROVE TypeOK'
    <2>1. slot[w].applied \in Nat
      BY DEF Slot
    <2>2. escrow' \in [Gigs -> EscrowRow] /\ gig' \in [Gigs -> GigRow]
      BY <1>15, RowUpdates DEF CommitFunded
    <2>3. slot' \in [Workers -> Slot]
      BY <1>15, RowUpdates DEF CommitFunded
    <2>4. debits' \in [Requests -> Nat]
      <3>1. CASE slot[w].applied > 0
        <4>1. debits' = [debits EXCEPT ![slot[w].ref] = @ + 1]
          BY <1>15, <3>1 DEF CommitFunded
        <4>2. ASSUME NEW r \in Requests PROVE debits'[r] \in Nat
          BY <4>1
        <4> QED BY <4>1, <4>2
      <3>2. CASE ~(slot[w].applied > 0)
        BY <1>15, <3>2 DEF CommitFunded
      <3> QED BY <3>1, <3>2
    <2>5. locked' \in Int
      BY <1>15, <2>1 DEF CommitFunded
    <2> QED BY <1>15, <2>2, <2>3, <2>4, <2>5 DEF CommitFunded, gateway
  <1>16. Idle \in Slot
    BY DEF Idle, Slot
  <1>17. ASSUME NEW w \in Workers, NotifyClient(w) PROVE TypeOK'
    BY <1>16, <1>17, RowUpdates DEF NotifyClient, market, wallet, gateway
  <1>18. ASSUME NEW w \in Workers, WorkerFault(w) PROVE TypeOK'
    <2> DEFINE c == slot[w].job
               n == job[c].attempts + 1
               v == IF n < Attempts THEN "waiting" ELSE "failed"
    <2>1. job' = [job EXCEPT ![c] = [[job[c] EXCEPT !.attempts = n] EXCEPT !.state = v]]
      BY <1>18 DEF WorkerFault
    <2>2. ASSUME c \in Callbacks
          PROVE [[job[c] EXCEPT !.attempts = n] EXCEPT !.state = v] \in Job
      <3>1. n \in Nat
        BY <2>2 DEF Job
      <3>2. [job[c] EXCEPT !.attempts = n] \in Job
        BY <2>2, <3>1, RowUpdates
      <3>3. v \in {"waiting", "active", "done", "failed"}
        OBVIOUS
      <3> HIDE DEF c, n, v
      <3> QED BY <3>2, <3>3, RowUpdates
    <2>3. job' \in [Callbacks -> Job]
      <3> HIDE DEF c, n, v
      <3> QED BY <2>1, <2>2
    <2> QED BY <1>16, <1>18, <2>3 DEF WorkerFault, market, wallet, gateway
  <1>19. CASE UNCHANGED vars
    BY <1>19 DEF vars, market, wallet, gateway, queue
  <1> QED
    BY <1>1, <1>2, <1>3, <1>4, <1>5, <1>6, <1>7, <1>8, <1>10, <1>11, <1>12,
       <1>13, <1>14, <1>15, <1>17, <1>18, <1>19
       DEF Next, Freelance, Initiate, Gateway, Work, TakeJob

(* Every reachable state of the marketplace's tables, of the wallet, of the *)
(* calls of initiate and of the escrow queue has the declared types.        *)
THEOREM TypeCorrect == Spec => []TypeOK
  BY InitType, NextType, PTL DEF Spec

(***************************************************************************)
(* Bids and contracts                                                      *)
(***************************************************************************)
LEMMA BidsInvInductive ==
  /\ Init => BidsInv
  /\ TypeOK /\ BidsInv /\ [Next]_vars => BidsInv'
  <1> USE FundingAssumption
  <1>1. Init => BidsInv
    BY DEF Init, BidsInv, AcceptedBidIsContracted, NoBid
  <1>2. ASSUME TypeOK, BidsInv, [Next]_vars PROVE BidsInv'
    <2> USE DEF BidsInv, AcceptedBidIsContracted
    <2>0. /\ bid \in [Gigs -> [Freelancers -> BidRow]]
          /\ contract \in [Gigs -> ContractRow]
      BY <1>2 DEF TypeOK
    <2>1. ASSUME UNCHANGED <<bid, contract>> PROVE BidsInv'
      BY <1>2, <2>1
    <2>2. ASSUME NEW g \in Gigs, NEW f \in Freelancers, NEW a \in Amounts,
                 SubmitBidCreate(g, f, a) PROVE BidsInv'
      <3>1. CASE bid[g][f] = NoBid
        <4>1. bid' = [bid EXCEPT ![g][f] = [status |-> "PENDING", amount |-> a]]
          BY <2>2, <3>1 DEF SubmitBidCreate
        <4>2. contract' = contract
          BY <2>2 DEF SubmitBidCreate
        <4> QED BY <1>2, <2>0, <4>1, <4>2 DEF BidRow
      <3>2. CASE bid[g][f] # NoBid
        BY <2>1, <2>2, <3>2 DEF SubmitBidCreate
      <3> QED BY <3>1, <3>2
    <2>3. ASSUME NEW g \in Gigs, NEW f \in Freelancers, RejectBid(g, f)
          PROVE BidsInv'
      <3>1. bid[g][f].status # "NONE"
        BY <1>2, <2>0, <2>3 DEF RejectBid, NoBid, BidRow
      <3> QED BY <1>2, <2>0, <2>3, <3>1 DEF RejectBid
    <2>4. ASSUME NEW g \in Gigs, NEW f \in Freelancers, AcceptBid(g, f)
          PROVE BidsInv'
      <3>1. contract' = [contract EXCEPT
              ![g] = [freelancer |-> f, agreedAmount |-> bid[g][f].amount]]
        BY <2>4 DEF AcceptBid
      <3>2. ASSUME NEW h \in Freelancers
            PROVE /\ bid'[g][h].amount = bid[g][h].amount
                  /\ bid'[g][h].status = "NONE" <=> bid[g][h].status = "NONE"
                  /\ bid'[g][h].status = "ACCEPTED" => h = f
        <4>1. bid[g][h] \in BidRow
          BY <2>0
        <4>2. bid'[g][h] = IF bid[g][h] = NoBid THEN NoBid
                           ELSE [bid[g][h] EXCEPT !.status =
                                   IF h = f THEN "ACCEPTED" ELSE "REJECTED"]
          BY <2>0, <2>4 DEF AcceptBid
        <4>3. bid[g][h] # NoBid => bid[g][h].status # "NONE"
          BY <1>2, <4>1 DEF NoBid, BidRow
        <4> QED BY <4>1, <4>2, <4>3 DEF NoBid, BidRow
      <3>3. ASSUME NEW k \in Gigs, k # g
            PROVE bid'[k] = bid[k] /\ contract'[k] = contract[k]
        BY <2>0, <2>4, <3>3 DEF AcceptBid
      <3>4. contract'[g] = [freelancer |-> f, agreedAmount |-> bid[g][f].amount]
        BY <2>0, <3>1
      <3>5. ASSUME NEW k \in Gigs, NEW h \in Freelancers
            PROVE /\ bid'[k][h].status = "NONE" <=> bid'[k][h].amount = 0
                  /\ bid'[k][h].status = "ACCEPTED" =>
                       contract'[k] = [freelancer |-> h,
                                       agreedAmount |-> bid'[k][h].amount]
        BY <1>2, <3>2, <3>3, <3>4
      <3> QED BY <3>5
    <2> QED
      BY <1>2, <2>1, <2>2, <2>3, <2>4
         DEF Next, Freelance, Initiate, Gateway, Work, TakeJob, CreateJob,
             SubmitBidCheck, ReadGig, ReadWallet, ApplyWallet, UpsertEscrow,
             QueueUnlock, WriteLedger, SpendLocked, OpenCheckout, UnlockFunds,
             Pay, Deliver, SkipCallback, ReadEscrow, CommitFunded, NotifyClient,
             WorkerFault, vars, market
  <1> QED BY <1>1, <1>2

(* In every reachable state at most one bid of a gig is accepted, and it is *)
(* the one the contract was made from.                                      *)
THEOREM AcceptedBidContracted == Spec => []AcceptedBidIsContracted
  <1>1. BidsInv => AcceptedBidIsContracted
    BY DEF BidsInv
  <1> QED BY <1>1, BidsInvInductive, TypeCorrect, PTL DEF Spec

(* A contract is made once and never changes: acceptBid refuses a second    *)
(* one, and no other step writes contracts.                                 *)
LEMMA ContractStep ==
  TypeOK /\ [Next]_vars =>
    [\A g \in Gigs : Contracted(g) => contract'[g] = contract[g]]_contract
  <1> SUFFICES ASSUME TypeOK, [Next]_vars
               PROVE \/ \A g \in Gigs : Contracted(g) => contract'[g] = contract[g]
                     \/ contract' = contract
    OBVIOUS
  <1>1. ASSUME NEW g \in Gigs, NEW f \in Freelancers, AcceptBid(g, f)
        PROVE \A k \in Gigs : Contracted(k) => contract'[k] = contract[k]
    BY <1>1 DEF AcceptBid, TypeOK
  <1> QED
    BY <1>1 DEF Next, Freelance, Initiate, Gateway, Work, TakeJob, CreateJob,
       SubmitBidCheck, SubmitBidCreate, RejectBid, ReadGig, ReadWallet,
       ApplyWallet, UpsertEscrow, QueueUnlock, WriteLedger, SpendLocked,
       OpenCheckout, UnlockFunds, Pay, Deliver, SkipCallback, ReadEscrow,
       CommitFunded, NotifyClient, WorkerFault, vars, market

THEOREM ContractsAreFinal == Spec => ContractIsFinal
  BY ContractStep, TypeCorrect, PTL DEF Spec, ContractIsFinal

(***************************************************************************)
(* The marketplace implements the auction of GigAward                      *)
(***************************************************************************)
LEMMA AuctionStep == TypeOK /\ BidsInv /\ [Next]_vars => [Auction!Next]_(Auction!vars)
  <1> SUFFICES ASSUME TypeOK, BidsInv, [Next]_vars
               PROVE  Auction!Next \/ UNCHANGED Auction!vars
    OBVIOUS
  <1> USE FundingAssumption
  <1> DEFINE offers == [g \in Gigs |-> [f \in Freelancers |-> bid[g][f].amount]]
  <1>0. /\ bid \in [Gigs -> [Freelancers -> BidRow]]
        /\ contract \in [Gigs -> ContractRow]
    BY DEF TypeOK
  <1>1. ASSUME UNCHANGED <<bid, contract>> PROVE UNCHANGED Auction!vars
    BY <1>1 DEF Auction!vars
  <1>2. ASSUME NEW g \in Gigs, NEW f \in Freelancers, NEW a \in Amounts,
               SubmitBidCreate(g, f, a), bid[g][f] = NoBid
        PROVE  Auction!Offer(g, f)
    <2>1. bid' = [bid EXCEPT ![g][f] = [status |-> "PENDING", amount |-> a]]
      BY <1>2 DEF SubmitBidCreate
    <2>2. contract' = contract
      BY <1>2 DEF SubmitBidCreate
    <2>3. offers[g][f] = 0
      BY <1>2 DEF NoBid
    <2>4. offers'[g][f] = a /\ a \in Nat \ {0}
      BY <1>0, <2>1
    <2>5. offers' = [offers EXCEPT ![g][f] = a]
      BY <1>0, <2>1
    <2> QED BY <2>2, <2>3, <2>4, <2>5 DEF Auction!Offer
  <1>3. ASSUME NEW g \in Gigs, NEW f \in Freelancers, RejectBid(g, f)
        PROVE  UNCHANGED Auction!vars
    <2>1. offers' = offers
      BY <1>0, <1>3 DEF RejectBid
    <2>2. contract' = contract
      BY <1>3 DEF RejectBid
    <2> QED BY <2>1, <2>2 DEF Auction!vars
  <1>4. ASSUME NEW g \in Gigs, NEW f \in Freelancers, AcceptBid(g, f)
        PROVE  Auction!Award(g, f)
    <2>1. ASSUME NEW h \in Freelancers PROVE bid'[g][h].amount = bid[g][h].amount
      <3>1. bid'[g][h] = IF bid[g][h] = NoBid THEN NoBid
                         ELSE [bid[g][h] EXCEPT !.status =
                                 IF h = f THEN "ACCEPTED" ELSE "REJECTED"]
        BY <1>0, <1>4 DEF AcceptBid
      <3>2. bid[g][h] \in BidRow
        BY <1>0
      <3> QED BY <3>1, <3>2 DEF BidRow
    <2>2. ASSUME NEW k \in Gigs, k # g PROVE bid'[k] = bid[k]
      BY <1>0, <1>4, <2>2 DEF AcceptBid
    <2>3. offers' = offers
      BY <2>1, <2>2
    <2>4. offers[g][f] # 0
      <3>1. bid[g][f] \in BidRow /\ bid[g][f] # NoBid
        BY <1>0, <1>4 DEF AcceptBid
      <3> QED BY <3>1 DEF BidsInv, BidRow, NoBid
    <2>5. contract[g].freelancer = None
      BY <1>4 DEF AcceptBid, Contracted
    <2>6. contract' = [contract EXCEPT ![g] = [freelancer |-> f,
                                               agreedAmount |-> offers[g][f]]]
      BY <1>4 DEF AcceptBid
    <2> QED BY <2>3, <2>4, <2>5, <2>6 DEF Auction!Award
  <1>5. ASSUME NEW g \in Gigs, NEW f \in Freelancers, NEW a \in Amounts,
               SubmitBidCreate(g, f, a)
        PROVE  Auction!Offer(g, f) \/ UNCHANGED Auction!vars
    BY <1>1, <1>2, <1>5 DEF SubmitBidCreate
  <1> QED
    BY <1>1, <1>3, <1>4, <1>5
       DEF Auction!Next, Next, Freelance, Initiate, Gateway, Work, TakeJob,
           CreateJob, SubmitBidCheck, ReadGig, ReadWallet, ApplyWallet,
           UpsertEscrow, QueueUnlock, WriteLedger, SpendLocked, OpenCheckout,
           UnlockFunds, Pay, Deliver, SkipCallback, ReadEscrow, CommitFunded,
           NotifyClient, WorkerFault, vars, market

(* Whatever bids, charges and callbacks interleave, the marketplace's tables *)
(* behave like an auction in which each freelancer offers once and the gig   *)
(* is awarded once, for the amount offered.                                  *)
THEOREM ImplementsAuction == Spec => AuctionSpec
  <1>1. Init => Auction!Init
    BY DEF Init, Auction!Init, NoBid, NoContract
  <1> QED
    BY <1>1, AuctionStep, BidsInvInductive, TypeCorrect, PTL
       DEF Spec, AuctionSpec, Auction!Spec

(***************************************************************************)
(* Charges: who paid for a funded escrow, and how often a lock is debited  *)
(***************************************************************************)
LEMMA InitCharges == Init => ChargesInv
  BY FundingAssumption, FS_EmptySet
     DEF Init, ChargesInv, CallsInv, RowsInv, CallbacksInv, DebitsInv,
         FundedOnlyIfPaid, NewCall, NoEscrow, NoJob, Idle

(* Steps of the marketplace: no call, debit or job moves, and the escrow   *)
(* rows keep their status and reference.                                   *)
LEMMA ChargesKept ==
  ASSUME ChargesInv, UNCHANGED <<req, paid, debits, job, slot>>,
         \A g \in Gigs : /\ escrow'[g].status = escrow[g].status
                         /\ escrow'[g].gatewayRef = escrow[g].gatewayRef
  PROVE  ChargesInv'
  BY DEF ChargesInv, CallsInv, RowsInv, CallbacksInv, DebitsInv, Handlers,
         FundedOnlyIfPaid

(* Steps of a call of initiate that only move the call on.                 *)
LEMMA CallMoves ==
  ASSUME TypeOK, ChargesInv, NEW r \in Requests,
         ReadWallet(r) \/ ApplyWallet(r) \/ QueueUnlock(r) \/ OpenCheckout(r)
           \/ \E g \in Gigs : ReadGig(r, g)
  PROVE  ChargesInv'
  <1> USE FundingAssumption
  <1>1. UNCHANGED <<escrow, paid, debits, job, slot>>
    BY DEF ReadWallet, ApplyWallet, QueueUnlock, OpenCheckout, ReadGig, market,
           wallet, gateway, queue
  <1>2. req \in [Requests -> Call] /\ paid \subseteq Requests
    BY DEF TypeOK
  <1>3. \A q \in Requests : q # r => req'[q] = req[q]
    BY <1>2 DEF ReadWallet, ApplyWallet, QueueUnlock, OpenCheckout, ReadGig, Goto
  <1> DEFINE Moves(x, y) ==
        /\ req[r].at = x /\ req'[r].at = y /\ req[r].gig \in Gigs
        /\ req'[r].gig = req[r].gig /\ req'[r].gross = req[r].gross
  <1>4. \/ ReadWallet(r) /\ (Moves("wallet", "apply") \/ Moves("wallet", "upsert"))
        \/ ApplyWallet(r) /\ Moves("apply", "upsert")
             /\ req'[r].applied = req[r].applied
        \/ QueueUnlock(r) /\ Moves("queue", "checkout")
             /\ req'[r].applied = req[r].applied
        \/ OpenCheckout(r)
             /\ (Moves("checkout", "open") \/ Moves("checkout", "closed"))
             /\ req'[r].applied = req[r].applied
        \/ /\ \E g \in Gigs : ReadGig(r, g)
           /\ req[r].at = "start" /\ req'[r].at = "wallet" /\ req'[r].gig \in Gigs
    <2>0. req[r].at # "start" => req[r].gig \in Gigs
      BY DEF ChargesInv, CallsInv
    <2>1. CASE ReadWallet(r)
      <3>1. req[r].at = "wallet"
        BY <2>1 DEF ReadWallet
      <3>2. /\ req'[r].at \in {"apply", "upsert"}
            /\ req'[r].gig = req[r].gig /\ req'[r].gross = req[r].gross
        BY <1>2, <2>1 DEF ReadWallet
      <3> QED BY <2>0, <2>1, <3>1, <3>2
    <2>2. CASE ApplyWallet(r)
      <3>1. req[r].at = "apply" /\ req' = [req EXCEPT ![r].at = "upsert"]
        BY <2>2 DEF ApplyWallet, Goto
      <3>2. Moves("apply", "upsert") /\ req'[r].applied = req[r].applied
        BY <1>2, <2>0, <3>1
      <3> QED BY <2>2, <3>2
    <2>3. CASE QueueUnlock(r)
      <3>1. req[r].at = "queue" /\ req' = [req EXCEPT ![r].at = "checkout"]
        BY <2>3 DEF QueueUnlock, Goto
      <3>2. Moves("queue", "checkout") /\ req'[r].applied = req[r].applied
        BY <1>2, <2>0, <3>1
      <3> QED BY <2>3, <3>2
    <2>4. CASE OpenCheckout(r)
      <3>1. /\ req[r].at = "checkout"
            /\ \E place \in {"open", "closed"} : req' = [req EXCEPT ![r].at = place]
        BY <2>4 DEF OpenCheckout, Goto
      <3>2. /\ Moves("checkout", "open") \/ Moves("checkout", "closed")
            /\ req'[r].applied = req[r].applied
        BY <1>2, <2>0, <3>1
      <3> QED BY <2>4, <3>2
    <2>5. CASE \E g \in Gigs : ReadGig(r, g)
      <3>1. req[r].at = "start" /\ req'[r].at = "wallet" /\ req'[r].gig \in Gigs
        BY <1>2, <2>5 DEF ReadGig
      <3> QED BY <2>5, <3>1
    <2> QED BY <2>1, <2>2, <2>3, <2>4, <2>5
  <1>5. /\ req[r].at \notin WalletFunded /\ req'[r].at \notin WalletFunded
        /\ req[r].at # "open"
        /\ req[r].at \in Unwritten <=> req'[r].at \in Unwritten
        /\ req'[r].gig \in Gigs /\ (req[r].at # "start" => req'[r].gig = req[r].gig)
        /\ req[r].at \notin Unwritten =>
             req'[r].gross = req[r].gross /\ req'[r].applied = req[r].applied
    BY <1>4 DEF WalletFunded, Unwritten, Unapplied
  <1> HIDE DEF Moves
  <1>6. r \notin paid
    BY <1>5 DEF ChargesInv, CallsInv
  <1>8. req[r].at = "start" => req[r].at \in Unwritten
    BY DEF Unwritten, Unapplied
  <1>9. req'[r].at # "ledger"
    BY <1>5 DEF WalletFunded
  <1>10. CallsInv'
    BY <1>1, <1>3, <1>5, <1>6, <1>9 DEF ChargesInv, CallsInv
  <1>11. RowsInv'
    BY <1>1, <1>3, <1>5, <1>8 DEF ChargesInv, RowsInv
  <1>12. CallbacksInv'
    BY <1>1, <1>2, <1>3, <1>6 DEF ChargesInv, CallbacksInv
  <1>13. DebitsInv'
    BY <1>1 DEF ChargesInv, DebitsInv, Handlers
  <1>14. FundedOnlyIfPaid'
    BY <1>1, <1>3, <1>5, <1>8 DEF ChargesInv, FundedOnlyIfPaid
  <1> QED BY <1>10, <1>11, <1>12, <1>13, <1>14 DEF ChargesInv

(* The escrow row is written: it carries the reference of a call that has  *)
(* not been debited.                                                       *)
LEMMA RowWritten ==
  ASSUME TypeOK, ChargesInv, NEW r \in Requests, UpsertEscrow(r) PROVE ChargesInv'
  <1> USE FundingAssumption
  <1> DEFINE full == req[r].applied = req[r].gross
  <1>1. UNCHANGED <<paid, debits, job, slot>>
    BY DEF UpsertEscrow, market, wallet, gateway, queue
  <1>2. /\ req \in [Requests -> Call] /\ paid \subseteq Requests
        /\ escrow \in [Gigs -> EscrowRow]
    BY DEF TypeOK
  <1>3. \A q \in Requests : q # r => req'[q] = req[q]
    BY <1>2 DEF UpsertEscrow, Goto
  <1>4. /\ req[r].at = "upsert" /\ req[r].at \in Unwritten
        /\ req[r].gig \in Gigs /\ debits[r] = 0 /\ r \notin paid
    BY DEF UpsertEscrow, ChargesInv, CallsInv, Unwritten
  <1>5. /\ req'[r].gig = req[r].gig /\ req'[r].gross = req[r].gross
        /\ req'[r].applied = req[r].applied
        /\ req'[r].at \notin Unwritten /\ req'[r].at # "start"
        /\ req'[r].at \in WalletFunded <=> full
    BY <1>2 DEF UpsertEscrow, Goto, Unwritten, Unapplied, WalletFunded
  <1>6. /\ escrow'[req[r].gig].status = IF full THEN "FUNDED" ELSE "PENDING"
        /\ escrow'[req[r].gig].gatewayRef = r
        /\ \A g \in Gigs : g # req[r].gig => escrow'[g] = escrow[g]
    BY <1>2, <1>4 DEF UpsertEscrow
  <1>7. \A g \in Gigs : escrow[g].gatewayRef # r
    BY <1>4 DEF ChargesInv, RowsInv
  <1> HIDE DEF full
  <1>8. CallsInv'
    BY <1>1, <1>3, <1>4, <1>5 DEF ChargesInv, CallsInv, full
  <1>9. RowsInv'
    BY <1>1, <1>3, <1>4, <1>5, <1>6, <1>7 DEF ChargesInv, RowsInv
  <1>10. CallbacksInv'
    BY <1>1, <1>2, <1>3, <1>4 DEF ChargesInv, CallbacksInv
  <1>11. DebitsInv'
    BY <1>1 DEF ChargesInv, DebitsInv, Handlers
  <1>12. FundedOnlyIfPaid'
    BY <1>1, <1>3, <1>4, <1>5, <1>6 DEF ChargesInv, FundedOnlyIfPaid, full
  <1> QED BY <1>8, <1>9, <1>10, <1>11, <1>12 DEF ChargesInv

(* A charge the wallet covers is debited by its own call; no callback can  *)
(* carry its reference, for it never opened a checkout.                    *)
LEMMA WalletSpent ==
  ASSUME TypeOK, ChargesInv, NEW r \in Requests, WriteLedger(r) \/ SpendLocked(r)
  PROVE  ChargesInv'
  <1> USE FundingAssumption
  <1>1. UNCHANGED <<escrow, paid, job, slot>>
    BY DEF WriteLedger, SpendLocked, market, gateway, queue
  <1>2. /\ req \in [Requests -> Call] /\ debits \in [Requests -> Nat]
        /\ paid \subseteq Requests
    BY DEF TypeOK
  <1>3. \A q \in Requests : q # r => req'[q] = req[q] /\ debits'[q] = debits[q]
    BY <1>2 DEF WriteLedger, SpendLocked, Goto
  <1>4. /\ \/ req[r].at = "ledger" /\ req'[r].at = "spend"
           \/ req[r].at = "spend" /\ req'[r].at = "spent"
        /\ req'[r].gig = req[r].gig /\ req'[r].gross = req[r].gross
        /\ req'[r].applied = req[r].applied
    <2>1. CASE WriteLedger(r)
      BY <1>2, <2>1 DEF WriteLedger, Goto
    <2>2. CASE SpendLocked(r)
      BY <1>2, <2>2 DEF SpendLocked, Goto
    <2> QED BY <2>1, <2>2
  <1>5. /\ req[r].at \in WalletFunded /\ req[r].at # "open"
        /\ req[r].at \notin Unwritten
        /\ req'[r].at \in WalletFunded /\ req'[r].at \notin Unwritten \cup {"ledger"}
        /\ req'[r].at # "start" /\ req[r].at # "start"
    BY <1>4 DEF WalletFunded, Unwritten, Unapplied
  <1>6. r \notin paid
    BY <1>5 DEF ChargesInv, CallsInv
  <1>7. debits'[r] = debits[r] \/ (debits[r] = 0 /\ debits'[r] = 1)
    BY <1>2 DEF WriteLedger, SpendLocked, ChargesInv, CallsInv
  <1>8. Handlers(r) = {}
    BY <1>6 DEF Handlers, ChargesInv, CallbacksInv
  <1>9. \A q \in Requests : Handlers(q)' = Handlers(q)
    BY <1>1 DEF Handlers
  <1>10. Cardinality({}) = 0 /\ Cardinality(Workers) \in Nat \ {0}
    BY FS_EmptySet, FS_CardinalityType
  <1>11. CallsInv'
    BY <1>1, <1>3, <1>4, <1>5, <1>6 DEF ChargesInv, CallsInv
  <1>12. RowsInv'
    BY <1>1, <1>3, <1>4, <1>5 DEF ChargesInv, RowsInv
  <1>13. CallbacksInv'
    BY <1>1, <1>2, <1>3, <1>6 DEF ChargesInv, CallbacksInv
  <1>14. DebitsInv'
    <2> SUFFICES ASSUME NEW q \in Requests
                 PROVE  \/ debits'[q] = 0
                        \/ debits'[q] + Cardinality(Handlers(q)) <= Cardinality(Workers)
      BY <1>9 DEF DebitsInv
    <2>1. CASE q # r
      BY <1>3, <2>1 DEF ChargesInv, DebitsInv
    <2>2. CASE q = r
      BY <1>2, <1>7, <1>8, <1>10, <2>2 DEF ChargesInv, DebitsInv
    <2> QED BY <2>1, <2>2
  <1>15. FundedOnlyIfPaid'
    BY <1>1, <1>3, <1>4, <1>5 DEF ChargesInv, FundedOnlyIfPaid
  <1> QED BY <1>11, <1>12, <1>13, <1>14, <1>15 DEF ChargesInv

(* The gateway's steps.                                                    *)
LEMMA GatewaySteps ==
  ASSUME TypeOK, ChargesInv, NEW r \in Requests,
         Pay(r) \/ \E c \in Callbacks, s \in BOOLEAN : Deliver(c, r, s)
  PROVE  ChargesInv'
  <1> USE FundingAssumption
  <1>1. UNCHANGED <<escrow, req, debits, slot>>
    BY DEF Pay, Deliver, market, wallet, gateway, queue
  <1>2. job \in [Callbacks -> Job] /\ paid \subseteq paid'
    BY DEF TypeOK, Pay, Deliver, gateway
  <1>3. CallsInv'
    BY <1>1 DEF ChargesInv, CallsInv, Pay, Deliver, gateway
  <1>4. RowsInv'
    BY <1>1 DEF ChargesInv, RowsInv
  <1>5. CallbacksInv'
    <2>1. \A c \in Callbacks : job'[c].success => job'[c].ref \in paid'
      BY <1>2 DEF ChargesInv, CallbacksInv, Pay, Deliver, queue, gateway
    <2> QED BY <1>1, <1>2, <2>1 DEF ChargesInv, CallbacksInv
  <1>6. DebitsInv'
    BY <1>1 DEF ChargesInv, DebitsInv, Handlers
  <1>7. FundedOnlyIfPaid'
    BY <1>1, <1>2 DEF ChargesInv, FundedOnlyIfPaid
  <1> QED BY <1>3, <1>4, <1>5, <1>6, <1>7 DEF ChargesInv

(* A worker takes a callback: skips it, or becomes a handler of a call that *)
(* has not been debited yet.                                                *)
LEMMA CallbackTaken ==
  ASSUME TypeOK, ChargesInv, NEW w \in Workers, TakeJob(w) PROVE ChargesInv'
  <1> USE FundingAssumption
  <1>1. UNCHANGED <<escrow, req, paid, debits>>
    BY DEF TakeJob, SkipCallback, ReadEscrow, market, wallet, gateway
  <1>2. /\ job \in [Callbacks -> Job] /\ slot \in [Workers -> Slot]
        /\ debits \in [Requests -> Nat] /\ escrow \in [Gigs -> EscrowRow]
        /\ paid \subseteq Requests
    BY DEF TypeOK
  <1>3. \A c \in Callbacks : /\ job'[c].success = job[c].success
                             /\ job'[c].ref = job[c].ref
    <2>1. ASSUME NEW c \in Callbacks,
                 SkipCallback(w, c) \/ \E g \in Gigs : ReadEscrow(w, c, g)
          PROVE  \E v \in {"done", "active"} : job' = [job EXCEPT ![c].state = v]
      BY <2>1 DEF SkipCallback, ReadEscrow
    <2>2. PICK c \in Callbacks, v \in {"done", "active"} :
            job' = [job EXCEPT ![c].state = v]
      BY <2>1 DEF TakeJob
    <2>3. job' = [job EXCEPT ![c] = [job[c] EXCEPT !.state = v]]
      BY <2>2
    <2>4. [job[c] EXCEPT !.state = v].ref = job[c].ref
          /\ [job[c] EXCEPT !.state = v].success = job[c].success
      BY <1>2 DEF Job
    <2> QED BY <1>2, <2>3, <2>4
  <1>4. \/ slot' = slot
        \/ \E c \in Callbacks, g \in Gigs :
             /\ Funds(c, g)
             /\ slot' = [slot EXCEPT ![w] =
                  [at |-> "commit", job |-> c, gig |-> g, ref |-> job[c].ref,
                   applied |-> escrow[g].walletApplied]]
    BY DEF TakeJob, SkipCallback, ReadEscrow
  <1>5. CallsInv' /\ RowsInv' /\ FundedOnlyIfPaid'
    BY <1>1 DEF ChargesInv, CallsInv, RowsInv, FundedOnlyIfPaid
  <1>6. CASE slot' = slot
    <2>1. CallbacksInv'
      BY <1>1, <1>3, <1>6 DEF ChargesInv, CallbacksInv
    <2>2. DebitsInv'
      BY <1>1, <1>6 DEF ChargesInv, DebitsInv, Handlers
    <2> QED BY <1>5, <2>1, <2>2 DEF ChargesInv
  <1>7. ASSUME NEW c \in Callbacks, NEW g \in Gigs, Funds(c, g),
               slot' = [slot EXCEPT ![w] =
                  [at |-> "commit", job |-> c, gig |-> g, ref |-> job[c].ref,
                   applied |-> escrow[g].walletApplied]]
        PROVE  ChargesInv'
    <2> DEFINE r == job[c].ref
    <2>1. r \in paid /\ escrow[g].gatewayRef = r /\ escrow[g].status # "FUNDED"
      BY <1>7 DEF Funds, Matches, ChargesInv, CallbacksInv
    <2>2. r \in Requests /\ req[r].gig = g
      BY <1>2, <2>1 DEF ChargesInv, RowsInv
    <2>5. debits[r] = 0
      BY <2>1, <2>2 DEF ChargesInv, RowsInv
    <2>6. /\ slot'[w].at = "commit" /\ slot'[w].ref = r /\ slot'[w].gig = g
          /\ \A v \in Workers : v # w => slot'[v] = slot[v]
      BY <1>2, <1>7
    <2> HIDE DEF r
    <2>7. CallbacksInv'
      BY <1>1, <1>3, <2>1, <2>2, <2>6 DEF ChargesInv, CallbacksInv
    <2>8. DebitsInv'
      <3> SUFFICES ASSUME NEW q \in Requests
                   PROVE  \/ debits[q] = 0
                          \/ debits[q] + Cardinality(Handlers(q)')
                               <= Cardinality(Workers)
        BY <1>1 DEF DebitsInv
      <3>1. CASE q = r
        BY <2>5, <3>1
      <3>2. CASE q # r
        <4>1. Handlers(q)' \subseteq Handlers(q)
          BY <2>6, <3>2 DEF Handlers
        <4>2. IsFiniteSet(Handlers(q)) /\ Cardinality(Handlers(q)) \in Nat
          BY FS_Subset, FS_CardinalityType DEF Handlers
        <4>3. /\ Cardinality(Handlers(q)') <= Cardinality(Handlers(q))
              /\ Cardinality(Handlers(q)') \in Nat
          BY <4>1, <4>2, FS_Subset, FS_CardinalityType
        <4> QED
          BY <1>2, <4>2, <4>3, FS_CardinalityType DEF ChargesInv, DebitsInv
      <3> QED BY <3>1, <3>2
    <2> QED BY <1>5, <2>7, <2>8 DEF ChargesInv
  <1> QED BY <1>4, <1>6, <1>7

(* A handler commits: its call gains at most one debit, loses a handler,   *)
(* and the row of its gig, whatever reference it holds by now, is FUNDED.  *)
LEMMA FundingCommitted ==
  ASSUME TypeOK, ChargesInv, NEW w \in Workers, CommitFunded(w) PROVE ChargesInv'
  <1> USE FundingAssumption
  <1> DEFINE r == slot[w].ref
             k == slot[w].gig
  <1>1. UNCHANGED <<req, paid, job>>
    BY DEF CommitFunded, gateway
  <1>2. /\ slot \in [Workers -> Slot] /\ debits \in [Requests -> Nat]
        /\ escrow \in [Gigs -> EscrowRow] /\ paid \subseteq Requests
    BY DEF TypeOK
  <1>3. slot[w].at = "commit"
    BY DEF CommitFunded
  <1>4. r \in paid /\ r \in Requests /\ k \in Gigs /\ req[r].gig = k
        /\ req[r].at = "open"
    BY <1>2, <1>3 DEF ChargesInv, CallbacksInv, CallsInv
  <1>5. /\ slot'[w].at = "notify"
        /\ \A v \in Workers : v # w => slot'[v] = slot[v]
    BY <1>2 DEF CommitFunded
  <1>6. /\ escrow'[k].status = "FUNDED"
        /\ \A g \in Gigs : escrow'[g].gatewayRef = escrow[g].gatewayRef
        /\ \A g \in Gigs : g # k => escrow'[g] = escrow[g]
    BY <1>2, <1>4 DEF CommitFunded
  <1>7. /\ debits'[r] = debits[r] \/ debits'[r] = debits[r] + 1
        /\ \A q \in Requests : q # r => debits'[q] = debits[q]
    <2>1. CASE slot[w].applied > 0
      <3>1. debits' = [debits EXCEPT ![r] = @ + 1]
        BY <2>1 DEF CommitFunded
      <3> QED BY <1>2, <1>4, <3>1
    <2>2. CASE ~(slot[w].applied > 0)
      BY <2>2 DEF CommitFunded
    <2> QED BY <2>1, <2>2
  <1> HIDE DEF r, k
  <1>8. CallsInv'
    BY <1>1, <1>4, <1>7 DEF ChargesInv, CallsInv, Unwritten, Unapplied
  <1>9. RowsInv'
    <2> SUFFICES ASSUME NEW g \in Gigs
                 PROVE  LET q == escrow'[g].gatewayRef
                        IN q \in Requests =>
                             /\ req[q].gig = g /\ req[q].at \notin Unwritten
                             /\ escrow'[g].status # "FUNDED" =>
                                  debits'[q] = 0 /\ req[q].at \notin WalletFunded
      BY <1>1 DEF RowsInv
    <2>1. CASE g = k
      BY <1>6, <2>1 DEF ChargesInv, RowsInv
    <2>2. CASE g # k
      BY <1>4, <1>6, <1>7, <2>2 DEF ChargesInv, RowsInv
    <2> QED BY <2>1, <2>2
  <1>10. CallbacksInv'
    BY <1>1, <1>5 DEF ChargesInv, CallbacksInv
  <1>11. DebitsInv'
    <2> SUFFICES ASSUME NEW q \in Requests
                 PROVE  \/ debits'[q] = 0
                        \/ debits'[q] + Cardinality(Handlers(q)')
                             <= Cardinality(Workers)
      BY DEF DebitsInv
    <2>1. IsFiniteSet(Handlers(q)) /\ Cardinality(Handlers(q)) \in Nat
          /\ Cardinality(Handlers(q)) <= Cardinality(Workers)
          /\ Cardinality(Workers) \in Nat
      BY FS_Subset, FS_CardinalityType DEF Handlers
    <2>2. CASE q = r
      <3>1. w \in Handlers(q) /\ Handlers(q)' = Handlers(q) \ {w}
        BY <1>3, <1>5, <2>2 DEF Handlers, r
      <3>2. Cardinality(Handlers(q)') = Cardinality(Handlers(q)) - 1
        BY <2>1, <3>1, FS_RemoveElement
      <3>3. debits[q] = 0 \/ debits[q] + Cardinality(Handlers(q)) <= Cardinality(Workers)
        BY DEF ChargesInv, DebitsInv
      <3>4. debits[q] \in Nat
        BY <1>2
      <3> QED BY <1>7, <2>1, <2>2, <3>2, <3>3, <3>4
    <2>3. CASE q # r
      <3>1. Handlers(q)' = Handlers(q)
        BY <1>3, <1>5, <2>3 DEF Handlers, r
      <3> QED BY <1>7, <2>3, <3>1 DEF ChargesInv, DebitsInv
    <2> QED BY <2>2, <2>3
  <1>12. FundedOnlyIfPaid'
    <2> SUFFICES ASSUME NEW g \in Gigs, escrow'[g].status = "FUNDED"
                 PROVE  \E q \in Requests :
                          /\ req[q].gig = g
                          /\ req[q].at \notin Unwritten
                          /\ q \in paid \/ req[q].applied = req[q].gross
      BY <1>1 DEF FundedOnlyIfPaid
    <2>1. CASE g = k
      BY <1>4, <2>1 DEF Unwritten, Unapplied
    <2>2. CASE g # k
      BY <1>6, <2>2 DEF ChargesInv, FundedOnlyIfPaid
    <2> QED BY <2>1, <2>2
  <1> QED BY <1>8, <1>9, <1>10, <1>11, <1>12 DEF ChargesInv

(* A worker lets go of its job, having finished or failed.                 *)
LEMMA JobReleased ==
  ASSUME TypeOK, ChargesInv, NEW w \in Workers, NotifyClient(w) \/ WorkerFault(w)
  PROVE  ChargesInv'
  <1> USE FundingAssumption
  <1>1. UNCHANGED <<escrow, req, paid, debits>>
    BY DEF NotifyClient, WorkerFault, market, wallet, gateway
  <1>2. /\ job \in [Callbacks -> Job] /\ slot \in [Workers -> Slot]
        /\ debits \in [Requests -> Nat]
    BY DEF TypeOK
  <1>3. \A c \in Callbacks : /\ job'[c].success = job[c].success
                             /\ job'[c].ref = job[c].ref
    <2>1. CASE NotifyClient(w)
      BY <1>2, <2>1 DEF NotifyClient
    <2>2. CASE WorkerFault(w)
      BY <1>2, <2>2 DEF WorkerFault
    <2> QED BY <2>1, <2>2
  <1>4. slot' = [slot EXCEPT ![w] = Idle]
    BY DEF NotifyClient, WorkerFault
  <1>5. slot'[w].at = "idle" /\ \A v \in Workers : v # w => slot'[v] = slot[v]
    BY <1>2, <1>4 DEF Idle
  <1>6. CallsInv' /\ RowsInv' /\ FundedOnlyIfPaid'
    BY <1>1 DEF ChargesInv, CallsInv, RowsInv, FundedOnlyIfPaid
  <1>7. CallbacksInv'
    BY <1>1, <1>3, <1>5 DEF ChargesInv, CallbacksInv
  <1>8. DebitsInv'
    <2> SUFFICES ASSUME NEW q \in Requests
                 PROVE  \/ debits[q] = 0
                        \/ debits[q] + Cardinality(Handlers(q)')
                             <= Cardinality(Workers)
      BY <1>1 DEF DebitsInv
    <2>1. Handlers(q)' \subseteq Handlers(q)
      BY <1>5 DEF Handlers
    <2>2. IsFiniteSet(Handlers(q)) /\ Cardinality(Handlers(q)) \in Nat
      BY FS_Subset, FS_CardinalityType DEF Handlers
    <2>3. /\ Cardinality(Handlers(q)') <= Cardinality(Handlers(q))
          /\ Cardinality(Handlers(q)') \in Nat
      BY <2>1, <2>2, FS_Subset, FS_CardinalityType
    <2> QED BY <1>2, <2>2, <2>3, FS_CardinalityType DEF ChargesInv, DebitsInv
  <1> QED BY <1>6, <1>7, <1>8 DEF ChargesInv

LEMMA NextCharges == TypeOK /\ ChargesInv /\ [Next]_vars => ChargesInv'
  <1> SUFFICES ASSUME TypeOK, ChargesInv, [Next]_vars PROVE ChargesInv'
    OBVIOUS
  <1>1. CASE Freelance
    <2>1. escrow \in [Gigs -> EscrowRow]
      BY DEF TypeOK
    <2>2. UNCHANGED <<req, paid, debits, job, slot>>
      BY <1>1 DEF Freelance, CreateJob, SubmitBidCheck, SubmitBidCreate, AcceptBid,
                  RejectBid, wallet, gateway, queue
    <2>3. \A g \in Gigs : /\ escrow'[g].status = escrow[g].status
                          /\ escrow'[g].gatewayRef = escrow[g].gatewayRef
      <3>1. ASSUME NEW g \in Gigs, NEW f \in Freelancers, AcceptBid(g, f)
            PROVE  \E n : escrow' = [escrow EXCEPT ![g].grossAmount = n]
        BY <3>1 DEF AcceptBid
      <3>2. (\E g \in Gigs, f \in Freelancers : AcceptBid(g, f)) \/ escrow' = escrow
        BY <1>1 DEF Freelance, CreateJob, SubmitBidCheck, SubmitBidCreate, RejectBid
      <3>3. ASSUME NEW h \in Gigs, NEW n, escrow' = [escrow EXCEPT ![h].grossAmount = n],
                   NEW g \in Gigs
            PROVE  /\ escrow'[g].status = escrow[g].status
                   /\ escrow'[g].gatewayRef = escrow[g].gatewayRef
        <4>1. escrow' = [escrow EXCEPT ![h] = [escrow[h] EXCEPT !.grossAmount = n]]
          BY <3>3
        <4>2. /\ [escrow[h] EXCEPT !.grossAmount = n].status = escrow[h].status
              /\ [escrow[h] EXCEPT !.grossAmount = n].gatewayRef = escrow[h].gatewayRef
          BY <2>1 DEF EscrowRow
        <4> QED BY <2>1, <4>1, <4>2
      <3> QED BY <3>1, <3>2, <3>3
    <2> QED BY <2>2, <2>3, ChargesKept
  <1>2. CASE Initiate
    <2>1. ASSUME NEW r \in Requests, UnlockFunds(r) PROVE ChargesInv'
      BY <2>1, ChargesKept DEF UnlockFunds, wallet, queue
    <2> QED BY <1>2, <2>1, CallMoves, RowWritten, WalletSpent DEF Initiate
  <1>3. CASE Gateway
    BY <1>3, GatewaySteps DEF Gateway
  <1>4. ASSUME NEW w \in Workers, Work(w) \/ WorkerFault(w) PROVE ChargesInv'
    BY <1>4, CallbackTaken, FundingCommitted, JobReleased DEF Work
  <1>5. CASE UNCHANGED vars
    BY <1>5, ChargesKept DEF vars, wallet, gateway, queue
  <1> QED BY <1>1, <1>2, <1>3, <1>4, <1>5 DEF Next

(* Every FUNDED escrow was paid for, at the gateway or from the wallet.     *)
THEOREM FundingIsPaid == Spec => []FundedOnlyIfPaid
  <1>1. ChargesInv => FundedOnlyIfPaid
    BY DEF ChargesInv
  <1> QED BY <1>1, InitCharges, NextCharges, TypeCorrect, PTL DEF Spec

(* Whatever is retried, repeated or re-delivered, a charge is debited at    *)
(* most as often as the escrow queue has workers: once, were it serial.     *)
THEOREM DebitsAreBounded == Spec => []DebitsBoundedByWorkers
  <1>1. TypeOK /\ ChargesInv => DebitsBoundedByWorkers
    <2> SUFFICES ASSUME TypeOK, ChargesInv, NEW r \in Requests
                 PROVE  debits[r] <= Cardinality(Workers)
      BY DEF DebitsBoundedByWorkers
    <2>1. Cardinality(Workers) \in Nat /\ Cardinality(Handlers(r)) \in Nat
      BY FundingAssumption, FS_Subset, FS_CardinalityType DEF Handlers
    <2> QED BY <2>1 DEF TypeOK, ChargesInv, DebitsInv
  <1> QED BY <1>1, InitCharges, NextCharges, TypeCorrect, PTL DEF Spec
(***************************************************************************)
(* The accounts of the employer wallet                                     *)
(***************************************************************************)

(* What a row says was applied changes with its reference only, and what a *)
(* call applied is fixed before a row or a handler refers to the call.     *)
LEMMA AppliedKept ==
  ASSUME TypeOK, ChargesInv, AppliedInv, UNCHANGED slot,
         \A g \in Gigs : /\ escrow'[g].gatewayRef = escrow[g].gatewayRef
                         /\ escrow'[g].walletApplied = escrow[g].walletApplied,
         \A q \in Requests : req[q].at \notin Unwritten =>
                               req'[q].applied = req[q].applied
  PROVE  AppliedInv'
  <1>1. \A w \in Workers : slot[w].at = "commit" =>
          slot[w].ref \in Requests /\ req[slot[w].ref].at \notin Unwritten
    BY DEF TypeOK, ChargesInv, CallbacksInv, CallsInv, Unwritten, Unapplied
  <1>2. \A g \in Gigs : escrow[g].gatewayRef \in Requests =>
          req[escrow[g].gatewayRef].at \notin Unwritten
    BY DEF ChargesInv, RowsInv
  <1> QED BY <1>1, <1>2 DEF AppliedInv

LEMMA RowApplied ==
  ASSUME TypeOK, ChargesInv, AppliedInv, NEW r \in Requests, UpsertEscrow(r)
  PROVE  AppliedInv'
  <1>1. /\ req \in [Requests -> Call] /\ escrow \in [Gigs -> EscrowRow]
        /\ req[r].at = "upsert" /\ req[r].gig \in Gigs /\ r \notin paid
    BY DEF TypeOK, UpsertEscrow, ChargesInv, CallsInv
  <1>2. /\ escrow'[req[r].gig].gatewayRef = r
        /\ escrow'[req[r].gig].walletApplied = req[r].applied
        /\ \A g \in Gigs : g # req[r].gig => escrow'[g] = escrow[g]
    BY <1>1 DEF UpsertEscrow
  <1>3. \A q \in Requests : req'[q].applied = req[q].applied
    <2>1. \E place : req' = [req EXCEPT ![r].at = place]
      BY DEF UpsertEscrow, Goto
    <2> QED BY <1>1, <2>1 DEF Call
  <1>4. \A w \in Workers : slot[w].at = "commit" => slot[w].ref \in Requests
    BY DEF TypeOK, ChargesInv, CallbacksInv
  <1>5. slot' = slot
    BY DEF UpsertEscrow, queue
  <1> QED BY <1>2, <1>3, <1>4, <1>5 DEF AppliedInv

LEMMA HandlerApplied ==
  ASSUME TypeOK, ChargesInv, AppliedInv, NEW w \in Workers, TakeJob(w)
  PROVE  AppliedInv'
  <1>1. UNCHANGED <<escrow, req>>
    BY DEF TakeJob, SkipCallback, ReadEscrow
  <1>2. CASE slot' = slot
    BY <1>1, <1>2 DEF AppliedInv
  <1>3. ASSUME NEW c \in Callbacks, NEW g \in Gigs, ReadEscrow(w, c, g)
        PROVE  AppliedInv'
    <2>1. /\ job[c].ref \in Requests /\ escrow[g].gatewayRef = job[c].ref
      BY <1>3 DEF ReadEscrow, Funds, Matches, TypeOK, ChargesInv, CallbacksInv
    <2>2. /\ slot'[w].ref = job[c].ref /\ slot'[w].applied = escrow[g].walletApplied
          /\ \A v \in Workers : v # w => slot'[v] = slot[v]
      BY <1>3 DEF ReadEscrow, TypeOK
    <2> QED BY <1>1, <2>1, <2>2 DEF AppliedInv
  <1> QED BY <1>2, <1>3 DEF TakeJob, SkipCallback

LEMMA NextApplied ==
  TypeOK /\ ChargesInv /\ AppliedInv /\ [Next]_vars => AppliedInv'
  <1> SUFFICES ASSUME TypeOK, ChargesInv, AppliedInv, [Next]_vars PROVE AppliedInv'
    OBVIOUS
  <1> USE DEF TypeOK
  <1>1. CASE Freelance
    <2>1. req' = req /\ slot' = slot
      BY <1>1 DEF Freelance, CreateJob, SubmitBidCheck, SubmitBidCreate, AcceptBid,
                  RejectBid, queue
    <2>2. \A g \in Gigs : /\ escrow'[g].gatewayRef = escrow[g].gatewayRef
                          /\ escrow'[g].walletApplied = escrow[g].walletApplied
      <3>1. (\E g \in Gigs : \E n : escrow' = [escrow EXCEPT ![g].grossAmount = n])
              \/ escrow' = escrow
        BY <1>1 DEF Freelance, CreateJob, SubmitBidCheck, SubmitBidCreate,
                    AcceptBid, RejectBid
      <3> QED BY <3>1 DEF EscrowRow
    <2> QED BY <2>1, <2>2, AppliedKept
  <1>2. ASSUME NEW r \in Requests,
               \/ ReadWallet(r) \/ ApplyWallet(r) \/ QueueUnlock(r)
               \/ WriteLedger(r) \/ SpendLocked(r) \/ OpenCheckout(r)
               \/ UnlockFunds(r) \/ \E g \in Gigs : ReadGig(r, g)
        PROVE  AppliedInv'
    <2>1. UNCHANGED <<escrow, slot>>
      BY <1>2 DEF ReadWallet, ApplyWallet, QueueUnlock, WriteLedger, SpendLocked,
                  OpenCheckout, UnlockFunds, ReadGig, queue
    <2>2. ASSUME NEW q \in Requests, req[q].at \notin Unwritten
          PROVE  req'[q].applied = req[q].applied
      <3>1. CASE ReadWallet(r) \/ \E g \in Gigs : ReadGig(r, g)
        BY <2>2, <3>1 DEF ReadWallet, ReadGig, Unwritten, Unapplied
      <3>2. CASE \/ ApplyWallet(r) \/ QueueUnlock(r) \/ WriteLedger(r)
                 \/ SpendLocked(r) \/ OpenCheckout(r) \/ UnlockFunds(r)
        <4>1. (\E place : req' = [req EXCEPT ![r].at = place]) \/ req' = req
          BY <3>2 DEF ApplyWallet, QueueUnlock, WriteLedger, SpendLocked,
                      OpenCheckout, UnlockFunds, Goto
        <4> QED BY <4>1 DEF Call
      <3> QED BY <1>2, <3>1, <3>2
    <2> QED BY <2>1, <2>2, AppliedKept
  <1>3. CASE Gateway
    <2>1. UNCHANGED <<escrow, req, slot>>
      BY <1>3 DEF Gateway, Pay, Deliver, queue
    <2> QED BY <2>1 DEF AppliedInv
  <1>4. ASSUME NEW w \in Workers, CommitFunded(w) PROVE AppliedInv'
    <2>1. req' = req /\ slot[w].gig \in Gigs
      BY <1>4 DEF CommitFunded, ChargesInv, CallbacksInv
    <2>2. \A g \in Gigs : /\ escrow'[g].gatewayRef = escrow[g].gatewayRef
                          /\ escrow'[g].walletApplied = escrow[g].walletApplied
      BY <1>4 DEF CommitFunded, EscrowRow
    <2>3. slot'[w].at = "notify" /\ \A v \in Workers : v # w => slot'[v] = slot[v]
      BY <1>4 DEF CommitFunded
    <2> QED BY <2>1, <2>2, <2>3 DEF AppliedInv
  <1>5. ASSUME NEW w \in Workers, NotifyClient(w) \/ WorkerFault(w) PROVE AppliedInv'
    <2>1. UNCHANGED <<escrow, req>> /\ slot' = [slot EXCEPT ![w] = Idle]
      BY <1>5 DEF NotifyClient, WorkerFault
    <2>2. slot'[w].at = "idle" /\ \A v \in Workers : v # w => slot'[v] = slot[v]
      BY <2>1 DEF Idle
    <2> QED BY <2>1, <2>2 DEF AppliedInv
  <1>6. CASE UNCHANGED vars
    BY <1>6 DEF vars, queue, AppliedInv
  <1> QED
    BY <1>1, <1>2, <1>3, <1>4, <1>5, <1>6, RowApplied, HandlerApplied
    DEF Next, Initiate, Work

LEMMA AmountTypes ==
  ASSUME TypeOK
  PROVE  /\ \A r \in Requests : Taken(r) \in Int /\ Released(r) \in Int
         /\ credit \in [Gigs -> Int]
         /\ TakenAmounts \in [Requests -> Int]
         /\ ReleasedAmounts \in [Requests -> Int]
         /\ SumFunction(credit) \in Int
         /\ SumFunction(TakenAmounts) \in Int
         /\ SumFunction(ReleasedAmounts) \in Int
  <1>1. ASSUME NEW r \in Requests
        PROVE  Taken(r) \in Int /\ Released(r) \in Int
    <2>1. req[r].applied \in Nat /\ debits[r] \in Nat
      BY DEF TypeOK, Call
    <2>2. debits[r] * req[r].applied \in Int
      BY <2>1
    <2> QED BY <2>1, <2>2 DEF Taken, Released
  <1>2. TakenAmounts \in [Requests -> Int] /\ ReleasedAmounts \in [Requests -> Int]
    BY <1>1 DEF TakenAmounts, ReleasedAmounts
  <1>3. credit \in [Gigs -> Int]
    BY DEF TypeOK
  <1> QED BY <1>1, <1>2, <1>3, SumType, FundingAssumption

LEMMA InitAccounted == Init => WalletAccounted
  <1> SUFFICES ASSUME Init PROVE WalletAccounted
    OBVIOUS
  <1>1. \A g \in Gigs : credit[g] = 0
    BY DEF Init
  <1>2. \A r \in Requests : TakenAmounts[r] = 0 /\ ReleasedAmounts[r] = 0
    BY DEF Init, NewCall, TakenAmounts, ReleasedAmounts, Taken, Released, Unapplied
  <1>3. /\ SumFunction(credit) = 0 /\ SumFunction(TakenAmounts) = 0
        /\ SumFunction(ReleasedAmounts) = 0
    BY <1>1, <1>2, InitType, AmountTypes, SumOfZeros, FundingAssumption
  <1> QED BY <1>3, FundingAssumption DEF Init, WalletAccounted

(* A step of one call, or of a handler of it, that books in the wallet     *)
(* what it changes of the call.                                            *)
LEMMA CallBooked ==
  ASSUME TypeOK, TypeOK', WalletAccounted, NEW r \in Requests, UNCHANGED credit,
         \A q \in Requests \ {r} : req'[q] = req[q] /\ debits'[q] = debits[q],
         balance' = balance - (Taken(r)' - Taken(r)),
         locked' = locked + (Taken(r)' - Taken(r)) - (Released(r)' - Released(r))
  PROVE  WalletAccounted'
  <1>1. /\ TakenAmounts' \in [Requests -> Int]
        /\ ReleasedAmounts' \in [Requests -> Int]
        /\ Taken(r)' \in Int /\ Released(r)' \in Int
    <2>1. ASSUME NEW q \in Requests
          PROVE  Taken(q)' \in Int /\ Released(q)' \in Int
      <3>1. req'[q].applied \in Nat /\ debits'[q] \in Nat
        BY DEF TypeOK, Call
      <3>2. debits'[q] * req'[q].applied \in Int
        BY <3>1
      <3> QED BY <3>1, <3>2 DEF Taken, Released
    <2> QED BY <2>1 DEF TakenAmounts, ReleasedAmounts
  <1>2. /\ TakenAmounts[r] = Taken(r) /\ TakenAmounts'[r] = Taken(r)'
        /\ ReleasedAmounts[r] = Released(r) /\ ReleasedAmounts'[r] = Released(r)'
    BY DEF TakenAmounts, ReleasedAmounts
  <1>3. \A q \in Requests \ {r} : /\ TakenAmounts'[q] = TakenAmounts[q]
                                  /\ ReleasedAmounts'[q] = ReleasedAmounts[q]
    BY DEF TakenAmounts, ReleasedAmounts, Taken, Released
  <1>4. /\ SumFunction(TakenAmounts') =
             SumFunction(TakenAmounts) + (Taken(r)' - Taken(r))
        /\ SumFunction(ReleasedAmounts') =
             SumFunction(ReleasedAmounts) + (Released(r)' - Released(r))
    BY <1>1, <1>2, <1>3, AmountTypes, SumChangesByOne, FundingAssumption
  <1>5. balance \in Int /\ locked \in Int /\ StartBalance \in Int
    BY FundingAssumption DEF TypeOK
  <1>6. /\ balance' = StartBalance + SumFunction(credit) - SumFunction(TakenAmounts')
        /\ locked' = SumFunction(TakenAmounts') - SumFunction(ReleasedAmounts')
    BY <1>1, <1>4, <1>5, AmountTypes DEF WalletAccounted
  <1> QED BY <1>6 DEF WalletAccounted

(* A refund of acceptBid: what the escrow gives up is credited.            *)
LEMMA RefundBooked ==
  ASSUME TypeOK, TypeOK', WalletAccounted, NEW g \in Gigs, NEW f \in Freelancers,
         AcceptBid(g, f)
  PROVE  WalletAccounted'
  <1> DEFINE excess == Excess(g, bid[g][f].amount)
  <1>1. excess \in Int
    BY DEF TypeOK, Excess, EscrowRow, BidRow
  <1>2. /\ credit' = [credit EXCEPT ![g] = @ + excess]
        /\ balance' = balance + excess /\ UNCHANGED <<locked, debits, req>>
    BY DEF AcceptBid
  <1> HIDE DEF excess
  <1>3. credit \in [Gigs -> Int] /\ credit' \in [Gigs -> Int]
    BY DEF TypeOK
  <1>4. /\ \A h \in Gigs \ {g} : credit'[h] = credit[h]
        /\ credit'[g] = credit[g] + excess /\ credit[g] \in Int
    BY <1>2, <1>3
  <1>5. SumFunction(credit') = SumFunction(credit) + (credit'[g] - credit[g])
    BY <1>3, <1>4, SumChangesByOne, FundingAssumption
  <1>6. TakenAmounts' = TakenAmounts /\ ReleasedAmounts' = ReleasedAmounts
    BY <1>2 DEF TakenAmounts, ReleasedAmounts, Taken, Released
  <1>7. balance \in Int /\ StartBalance \in Int
    BY FundingAssumption DEF TypeOK
  <1>8. balance' = StartBalance + SumFunction(credit') - SumFunction(TakenAmounts)
    BY <1>1, <1>2, <1>4, <1>5, <1>7, AmountTypes DEF WalletAccounted
  <1> QED BY <1>2, <1>6, <1>8 DEF WalletAccounted

(* A step that touches neither the wallet nor what was applied and debited.*)
LEMMA AccountsKept ==
  ASSUME WalletAccounted, UNCHANGED <<balance, locked, credit, debits, req>>
  PROVE  WalletAccounted'
  <1>1. TakenAmounts' = TakenAmounts /\ ReleasedAmounts' = ReleasedAmounts
    BY DEF TakenAmounts, ReleasedAmounts, Taken, Released
  <1> QED BY <1>1 DEF WalletAccounted

(* Steps of a call of initiate: what they take from the balance they lock, *)
(* and what they debit they release.                                       *)
LEMMA InitiateBooked ==
  ASSUME TypeOK, TypeOK', ChargesInv, WalletAccounted, NEW r \in Requests,
         \/ ReadWallet(r) \/ ApplyWallet(r) \/ UpsertEscrow(r) \/ QueueUnlock(r)
         \/ WriteLedger(r) \/ SpendLocked(r) \/ OpenCheckout(r)
         \/ \E g \in Gigs : ReadGig(r, g)
  PROVE  WalletAccounted'
  <1>1. /\ req \in [Requests -> Call] /\ debits \in [Requests -> Nat]
        /\ balance \in Int /\ locked \in Int
        /\ req[r].applied \in Nat /\ debits[r] \in Nat
    BY DEF TypeOK, Call
  <1> DEFINE n == req[r].applied
             d == debits[r]
  <1>2. n \in Nat /\ d \in Nat /\ d * n \in Int
    BY <1>1
  <1>3. CASE ReadWallet(r) \/ \E g \in Gigs : ReadGig(r, g)
    <2>1. /\ UNCHANGED <<balance, locked, credit, debits>>
          /\ req[r].at \in {"start", "wallet"}
          /\ \/ req'[r].at \in Unapplied
             \/ req'[r].at = "upsert" /\ req'[r].applied = 0
          /\ \A q \in Requests \ {r} : req'[q] = req[q]
      <3>1. CASE ReadWallet(r)
        <4>1. UNCHANGED <<balance, locked, credit, debits>> /\ req[r].at = "wallet"
          BY <3>1 DEF ReadWallet, wallet
        <4>2. \A q \in Requests \ {r} : req'[q] = req[q]
          BY <1>1, <3>1 DEF ReadWallet
        <4>3. req'[r].at = IF balance > 0 THEN "apply" ELSE "upsert"
          BY <1>1, <3>1 DEF ReadWallet, Call
        <4>4. balance > 0 \/ req'[r].applied = 0
          BY <1>1, <3>1 DEF ReadWallet, Call
        <4>5. CASE balance > 0
          <5>1. req'[r].at = "apply" /\ "apply" \in Unapplied
            BY <4>3, <4>5 DEF Unapplied
          <5> QED BY <4>1, <4>2, <5>1
        <4>6. CASE ~(balance > 0)
          BY <4>1, <4>2, <4>3, <4>4, <4>6
        <4> QED BY <4>5, <4>6
      <3>2. CASE \E g \in Gigs : ReadGig(r, g)
        BY <1>1, <3>2 DEF ReadGig, wallet, Unapplied
      <3> QED BY <1>3, <3>1, <3>2
    <2>2. debits[r] = 0
      BY <2>1 DEF ChargesInv, CallsInv, Unwritten, Unapplied
    <2>3. req'[r].applied \in Nat
      BY DEF TypeOK, Call
    <2>4. Taken(r) = 0 /\ Taken(r)' = 0
      BY <2>1 DEF Taken, Unapplied
    <2>5. Released(r) = 0 /\ Released(r)' = 0
      BY <1>1, <2>1, <2>2, <2>3 DEF Released, Unapplied
    <2> QED BY <1>1, <2>1, <2>4, <2>5, CallBooked
  <1>4. ASSUME NEW place, req' = [req EXCEPT ![r].at = place]
        PROVE  /\ req'[r].at = place /\ req'[r].applied = n
               /\ \A q \in Requests \ {r} : req'[q] = req[q]
    BY <1>1, <1>4 DEF Call
  <1>5. CASE ApplyWallet(r)
    <2>1. /\ req[r].at = "apply" /\ req' = [req EXCEPT ![r].at = "upsert"]
          /\ balance' = balance - n /\ locked' = locked + n
          /\ UNCHANGED <<debits, credit>>
      BY <1>5 DEF ApplyWallet, Goto
    <2>2. Taken(r) = 0 /\ Taken(r)' = n
      BY <1>4, <2>1 DEF Taken, Unapplied
    <2>3. Released(r)' = Released(r)
      BY <1>4, <2>1 DEF Released
    <2>4. Released(r) \in Int
      BY AmountTypes
    <2> HIDE DEF n
    <2> QED BY <1>1, <1>2, <1>4, <2>1, <2>2, <2>3, <2>4, CallBooked
  <1>6. CASE UpsertEscrow(r) \/ QueueUnlock(r) \/ OpenCheckout(r)
    <2>1. PICK place \in Places :
            /\ req' = [req EXCEPT ![r].at = place]
            /\ req[r].at \in {"upsert", "queue", "checkout"}
            /\ place \notin Unapplied \cup {"spend"}
            /\ UNCHANGED <<balance, locked, credit, debits>>
      BY <1>6 DEF UpsertEscrow, QueueUnlock, OpenCheckout, Goto, wallet, Places,
                  Unapplied
    <2>2. Taken(r) = n /\ Taken(r)' = n
      BY <1>4, <2>1 DEF Taken, Unapplied
    <2>3. Released(r)' = Released(r)
      BY <1>4, <2>1 DEF Released
    <2>4. Released(r) \in Int
      BY AmountTypes
    <2> HIDE DEF n
    <2> QED BY <1>1, <1>2, <1>4, <2>1, <2>2, <2>3, <2>4, CallBooked
  <1>7. CASE WriteLedger(r)
    <2>1. /\ req[r].at = "ledger" /\ req' = [req EXCEPT ![r].at = "spend"]
          /\ debits' = [debits EXCEPT ![r] = @ + 1]
          /\ UNCHANGED <<balance, locked, credit>>
      BY <1>7 DEF WriteLedger, Goto
    <2>2. Taken(r) = n /\ Taken(r)' = n
      BY <1>4, <2>1 DEF Taken, Unapplied
    <2>3. debits[r] = 0 /\ debits'[r] = 1
      BY <1>1, <2>1 DEF ChargesInv, CallsInv
    <2>4. Released(r) = 0 /\ Released(r)' = 0
      <3>1. Released(r) = 0 * n - 0 /\ Released(r)' = 1 * n - n
        BY <1>4, <2>1, <2>3 DEF Released
      <3> HIDE DEF n
      <3> QED BY <1>2, <3>1
    <2>5. \A q \in Requests \ {r} : debits'[q] = debits[q]
      BY <1>1, <2>1
    <2> HIDE DEF n
    <2> QED BY <1>1, <1>2, <1>4, <2>1, <2>2, <2>4, <2>5, CallBooked
  <1>8. CASE SpendLocked(r)
    <2>1. /\ req[r].at = "spend" /\ req' = [req EXCEPT ![r].at = "spent"]
          /\ locked' = locked - n /\ UNCHANGED <<balance, debits, credit>>
      BY <1>8 DEF SpendLocked, Goto
    <2>2. Taken(r) = n /\ Taken(r)' = n
      BY <1>4, <2>1 DEF Taken, Unapplied
    <2>3. Released(r) = d * n - n /\ Released(r)' = d * n - 0
      BY <1>4, <2>1 DEF Released
    <2> HIDE DEF n, d
    <2>4. Released(r)' - Released(r) = n
      BY <1>2, <2>3
    <2>5. Taken(r)' - Taken(r) = 0
      BY <1>2, <2>2
    <2>6. locked' = locked + (Taken(r)' - Taken(r)) - (Released(r)' - Released(r))
      BY <1>1, <1>2, <2>1, <2>4, <2>5
    <2>7. balance' = balance - (Taken(r)' - Taken(r))
      BY <1>1, <2>1, <2>5
    <2> QED BY <1>4, <2>1, <2>6, <2>7, CallBooked
  <1> QED BY <1>3, <1>5, <1>6, <1>7, <1>8

(* The commit of a handler debits what it read, which is what its call     *)
(* locked.                                                                 *)
LEMMA CommitBooked ==
  ASSUME TypeOK, TypeOK', ChargesInv, AppliedInv, WalletAccounted,
         NEW w \in Workers, CommitFunded(w)
  PROVE  WalletAccounted'
  <1>0. PICK r \in Requests : r = slot[w].ref
    BY DEF TypeOK, CommitFunded, ChargesInv, CallbacksInv
  <1> DEFINE n == req[r].applied
  <1>1. /\ req[r].at = "open" /\ slot[w].applied = n
        /\ req \in [Requests -> Call] /\ debits \in [Requests -> Nat]
        /\ balance \in Int /\ locked \in Int
    BY <1>0 DEF TypeOK, CommitFunded, ChargesInv, CallbacksInv, CallsInv, AppliedInv
  <1>2. n \in Nat /\ debits[r] \in Nat
    BY <1>1 DEF Call
  <1>3. /\ UNCHANGED <<balance, credit, req>> /\ locked' = locked - n
        /\ debits' = IF n > 0 THEN [debits EXCEPT ![r] = @ + 1] ELSE debits
    BY <1>0, <1>1 DEF CommitFunded
  <1>4. Taken(r)' = Taken(r) /\ Taken(r) \in Int
    BY <1>1, <1>3, AmountTypes DEF Taken
  <1>5. Released(r) = debits[r] * n /\ Released(r)' = debits'[r] * n
    <2>1. /\ Released(r) = debits[r] * n - 0
          /\ Released(r)' = debits'[r] * n - 0
      BY <1>1, <1>3 DEF Released
    <2>2. debits'[r] \in Nat
      BY <1>1 DEF TypeOK
    <2> HIDE DEF n
    <2>3. debits[r] * n \in Int /\ debits'[r] * n \in Int
      BY <1>2, <2>2
    <2> QED BY <2>1, <2>3
  <1>6. \A q \in Requests \ {r} : debits'[q] = debits[q]
    BY <1>1, <1>3
  <1> HIDE DEF n
  <1>7. Released(r)' - Released(r) = n
    <2>1. CASE n > 0
      <3>1. debits'[r] = debits[r] + 1
        BY <1>1, <1>3, <2>1
      <3>2. (debits[r] + 1) * n = debits[r] * n + n
        BY <1>2
      <3>3. debits[r] * n \in Int
        BY <1>2
      <3> QED BY <1>2, <1>5, <3>1, <3>2, <3>3
    <2>2. CASE n = 0
      BY <1>2, <1>3, <1>5, <2>2
    <2> QED BY <1>2, <2>1, <2>2
  <1>8. locked' = locked + (Taken(r)' - Taken(r)) - (Released(r)' - Released(r))
    BY <1>1, <1>2, <1>3, <1>4, <1>7
  <1>9. balance' = balance - (Taken(r)' - Taken(r))
    BY <1>1, <1>3, <1>4
  <1> QED BY <1>1, <1>3, <1>6, <1>8, <1>9, CallBooked

LEMMA NextAccounted ==
  TypeOK /\ TypeOK' /\ ChargesInv /\ AppliedInv /\ WalletAccounted /\ [Next]_vars
    => WalletAccounted'
  <1> SUFFICES ASSUME TypeOK, TypeOK', ChargesInv, AppliedInv, WalletAccounted,
                      [Next]_vars
               PROVE  WalletAccounted'
    OBVIOUS
  <1>1. CASE Freelance
    <2>1. \/ \E g \in Gigs, f \in Freelancers : AcceptBid(g, f)
          \/ UNCHANGED <<balance, locked, credit, debits, req>>
      BY <1>1 DEF Freelance, CreateJob, SubmitBidCheck, SubmitBidCreate, RejectBid,
                  wallet
    <2> QED BY <2>1, RefundBooked, AccountsKept
  <1>2. CASE Initiate
    <2>1. ASSUME NEW r \in Requests, UnlockFunds(r) PROVE WalletAccounted'
      BY <2>1, AccountsKept DEF UnlockFunds, wallet
    <2> QED BY <1>2, <2>1, InitiateBooked DEF Initiate
  <1>3. CASE Gateway
    BY <1>3, AccountsKept DEF Gateway, Pay, Deliver, wallet
  <1>4. ASSUME NEW w \in Workers, Work(w) \/ WorkerFault(w) PROVE WalletAccounted'
    <2>1. CommitFunded(w) \/ UNCHANGED <<balance, locked, credit, debits, req>>
      BY <1>4 DEF Work, TakeJob, SkipCallback, ReadEscrow, NotifyClient, WorkerFault,
                  wallet
    <2> QED BY <2>1, CommitBooked, AccountsKept
  <1>5. CASE UNCHANGED vars
    BY <1>5, AccountsKept DEF vars, wallet
  <1> QED BY <1>1, <1>2, <1>3, <1>4, <1>5 DEF Next

(* The employer wallet loses and gains nothing: balance and lockedBalance  *)
(* agree with the charges in progress and with the ledger rows, whatever   *)
(* calls, callbacks and faults interleave, and however many there are.     *)
THEOREM WalletIsAccounted == Spec => []WalletAccounted
  <1>1. Init => AppliedInv
    BY FundingAssumption DEF Init, AppliedInv, NoEscrow, Idle
  <1>2. Spec => []ChargesInv
    BY InitCharges, NextCharges, TypeCorrect, PTL DEF Spec
  <1>3. Spec => []AppliedInv
    BY <1>1, <1>2, NextApplied, TypeCorrect, PTL DEF Spec
  <1> QED
    BY <1>2, <1>3, InitAccounted, NextAccounted, TypeCorrect, PTL DEF Spec

=============================================================================
