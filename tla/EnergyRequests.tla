--------------------------- MODULE EnergyRequests ---------------------------
(***************************************************************************)
(* POST /api/v2/energy/delegate and the cron job v2-energy-reclaim, for    *)
(* one API customer.                                                       *)
(*                                                                         *)
(* Each HTTP call is a caller that runs delegateEnergy: it looks its       *)
(* idempotency key up, creates the request row, takes one credit, has the  *)
(* energy delegated on TRON, and gives the credit back when that throws.   *)
(* Every await separates two steps, and the transaction that takes the     *)
(* credit is two steps itself: under READ COMMITTED, findUnique takes no   *)
(* lock, so other transactions commit between it and the update.           *)
(*                                                                         *)
(* A request row is identified by its key: (userId, idempotencyKey) is     *)
(* unique.  The 15 minutes a delegation has to be old before it is         *)
(* reclaimed are left to the scheduler.                                    *)
(***************************************************************************)
EXTENDS Integers, FiniteSets

CONSTANTS Callers,     \* HTTP calls
          Keys,        \* idempotency keys (X-Request-ID)
          Wallets,
          KeyOf,       \* key a call carries
          WalletOf,    \* wallet a call asks energy for
          MaxTopups,   \* credits bought in all (bound)
          DbFaults,    \* may a database statement fail?
          Crashes      \* bound on process restarts

ASSUME RequestsAssumption ==
  /\ KeyOf \in [Callers -> Keys]
  /\ WalletOf \in [Callers -> Wallets]
  /\ MaxTopups \in Nat
  /\ DbFaults \in BOOLEAN
  /\ Crashes \in Nat

VARIABLES v2Credits,  \* users.v2_credits
          requests,   \* table v2_energy_requests
          ledger,     \* table v2_credit_ledger: rows of each request, and
                      \* topups, the number of credits bought
          topups,
          delegated,  \* TRON: SUN delegated to each wallet
          caller, reclaimer, restarts

tables == <<v2Credits, requests, ledger>>
vars == <<v2Credits, requests, ledger, topups, delegated,
          caller, reclaimer, restarts>>

\* What one request delegates, in units that let a partial reclaim be told
\* from a whole one.
Sun == 2

RequestStatus == {"NONE", "PENDING", "PROCESSING", "COMPLETED", "FAILED"}

RequestRow == [status : RequestStatus,
               wallet : Wallets \cup {"none"},
               creditsDeducted : {0, 1},
               delegatedSun : {0, Sun},
               reclaimed : BOOLEAN]

NoRequest == [status |-> "NONE", wallet |-> "none", creditsDeducted |-> 0,
              delegatedSun |-> 0, reclaimed |-> FALSE]

CallerPc == {"new", "validated", "balance", "deduct", "refuse", "charged",
             "transfer", "complete", "refund", "fail", "answered", "lost"}

Response == {"none", "PENDING", "PROCESSING", "COMPLETED", "FAILED",
             "BadRequest", "ServerError"}

ReclaimerState == [pc : {"idle", "reclaim", "mark"},
                   todo : SUBSET Keys,
                   key : Keys \cup {"none"}]

IdleReclaimer == [pc |-> "idle", todo |-> {}, key |-> "none"]

TypeOK ==
  /\ v2Credits \in Int
  /\ requests \in [Keys -> RequestRow]
  /\ ledger \in [Keys -> [deductions : Nat, refunds : Nat]]
  /\ topups \in 0 .. MaxTopups
  /\ delegated \in [Wallets -> Nat]
  /\ caller \in [Callers -> [pc : CallerPc, response : Response]]
  /\ reclaimer \in ReclaimerState
  /\ restarts \in 0 .. Crashes

Init ==
  /\ v2Credits = 0
  /\ requests = [k \in Keys |-> NoRequest]
  /\ ledger = [k \in Keys |-> [deductions |-> 0, refunds |-> 0]]
  /\ topups = 0
  /\ delegated = [w \in Wallets |-> 0]
  /\ caller = [c \in Callers |-> [pc |-> "new", response |-> "none"]]
  /\ reclaimer = IdleReclaimer
  /\ restarts = 0

\* A processed TOPUP deposit (module DepositCrediting).
TopUp ==
  /\ topups < MaxTopups
  /\ topups' = topups + 1
  /\ v2Credits' = v2Credits + 1
  /\ UNCHANGED <<requests, ledger, delegated, caller, reclaimer, restarts>>

(***************************************************************************)
(* delegateEnergy                                                          *)
(***************************************************************************)
Goto(c, pc) == caller' = [caller EXCEPT ![c].pc = pc]
Answer(c, response) == caller' = [caller EXCEPT ![c] = [pc |-> "answered",
                                                        response |-> response]]
Row(c) == requests[KeyOf[c]]
UpdateRow(c, row) == requests' = [requests EXCEPT ![KeyOf[c]] = row]

\* Mutant: the result of the lookup is not checked for null.
LookupWithoutCheck(c) ==
  /\ caller[c].pc = "new"
  /\ Answer(c, Row(c).status) \/ Goto(c, "validated")
  /\ UNCHANGED <<tables, topups, delegated, reclaimer, restarts>>

LookupKey(c) ==
  /\ caller[c].pc = "new"
  /\ \/ Row(c).status # "NONE" /\ Answer(c, Row(c).status)
     \/ Row(c).status = "NONE" /\ Answer(c, "BadRequest")   \* address checks
     \/ Row(c).status = "NONE" /\ Goto(c, "validated")
  /\ UNCHANGED <<tables, topups, delegated, reclaimer, restarts>>

\* Mutant: no unique index on (userId, idempotencyKey).
NoKeyIndex(c) == FALSE

\* The unique index on (userId, idempotencyKey).
KeyTaken(c) == Row(c).status # "NONE"

CreateRequest(c) ==
  /\ caller[c].pc = "validated"
  /\ \/ /\ ~KeyTaken(c)
        /\ UpdateRow(c, [NoRequest EXCEPT !.status = "PENDING",
                                          !.wallet = WalletOf[c]])
        /\ Goto(c, "balance")
     \/ /\ KeyTaken(c) \/ DbFaults
        /\ Answer(c, "ServerError")
        /\ UNCHANGED requests
  /\ UNCHANGED <<v2Credits, ledger, topups, delegated, reclaimer, restarts>>

ReadBalance(c) ==
  /\ caller[c].pc = "balance"
  /\ \/ v2Credits >= 1 /\ Goto(c, "deduct")
     \/ v2Credits < 1 /\ Goto(c, "refuse")
  /\ UNCHANGED <<tables, topups, delegated, reclaimer, restarts>>

\* Decrement, ledger row and commit; or the transaction is rolled back.
DeductCredit(c) ==
  /\ caller[c].pc = "deduct"
  /\ \/ /\ v2Credits' = v2Credits - 1
        /\ ledger' = [ledger EXCEPT ![KeyOf[c]].deductions = @ + 1]
        /\ Goto(c, "charged")
     \/ /\ DbFaults
        /\ Goto(c, "refuse")
        /\ UNCHANGED <<v2Credits, ledger>>
  /\ UNCHANGED <<requests, topups, delegated, reclaimer, restarts>>

RefuseRequest(c) ==
  /\ caller[c].pc = "refuse"
  /\ \/ /\ UpdateRow(c, [Row(c) EXCEPT !.status = "FAILED"])
        /\ Answer(c, "BadRequest")
     \/ /\ DbFaults
        /\ Answer(c, "ServerError")
        /\ UNCHANGED requests
  /\ UNCHANGED <<v2Credits, ledger, topups, delegated, reclaimer, restarts>>

\* Outside any try: an error here leaves the handler with the credit taken.
MarkProcessing(c) ==
  /\ caller[c].pc = "charged"
  /\ \/ /\ UpdateRow(c, [Row(c) EXCEPT !.status = "PROCESSING",
                                       !.creditsDeducted = 1])
        /\ Goto(c, "transfer")
     \/ /\ DbFaults
        /\ Answer(c, "ServerError")
        /\ UNCHANGED requests
  /\ UNCHANGED <<v2Credits, ledger, topups, delegated, reclaimer, restarts>>

\* Mutant: the transfer is outside the try, so that a failure is not refunded.
TransferWithoutCatch(c) ==
  /\ caller[c].pc = "transfer"
  /\ \/ /\ delegated' = [delegated EXCEPT ![WalletOf[c]] = @ + Sun]
        /\ Goto(c, "complete")
     \/ /\ Answer(c, "ServerError")
        /\ UNCHANGED delegated
  /\ UNCHANGED <<tables, topups, reclaimer, restarts>>

\* transferEnergyDirect returns, throws before it broadcast the delegation,
\* or throws after: its own update of table transactions follows the broadcast.
TransferEnergy(c) ==
  /\ caller[c].pc = "transfer"
  /\ \/ /\ delegated' = [delegated EXCEPT ![WalletOf[c]] = @ + Sun]
        /\ \/ Goto(c, "complete")
           \/ DbFaults /\ Goto(c, "refund")
     \/ /\ Goto(c, "refund")
        /\ UNCHANGED delegated
  /\ UNCHANGED <<tables, topups, reclaimer, restarts>>

\* Inside the try: an error here runs the refund of a delegation that worked.
CompleteRequest(c) ==
  /\ caller[c].pc = "complete"
  /\ \/ /\ UpdateRow(c, [Row(c) EXCEPT !.status = "COMPLETED",
                                       !.delegatedSun = Sun])
        /\ Answer(c, "COMPLETED")
     \/ /\ DbFaults
        /\ Goto(c, "refund")
        /\ UNCHANGED requests
  /\ UNCHANGED <<v2Credits, ledger, topups, delegated, reclaimer, restarts>>

\* Mutant: the refund is not written to the ledger.
RefundWithoutLedger(c) ==
  /\ caller[c].pc = "refund"
  /\ v2Credits' = v2Credits + 1
  /\ Goto(c, "fail")
  /\ UNCHANGED <<requests, ledger, topups, delegated, reclaimer, restarts>>

RefundCredit(c) ==
  /\ caller[c].pc = "refund"
  /\ \/ /\ v2Credits' = v2Credits + 1
        /\ ledger' = [ledger EXCEPT ![KeyOf[c]].refunds = @ + 1]
        /\ Goto(c, "fail")
     \/ /\ DbFaults
        /\ Answer(c, "ServerError")
        /\ UNCHANGED <<v2Credits, ledger>>
  /\ UNCHANGED <<requests, topups, delegated, reclaimer, restarts>>

\* Mutant: creditsDeducted is not reset when the request fails.
FailWithoutReset(c) ==
  /\ caller[c].pc = "fail"
  /\ UpdateRow(c, [Row(c) EXCEPT !.status = "FAILED"])
  /\ Answer(c, "FAILED")
  /\ UNCHANGED <<v2Credits, ledger, topups, delegated, reclaimer, restarts>>

FailRequest(c) ==
  /\ caller[c].pc = "fail"
  /\ \/ /\ UpdateRow(c, [Row(c) EXCEPT !.status = "FAILED",
                                       !.creditsDeducted = 0])
        /\ Answer(c, "FAILED")
     \/ /\ DbFaults
        /\ Answer(c, "ServerError")
        /\ UNCHANGED requests
  /\ UNCHANGED <<v2Credits, ledger, topups, delegated, reclaimer, restarts>>

(***************************************************************************)
(* v2EnergyReclaimService.runCycle: isRunning keeps it to one run.         *)
(***************************************************************************)
Reclaimable == {k \in Keys : /\ requests[k].status = "COMPLETED"
                             /\ ~requests[k].reclaimed}

StartReclaim ==
  /\ reclaimer.pc = "idle"
  /\ Reclaimable # {}
  /\ reclaimer' = [reclaimer EXCEPT !.pc = "reclaim", !.todo = Reclaimable]
  /\ UNCHANGED <<tables, topups, delegated, caller, restarts>>

\* Mutant: everything delegated to the wallet is reclaimed.
ReclaimWholeWallet ==
  /\ reclaimer.pc = "reclaim"
  /\ \E k \in reclaimer.todo :
       /\ delegated' = [delegated EXCEPT ![requests[k].wallet] = 0]
       /\ reclaimer' = [pc |-> "mark", todo |-> reclaimer.todo \ {k}, key |-> k]
  /\ UNCHANGED <<tables, topups, caller, restarts>>

\* reclaimAllEnergyFromAddress returns normally whether it undelegated the
\* amount of the request, only part of it (95, 90, 80 percent) or nothing at
\* all; it throws when the energy price or the delegation cannot be read.
ReclaimEnergy ==
  /\ reclaimer.pc = "reclaim"
  /\ \E k \in reclaimer.todo :
       LET w == requests[k].wallet IN
       \/ /\ \E part \in 0 .. requests[k].delegatedSun :
               /\ part <= delegated[w]
               /\ delegated' = [delegated EXCEPT ![w] = @ - part]
          /\ reclaimer' = [pc |-> "mark", todo |-> reclaimer.todo \ {k}, key |-> k]
       \/ /\ reclaimer' = [reclaimer EXCEPT !.todo = @ \ {k}]
          /\ UNCHANGED delegated
  /\ UNCHANGED <<tables, topups, caller, restarts>>

MarkReclaimed ==
  /\ reclaimer.pc = "mark"
  /\ \/ requests' = [requests EXCEPT ![reclaimer.key].reclaimed = TRUE]
     \/ DbFaults /\ UNCHANGED requests
  /\ reclaimer' = [reclaimer EXCEPT !.pc = "reclaim", !.key = "none"]
  /\ UNCHANGED <<v2Credits, ledger, topups, delegated, caller, restarts>>

EndReclaim ==
  /\ reclaimer.pc = "reclaim"
  /\ reclaimer.todo = {}
  /\ reclaimer' = IdleReclaimer
  /\ UNCHANGED <<tables, topups, delegated, caller, restarts>>

\* A restart loses the calls and the run in flight.
Crash ==
  /\ restarts < Crashes
  /\ restarts' = restarts + 1
  /\ caller' = [c \in Callers |->
       IF caller[c].pc \in {"new", "answered"} THEN caller[c]
       ELSE [caller[c] EXCEPT !.pc = "lost"]]
  /\ reclaimer' = IdleReclaimer
  /\ UNCHANGED <<tables, topups, delegated>>

Delegate(c) == \/ LookupKey(c)
               \/ CreateRequest(c)
               \/ ReadBalance(c)
               \/ DeductCredit(c)
               \/ RefuseRequest(c)
               \/ MarkProcessing(c)
               \/ TransferEnergy(c)
               \/ CompleteRequest(c)
               \/ RefundCredit(c)
               \/ FailRequest(c)

Reclaim == StartReclaim \/ ReclaimEnergy \/ MarkReclaimed \/ EndReclaim

Next == TopUp \/ (\E c \in Callers : Delegate(c)) \/ Reclaim \/ Crash

Spec == Init /\ [][Next]_vars

(***************************************************************************)
(* Safety, for any interleaving of calls, any fault and any crash.         *)
(***************************************************************************)
\* One idempotency key costs at most one credit and returns at most what it
\* cost, however many calls carry it at the same time.
ChargedOncePerKey ==
  \A k \in Keys : ledger[k].refunds <= ledger[k].deductions /\ ledger[k].deductions <= 1

\* The final statuses tell the truth about the money: COMPLETED kept the
\* credit, FAILED kept none, and the row reports what the ledger shows.
FinalStatusMatchesCharge ==
  \A k \in Keys :
    LET charge == ledger[k].deductions - ledger[k].refunds IN
    requests[k].status \in {"COMPLETED", "FAILED"} =>
      /\ requests[k].creditsDeducted = charge
      /\ charge = IF requests[k].status = "COMPLETED" THEN 1 ELSE 0

\* The balance is what the ledger adds up to: nothing is lost by a crash
\* between two statements, because each transaction writes both.
BalanceMatchesLedger ==
  v2Credits = topups - Cardinality({k \in Keys : ledger[k].deductions = 1})
                     + Cardinality({k \in Keys : ledger[k].refunds = 1})

\* The requests implement the prepaid account of module CreditAccount.
accountOf ==
  [k \in Keys |-> IF ledger[k].deductions = 0 THEN "none"
                  ELSE IF ledger[k].refunds # 0 THEN "returned"
                  ELSE IF requests[k].status = "COMPLETED" THEN "spent"
                  ELSE "held"]
Account == INSTANCE CreditAccount WITH balance <- v2Credits, account <- accountOf
ImplementsAccount == Account!Spec

(***************************************************************************)
(* Where no statement fails and nothing restarts.                          *)
(***************************************************************************)
Unreclaimed(w) == {k \in Reclaimable : /\ requests[k].wallet = w
                                       /\ reclaimer.key # k}

\* Reclaiming one request leaves alone the energy delegated to the same
\* wallet for another ("pass exact delegated SUN").
EnergyKept == \A w \in Wallets : delegated[w] >= Sun * Cardinality(Unreclaimed(w))

\* A call goes on, the cron job runs every 15 minutes, and TRON does not fail
\* to be read for the same delegation for ever.
FairSpec == /\ Spec
            /\ \A c \in Callers : WF_vars(Delegate(c))
            /\ WF_vars(Reclaim)
            /\ \A k \in Keys : SF_vars(ReclaimEnergy /\ reclaimer'.key = k)

\* Every request comes to an end, and a completed one is reclaimed.
RequestSettles ==
  \A k \in Keys : requests[k].status # "NONE" ~>
                  \/ requests[k].status = "FAILED"
                  \/ requests[k].status = "COMPLETED" /\ requests[k].reclaimed

(***************************************************************************)
(* What the documents promise.                                             *)
(***************************************************************************)
\* "Deduct 1 credit atomically (SELECT FOR UPDATE)": the balance of a
\* customer is never overdrawn by simultaneous calls.
NeverOverdrawn == v2Credits >= 0
=============================================================================
