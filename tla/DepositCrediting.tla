-------------------------- MODULE DepositCrediting --------------------------
(***************************************************************************)
(* From CONFIRMED to PROCESSED: processConfirmedDeposits turns the payment *)
(* of a deposit into what was bought with it.                              *)
(*                                                                         *)
(* A processor is one run of it.  Cron starts one every minute without     *)
(* looking whether the last one ended, and POST /deposits/process starts   *)
(* one at any time.  A run works on the rows it read at its start; each    *)
(* database transaction is one step, because it locks the row of the user  *)
(* before anything else, and two runs on one deposit meet there.           *)
(*                                                                         *)
(* Other writers of a deposit meanwhile: the detector (Confirm), the       *)
(* expirer, and the owner who changes the address to receive the energy.   *)
(* Deposits are numbered in the order of their creation.                   *)
(***************************************************************************)
EXTENDS Naturals, Sequences, FiniteSets, Functions

CONSTANTS NumDeposits, Users, Recipients,
          UserOf, PurposeOf, AmountOf, PackageOf, RecipientOf,
          Unit,         \* amounts are in 1/Unit of a USDT
          Processors,   \* runs that may be in flight together
          Expirable,    \* deposits the expirer may find past their window
          Relocatable,  \* deposits whose owner may change the recipient
          DbFaults,     \* may a database statement fail?
          Crashes       \* bound on process restarts

None == "none"
Deposits == 1 .. NumDeposits
Purposes == {"ENERGY_DELIVERY", "TOPUP"}

ASSUME CreditingAssumption ==
  /\ NumDeposits \in Nat
  /\ UserOf \in [Deposits -> Users]
  /\ PurposeOf \in [Deposits -> Purposes]
  /\ AmountOf \in [Deposits -> Nat]
  /\ PackageOf \in [Deposits -> Nat]
  /\ RecipientOf \in [Deposits -> Recipients]
  /\ None \notin Recipients
  /\ Unit \in Nat \ {0}
  /\ DbFaults \in BOOLEAN
  /\ Crashes \in Nat

VARIABLES deposits,    \* table deposits
          credits,     \* users.credits
          v2Credits,   \* users.v2_credits
          delivery,    \* table energy_deliveries: deposit -> TRON address
          remaining,   \* user_energy_states.transactions_remaining
          ledger,      \* v2_credit_ledger: balanceAfter of a deposit's rows
          processor, expiring, relocation, restarts

tables == <<deposits, credits, v2Credits, delivery, remaining, ledger>>
environment == <<expiring, relocation, restarts>>
vars == <<tables, processor, environment>>

DepositRow == [status : {"PENDING", "CONFIRMED", "PROCESSED", "FAILED", "EXPIRED"},
               paid : BOOLEAN,        \* amountUsdt and txHash are set
               processed : BOOLEAN,   \* processedAt is set
               energyRecipientAddress : Recipients]

ProcessorState == [pc : {"idle", "next", "readBalance", "writeBalance", "fail"},
                   todo : SUBSET Deposits,
                   recipient : [Deposits -> Recipients],  \* as read
                   balance : Nat]

IdleProcessor == [pc |-> "idle", todo |-> {}, recipient |-> RecipientOf,
                  balance |-> 0]

TypeOK ==
  /\ deposits \in [Deposits -> DepositRow]
  /\ credits \in [Users -> Nat]
  /\ v2Credits \in [Users -> Nat]
  /\ delivery \in [Deposits -> Recipients \cup {None}]
  /\ remaining \in [Recipients -> Nat]
  /\ ledger \in [Deposits -> Seq(Nat)]
  /\ processor \in [Processors -> ProcessorState]
  /\ \A p \in Processors : processor[p].todo = {} => processor[p].pc \in {"idle", "next"}
  /\ expiring \subseteq Deposits
  /\ relocation \in [Deposits -> {"no", "read", "done"}]
  /\ restarts \in 0 .. Crashes

Init ==
  /\ deposits = [d \in Deposits |->
                   [status |-> "PENDING", paid |-> FALSE, processed |-> FALSE,
                    energyRecipientAddress |-> RecipientOf[d]]]
  /\ credits = [u \in Users |-> 0]
  /\ v2Credits = [u \in Users |-> 0]
  /\ delivery = [d \in Deposits |-> None]
  /\ remaining = [r \in Recipients |-> 0]
  /\ ledger = [d \in Deposits |-> << >>]
  /\ processor = [p \in Processors |-> IdleProcessor]
  /\ expiring = {}
  /\ relocation = [d \in Deposits |-> "no"]
  /\ restarts = 0

SetStatus(d, status) == deposits' = [deposits EXCEPT ![d].status = status]

(***************************************************************************)
(* The other writers.                                                      *)
(***************************************************************************)
\* updateDepositTransaction, seen from here: a detector that found the
\* deposit open confirms it, even if it was expired in between.
Confirm(d) ==
  /\ deposits[d].status \in {"PENDING", "EXPIRED"}
  /\ ~deposits[d].paid
  /\ deposits' = [deposits EXCEPT ![d].status = "CONFIRMED", ![d].paid = TRUE]
  /\ UNCHANGED <<credits, v2Credits, delivery, remaining, ledger, processor,
                 environment>>

FindExpired(d) ==
  /\ d \in Expirable
  /\ deposits[d].status = "PENDING"
  /\ expiring' = expiring \cup {d}
  /\ UNCHANGED <<tables, processor, relocation, restarts>>

MarkAsExpired(d) ==
  /\ d \in expiring
  /\ SetStatus(d, "EXPIRED")
  /\ expiring' = expiring \ {d}
  /\ UNCHANGED <<credits, v2Credits, delivery, remaining, ledger, processor,
                 relocation, restarts>>

\* updateEnergyRecipientAddress: the status is checked, then the row updated.
CheckRelocation(d) ==
  /\ d \in Relocatable
  /\ relocation[d] = "no"
  /\ deposits[d].status \in {"PENDING", "CONFIRMED"}
  /\ relocation' = [relocation EXCEPT ![d] = "read"]
  /\ UNCHANGED <<tables, processor, expiring, restarts>>

UpdateEnergyRecipientAddress(d) ==
  /\ relocation[d] = "read"
  /\ \E r \in Recipients :
       deposits' = [deposits EXCEPT ![d].energyRecipientAddress = r]
  /\ relocation' = [relocation EXCEPT ![d] = "done"]
  /\ UNCHANGED <<credits, v2Credits, delivery, remaining, ledger, processor,
                 expiring, restarts>>

(***************************************************************************)
(* One run of processConfirmedDeposits.                                    *)
(***************************************************************************)
ConfirmedButUnprocessed ==
  {d \in Deposits : deposits[d].status = "CONFIRMED" /\ ~deposits[d].processed}

StartProcessing(p) ==
  /\ processor[p].pc = "idle"
  /\ ConfirmedButUnprocessed # {}
  /\ processor' = [processor EXCEPT ![p] =
       [pc |-> "next",
        todo |-> ConfirmedButUnprocessed,
        recipient |-> [d \in Deposits |-> deposits[d].energyRecipientAddress],
        balance |-> 0]]
  /\ UNCHANGED <<tables, environment>>

\* The deposit the run works on: the oldest of those it has left.
IsCurrent(p, d) == /\ d \in processor[p].todo
                   /\ \A e \in processor[p].todo : d <= e

Goto(p, pc) == processor' = [processor EXCEPT ![p].pc = pc]
\* Mutant: a processed topup falls through instead of going to the next row.
FallThrough(p, d) == processor' = [processor EXCEPT ![p].todo = @ \ {d}]
Continue(p, d) == processor' = [processor EXCEPT ![p].pc = "next",
                                                 ![p].todo = @ \ {d}]

MarkProcessed(d) == deposits' = [deposits EXCEPT ![d].status = "PROCESSED",
                                                 ![d].processed = TRUE]

\* Mutant: energy_deliveries.deposit_id is not unique.
NoDeliveryIndex(d) == FALSE

\* The unique index on energy_deliveries.deposit_id.
Delivered(d) == delivery[d] # None

\* Credits, PROCESSED, delivery and energy state in one transaction; what
\* aborts it (a second delivery, any error) leads to markAsFailed.
CreditEnergyDeposit(p, d) ==
  LET r == processor[p].recipient[d] IN
  /\ processor[p].pc = "next" /\ IsCurrent(p, d)
  /\ PurposeOf[d] = "ENERGY_DELIVERY"
  /\ \/ /\ ~Delivered(d)
        /\ credits' = [credits EXCEPT ![UserOf[d]] = @ + AmountOf[d]]
        /\ MarkProcessed(d)
        /\ delivery' = [delivery EXCEPT ![d] = r]
        /\ remaining' = [remaining EXCEPT ![r] = @ + PackageOf[d]]
        /\ Continue(p, d)
     \/ /\ Delivered(d) \/ DbFaults
        /\ Goto(p, "fail")
        /\ UNCHANGED <<deposits, credits, delivery, remaining>>
  /\ UNCHANGED <<v2Credits, ledger, environment>>

CreditsToAdd(d) == AmountOf[d] \div Unit

\* Mutant: the ledger row is written before, and outside, the transaction.
CreditTopupAfterLedger(p, d) ==
  /\ processor[p].pc = "next" /\ IsCurrent(p, d)
  /\ PurposeOf[d] = "TOPUP"
  /\ ledger' = [ledger EXCEPT ![d] = Append(@, 0)]
  /\ \/ /\ v2Credits' = [v2Credits EXCEPT ![UserOf[d]] = @ + CreditsToAdd(d)]
        /\ MarkProcessed(d)
        /\ Goto(p, "readBalance")
     \/ /\ DbFaults
        /\ Goto(p, "fail")
        /\ UNCHANGED <<deposits, v2Credits>>
  /\ UNCHANGED <<credits, delivery, remaining, environment>>

\* v2Credits, PROCESSED and a ledger row in one transaction.  Nothing in it
\* depends on the deposit's status or is unique per deposit.
CreditTopup(p, d) ==
  /\ processor[p].pc = "next" /\ IsCurrent(p, d)
  /\ PurposeOf[d] = "TOPUP"
  /\ \/ /\ v2Credits' = [v2Credits EXCEPT ![UserOf[d]] = @ + CreditsToAdd(d)]
        /\ MarkProcessed(d)
        /\ ledger' = [ledger EXCEPT ![d] = Append(@, 0)]
        /\ Goto(p, "readBalance")
     \/ /\ DbFaults
        /\ Goto(p, "fail")
        /\ UNCHANGED <<deposits, v2Credits, ledger>>
  /\ UNCHANGED <<credits, delivery, remaining, environment>>

\* "Update balanceAfter with actual v2Credits": read, then write to every
\* ledger row of the deposit.  Still inside the try: an error leads to
\* markAsFailed of a deposit that was credited.
ReadV2Credits(p, d) ==
  /\ processor[p].pc = "readBalance" /\ IsCurrent(p, d)
  /\ \/ processor' = [processor EXCEPT ![p].pc = "writeBalance",
                                       ![p].balance = v2Credits[UserOf[d]]]
     \/ DbFaults /\ Goto(p, "fail")
  /\ UNCHANGED <<tables, environment>>

UpdateBalanceAfter(p, d) ==
  /\ processor[p].pc = "writeBalance" /\ IsCurrent(p, d)
  /\ \/ /\ ledger' = [ledger EXCEPT ![d] = [i \in DOMAIN @ |-> processor[p].balance]]
        /\ Continue(p, d)
     \/ DbFaults /\ Goto(p, "fail") /\ UNCHANGED ledger
  /\ UNCHANGED <<deposits, credits, v2Credits, delivery, remaining, environment>>

\* Mutant: the catch block only logs the error.
OnlyLogged(p, d) ==
  /\ processor[p].pc = "fail" /\ IsCurrent(p, d)
  /\ Continue(p, d)
  /\ UNCHANGED <<tables, environment>>

\* The catch block: UPDATE ... SET status = FAILED WHERE id, whatever the
\* status is by now.  An error here ends the run.
MarkAsFailed(p, d) ==
  /\ processor[p].pc = "fail" /\ IsCurrent(p, d)
  /\ \/ SetStatus(d, "FAILED") /\ Continue(p, d)
     \/ /\ DbFaults
        /\ processor' = [processor EXCEPT ![p] = IdleProcessor]
        /\ UNCHANGED deposits
  /\ UNCHANGED <<credits, v2Credits, delivery, remaining, ledger, environment>>

EndProcessing(p) ==
  /\ processor[p].pc = "next"
  /\ processor[p].todo = {}
  /\ processor' = [processor EXCEPT ![p] = IdleProcessor]
  /\ UNCHANGED <<tables, environment>>

Crash ==
  /\ restarts < Crashes
  /\ restarts' = restarts + 1
  /\ processor' = [p \in Processors |-> IdleProcessor]
  /\ expiring' = {}
  /\ relocation' = [d \in Deposits |->
                      IF relocation[d] = "read" THEN "done" ELSE relocation[d]]
  /\ UNCHANGED tables

Process(p) == \/ StartProcessing(p)
              \/ \E d \in Deposits : \/ CreditEnergyDeposit(p, d)
                                     \/ CreditTopup(p, d)
                                     \/ ReadV2Credits(p, d)
                                     \/ UpdateBalanceAfter(p, d)
                                     \/ MarkAsFailed(p, d)
              \/ EndProcessing(p)

Next == \/ \E d \in Deposits : \/ Confirm(d)
                               \/ FindExpired(d)
                               \/ MarkAsExpired(d)
                               \/ CheckRelocation(d)
                               \/ UpdateEnergyRecipientAddress(d)
        \/ \E p \in Processors : Process(p)
        \/ Crash

Spec == Init /\ [][Next]_vars

(***************************************************************************)
(* Safety.                                                                 *)
(***************************************************************************)
\* What users own is what module DepositGrants says: with one run at a time
\* for topups, and with any number of runs for energy deposits, no deposit
\* is granted twice and nothing is granted in part, whatever statement
\* fails, process restarts or other writer comes in between.
GrantedDeposits == {d \in Deposits : delivery[d] # None \/ ledger[d] # << >>}
Grants == INSTANCE DepositGrants WITH granted <- GrantedDeposits
ImplementsGrants == Grants!Spec

\* The rows of energy_deliveries explain users.credits and the transactions
\* left in user_energy_states: overlapping runs grant nothing a second time.
DeliveriesMatchBalances ==
  /\ \A u \in Users :
       credits[u] = SumFunctionOnSet(AmountOf,
                      {d \in Deposits : UserOf[d] = u /\ delivery[d] # None})
  /\ \A r \in Recipients :
       remaining[r] = SumFunctionOnSet(PackageOf, {d \in Deposits : delivery[d] = r})

\* v2_credit_ledger explains users.v2_credits, also where overlapping runs
\* credit one topup twice.
LedgerMatchesBalance ==
  \A u \in Users :
    v2Credits[u] = SumFunctionOnSet(
      [d \in Deposits |-> Len(ledger[d]) * CreditsToAdd(d)],
      {d \in Deposits : UserOf[d] = u})

(***************************************************************************)
(* Liveness: cron starts runs, a run that started goes on, and marking a   *)
(* deposit FAILED does not fail for ever.                                  *)
(***************************************************************************)
MarkedAsFailed(p, d) == MarkAsFailed(p, d) /\ deposits'[d].status = "FAILED"
FairSpec == /\ Spec
            /\ \A p \in Processors : WF_vars(Process(p))
            /\ \A p \in Processors, d \in Deposits : SF_vars(MarkedAsFailed(p, d))

\* A confirmed deposit is processed, or marked FAILED for somebody to look at.
ConfirmedIsSettled ==
  \A d \in Deposits : deposits[d].status = "CONFIRMED" ~>
                      deposits[d].status \in {"PROCESSED", "FAILED"}

(***************************************************************************)
(* What the code and its documents promise.                                *)
(***************************************************************************)
\* "1 USDT = 1 credit": nobody gets more v2 credits than whole USDT they paid.
CreditsWithinPayments ==
  \A u \in Users :
    v2Credits[u] * Unit <= SumFunctionOnSet(AmountOf,
      {d \in Deposits : UserOf[d] = u /\ PurposeOf[d] = "TOPUP" /\ deposits[d].paid})
=============================================================================
