--------------------------- MODULE DepositIntake ---------------------------
(***************************************************************************)
(* How a USDT payment becomes a CONFIRMED deposit.                         *)
(*                                                                         *)
(*   initiators  POST /deposits and /v2/topup (one per deposit)            *)
(*   detectors   cron job transaction-detector, and the manual endpoint    *)
(*               that processes one transaction by hash                    *)
(*   sweepers    cron jobs deposit-expirer and address-pool-maintenance    *)
(*   cancels     POST /deposits/:id/cancel                                 *)
(*                                                                         *)
(* All of them run in one node process but give the event loop away at     *)
(* every await, so each step below is what happens between two awaits: at  *)
(* most one database statement, with any other step allowed in between.    *)
(* Consecutive reads of one handler are one step.  scheduleJob has no      *)
(* guard against a run that outlives its period, hence several detectors.  *)
(***************************************************************************)
EXTENDS AddressPool

CONSTANTS NumTxs,       \* transfers that may appear on the chain
          Recent,       \* look-back of checkAddressForRecentTransactions (24h)
          MaxAttempts,  \* addresses one initiation looks at (10)
          MaxTime,      \* bound on the clock
          Detectors,    \* detector runs that may be in flight together
          Sweepers,     \* subset of SweeperKinds
          Cancellable,  \* deposits somebody may ask to cancel
          DbFaults,     \* may a database statement fail?
          Crashes       \* bound on process restarts

SweeperKinds == {"expirer", "maintenance"}

ASSUME IntakeAssumption ==
  /\ NumTxs \in Nat
  /\ Recent \in Nat
  /\ MaxAttempts \in Nat
  /\ MaxTime \in Nat
  /\ Sweepers \subseteq SweeperKinds
  /\ DbFaults \in BOOLEAN
  /\ Crashes \in Nat

Txs == 1 .. NumTxs

VARIABLES
  deposits,    \* table deposits
  tracked,     \* table processed_transactions: tx -> deposit, Null = no row
  chain,       \* USDT transfers on TRON
  initiator,   \* one request handler per deposit
  detector,    \* runs of detectAndMatchTransactions / processTransactionByHash
  sweeper,     \* runs of expireOldDeposits / runAddressPoolMaintenance
  cancel,      \* one cancel request per deposit
  restarts

tables == <<pool, deposits, tracked>>
memory == <<initiator, detector, sweeper, cancel>>
vars == <<now, pool, deposits, tracked, chain,
          initiator, detector, sweeper, cancel, restarts>>

(***************************************************************************)
(* Rows and local variables.                                               *)
(***************************************************************************)
DepositStatus ==
  {"NONE",   \* no such row yet
   "PENDING", "CONFIRMED", "PROCESSED", "FAILED", "EXPIRED", "CANCELLED"}

DepositRow == [status : DepositStatus,
               assignedAddress : Addresses \cup {Null},
               txHash : Txs \cup {Null},
               createdAt : Time,
               expiresAt : Time]

Transfer == [to : Addresses \cup {Null}, at : Time]

InitiatorState ==
  [pc : {"idle", "created", "dirty", "picked", "assigned", "done", "failed"},
   address : Addresses \cup {Null},
   attempts : 0 .. MaxAttempts]

DetectorState ==
  [pc : {"idle", "scan", "match", "update", "track", "markUsed"},
   addresses : SUBSET Addresses,
   address : Addresses \cup {Null},
   txs : SUBSET Txs,
   tx : Txs \cup {Null},
   deposit : Deposits \cup {Null}]

SweeperState == [pc : {"idle", "expire", "release"},
                 deposits : SUBSET Deposits,
                 addresses : SUBSET Addresses]

CancelState == [pc : {"idle", "read", "threw"},
                address : Addresses \cup {Null}]

IdleInitiator == [pc |-> "idle", address |-> Null, attempts |-> 0]
IdleDetector == [pc |-> "idle", addresses |-> {}, address |-> Null,
                 txs |-> {}, tx |-> Null, deposit |-> Null]
IdleSweeper == [pc |-> "idle", deposits |-> {}, addresses |-> {}]
IdleCancel == [pc |-> "idle", address |-> Null]

NoDeposit == [status |-> "NONE", assignedAddress |-> Null, txHash |-> Null,
              createdAt |-> Null, expiresAt |-> Null]

TypeOK ==
  /\ PoolTypeOK
  /\ deposits \in [Deposits -> DepositRow]
  /\ tracked \in [Txs -> Deposits \cup {Null}]
  /\ chain \in [Txs -> Transfer]
  /\ initiator \in [Deposits -> InitiatorState]
  /\ detector \in [Detectors -> DetectorState]
  /\ sweeper \in [Sweepers -> SweeperState]
  /\ cancel \in [Deposits -> CancelState]
  /\ restarts \in 0 .. Crashes

Init ==
  /\ PoolInit
  /\ deposits = [d \in Deposits |-> NoDeposit]
  /\ tracked = [t \in Txs |-> Null]
  /\ chain = [t \in Txs |-> [to |-> Null, at |-> Null]]
  /\ initiator = [d \in Deposits |-> IdleInitiator]
  /\ detector = [w \in Detectors |-> IdleDetector]
  /\ sweeper = [s \in Sweepers |-> IdleSweeper]
  /\ cancel = [d \in Deposits |-> IdleCancel]
  /\ restarts = 0

(***************************************************************************)
(* The environment: the clock and the payers.  A payer may send to any     *)
(* pool address at any time (a late, repeated or stray transfer included). *)
(***************************************************************************)
OnChain(t) == chain[t].to # Null
TransfersTo(a) == {t \in Txs : chain[t].to = a}
RecentTransfer(a) == \E t \in TransfersTo(a) : chain[t].at + Recent > now

Tick == /\ now < MaxTime
        /\ now' = now + 1
        /\ UNCHANGED <<tables, chain, memory, restarts>>

Pay(t, a) ==
  /\ ~OnChain(t)
  /\ \A u \in Txs : u < t => OnChain(u)
  /\ chain' = [chain EXCEPT ![t] = [to |-> a, at |-> now]]
  /\ UNCHANGED <<now, tables, memory, restarts>>

(***************************************************************************)
(* Initiating a deposit: create the row, pick an address, mark it          *)
(* ASSIGNED, then store it in the row.  Four statements, no transaction.   *)
(***************************************************************************)
CreateDeposit(d) ==
  /\ deposits[d].status = "NONE"
  /\ \A e \in Deposits : e < d => deposits[e].status # "NONE"
  /\ deposits' = [deposits EXCEPT ![d] =
                    [status |-> "PENDING", assignedAddress |-> Null,
                     txHash |-> Null, createdAt |-> now,
                     expiresAt |-> now + Window]]
  /\ initiator' = [initiator EXCEPT ![d].pc = "created"]
  /\ UNCHANGED <<now, pool, tracked, chain, detector, sweeper, cancel, restarts>>

\* Mutant: the address search has no limit.
PickAnyAddress(d) ==
  /\ initiator[d].pc = "created"
  /\ \/ /\ FreeAddresses = {}
        /\ initiator' = [initiator EXCEPT ![d].pc = "failed"]
     \/ \E a \in Addresses :
          /\ IsFirstFreeAddress(a)
          /\ initiator' = [initiator EXCEPT
               ![d].pc = IF RecentTransfer(a) THEN "dirty" ELSE "picked",
               ![d].address = a]
  /\ UNCHANGED <<now, tables, chain, detector, sweeper, cancel, restarts>>

\* findFreeAddress and the look at the address's recent transfers; a failed
\* look counts as "no recent transfers".
PickAddress(d) ==
  /\ initiator[d].pc = "created"
  /\ \/ /\ FreeAddresses = {} \/ initiator[d].attempts = MaxAttempts
        /\ initiator' = [initiator EXCEPT ![d].pc = "failed"]
     \/ /\ initiator[d].attempts < MaxAttempts
        /\ \E a \in Addresses :
             /\ IsFirstFreeAddress(a)
             /\ \E verdict \in IF RecentTransfer(a) THEN {"dirty", "picked"}
                                                    ELSE {"picked"} :
                  initiator' = [initiator EXCEPT ![d].pc = verdict,
                                                 ![d].address = a]
  /\ UNCHANGED <<now, tables, chain, detector, sweeper, cancel, restarts>>

DiscardAddress(d) ==
  /\ initiator[d].pc = "dirty"
  /\ MarkRowUsed(initiator[d].address)
  /\ initiator' = [initiator EXCEPT ![d].pc = "created",
                                    ![d].address = Null,
                                    ![d].attempts = @ + 1]
  /\ UNCHANGED <<now, deposits, tracked, chain, detector, sweeper, cancel, restarts>>

AssignAddress(d) ==
  /\ initiator[d].pc = "picked"
  /\ AssignRow(initiator[d].address, d)
  /\ initiator' = [initiator EXCEPT ![d].pc = "assigned"]
  /\ UNCHANGED <<now, deposits, tracked, chain, detector, sweeper, cancel, restarts>>

UpdateDepositAddress(d) ==
  /\ initiator[d].pc = "assigned"
  /\ deposits' = [deposits EXCEPT ![d].assignedAddress = initiator[d].address]
  /\ initiator' = [initiator EXCEPT ![d].pc = "done"]
  /\ UNCHANGED <<now, pool, tracked, chain, detector, sweeper, cancel, restarts>>

\* A statement fails: the request is answered with an error, and what the
\* statements before it wrote stays.
FailInitiation(d) ==
  /\ DbFaults
  /\ initiator[d].pc \in {"created", "dirty", "picked", "assigned"}
  /\ initiator' = [initiator EXCEPT ![d].pc = "failed"]
  /\ UNCHANGED <<now, tables, chain, detector, sweeper, cancel, restarts>>

(***************************************************************************)
(* Detecting payments.                                                     *)
(***************************************************************************)
StartDetection(w) ==
  /\ detector[w].pc = "idle"
  /\ AssignedAddresses # {}
  /\ detector' = [detector EXCEPT ![w].pc = "scan",
                                  ![w].addresses = AssignedAddresses]
  /\ UNCHANGED <<now, tables, chain, initiator, sweeper, cancel, restarts>>

\* TronGrid answers, or all retries fail and the list is empty.
FetchTransactions(w) ==
  /\ detector[w].pc = "scan"
  /\ \E a \in detector[w].addresses : \E answer \in {TransfersTo(a), {}} :
       detector' = [detector EXCEPT ![w].pc = "match",
                                    ![w].addresses = @ \ {a},
                                    ![w].address = a,
                                    ![w].txs = answer]
  /\ UNCHANGED <<now, tables, chain, initiator, sweeper, cancel, restarts>>

\* The manual endpoint enters with one transaction and no list of addresses.
StartManual(w, t) ==
  /\ detector[w].pc = "idle"
  /\ OnChain(t)
  /\ detector' = [detector EXCEPT ![w].pc = "match",
                                  ![w].address = chain[t].to,
                                  ![w].txs = {t}]
  /\ UNCHANGED <<now, tables, chain, initiator, sweeper, cancel, restarts>>

\* findByTxHash finds a row, or the transaction is in processed_transactions
\* (a lookup whose failure is swallowed).
Matched(t) == \E d \in Deposits : deposits[d].txHash = t
MayPassSeenCheck(t) == /\ ~Matched(t)
                       /\ tracked[t] = Null \/ DbFaults
MayFailSeenCheck(t) == Matched(t) \/ tracked[t] # Null

\* findByAssignedAddress: the newest open, unexpired deposit of the address.
OpenDeposits(a) == {d \in Deposits : /\ deposits[d].status \in {"PENDING", "CONFIRMED"}
                                     /\ deposits[d].assignedAddress = a
                                     /\ deposits[d].expiresAt > now}
IsNewestOpenDeposit(d, a) == /\ d \in OpenDeposits(a)
                             /\ \A e \in OpenDeposits(a) : e <= d

\* Mutant: transfers older than the deposit are accepted.
BeforeExpiry(t, d) == chain[t].at <= deposits[d].expiresAt

WithinWindow(t, d) == /\ chain[t].at >= deposits[d].createdAt
                      /\ chain[t].at <= deposits[d].expiresAt

\* Mutant: a deposit that already has a transaction is matched again.
MatchesAgain(t, a, d) == IsNewestOpenDeposit(d, a) /\ WithinWindow(t, d)

Matches(t, a, d) == /\ IsNewestOpenDeposit(d, a)
                    /\ deposits[d].txHash = Null
                    /\ WithinWindow(t, d)

MatchTransaction(w) ==
  /\ detector[w].pc = "match"
  /\ \E t \in detector[w].txs, d \in Deposits :
       /\ MayPassSeenCheck(t)
       /\ Matches(t, detector[w].address, d)
       /\ detector' = [detector EXCEPT ![w].pc = "update",
                                       ![w].txs = @ \ {t},
                                       ![w].tx = t,
                                       ![w].deposit = d]
  /\ UNCHANGED <<now, tables, chain, initiator, sweeper, cancel, restarts>>

SkipTransaction(w) ==
  /\ detector[w].pc = "match"
  /\ \E t \in detector[w].txs :
       /\ \/ MayFailSeenCheck(t)
          \/ ~ \E d \in Deposits : Matches(t, detector[w].address, d)
       /\ detector' = [detector EXCEPT ![w].txs = @ \ {t}]
  /\ UNCHANGED <<now, tables, chain, initiator, sweeper, cancel, restarts>>

\* Mutant: tx_hash has no unique index.
NoTxHashIndex(t, d) == FALSE

\* The unique index on tx_hash.
TxHashTaken(t, d) == \E e \in Deposits \ {d} : deposits[e].txHash = t

\* UPDATE deposits SET tx_hash, amount, CONFIRMED WHERE id: the status the
\* row has by now is not looked at.
UpdateDepositTransaction(w) ==
  LET t == detector[w].tx
      d == detector[w].deposit IN
  /\ detector[w].pc = "update"
  /\ \/ /\ ~TxHashTaken(t, d)
        /\ deposits' = [deposits EXCEPT ![d].txHash = t,
                                        ![d].status = "CONFIRMED"]
        /\ detector' = [detector EXCEPT ![w].pc = "track"]
     \/ /\ TxHashTaken(t, d) \/ DbFaults
        /\ detector' = [detector EXCEPT ![w].pc = "match",
                                        ![w].tx = Null, ![w].deposit = Null]
        /\ UNCHANGED deposits
  /\ UNCHANGED <<now, pool, tracked, chain, initiator, sweeper, cancel, restarts>>

\* An existing row is kept (unique index); any other error is only logged.
TrackProcessedTransaction(w) ==
  LET t == detector[w].tx IN
  /\ detector[w].pc = "track"
  /\ \/ tracked' = [tracked EXCEPT ![t] = IF @ = Null THEN detector[w].deposit ELSE @]
     \/ DbFaults /\ UNCHANGED tracked
  /\ detector' = [detector EXCEPT ![w].pc = "markUsed"]
  /\ UNCHANGED <<now, pool, deposits, chain, initiator, sweeper, cancel, restarts>>

MarkAddressAsUsed(w) ==
  /\ detector[w].pc = "markUsed"
  /\ \/ MarkRowUsed(detector[w].address)
     \/ DbFaults /\ UNCHANGED pool
  /\ detector' = [detector EXCEPT ![w].pc = "match",
                                  ![w].tx = Null, ![w].deposit = Null]
  /\ UNCHANGED <<now, deposits, tracked, chain, initiator, sweeper, cancel, restarts>>

NextAddress(w) ==
  /\ detector[w].pc = "match"
  /\ detector[w].txs = {}
  /\ detector' = [detector EXCEPT ![w] =
       IF @.addresses = {} THEN IdleDetector
       ELSE [@ EXCEPT !.pc = "scan", !.address = Null]]
  /\ UNCHANGED <<now, tables, chain, initiator, sweeper, cancel, restarts>>

(***************************************************************************)
(* Expiring deposits and recycling addresses.  Both loops work on lists    *)
(* read before their first update.                                         *)
(***************************************************************************)
ExpiredDeposits == {d \in Deposits : /\ deposits[d].status = "PENDING"
                                     /\ deposits[d].expiresAt < now}

StartExpirer(s) ==
  /\ s = "expirer"
  /\ sweeper[s].pc = "idle"
  /\ sweeper' = [sweeper EXCEPT ![s].pc = "expire",
                                ![s].deposits = ExpiredDeposits]
  /\ UNCHANGED <<now, tables, chain, initiator, detector, cancel, restarts>>

\* An error ends the run before it releases anything.
MarkAsExpired(s) ==
  /\ sweeper[s].pc = "expire"
  /\ \/ \E d \in sweeper[s].deposits :
          /\ deposits' = [deposits EXCEPT ![d].status = "EXPIRED"]
          /\ sweeper' = [sweeper EXCEPT ![s].deposits = @ \ {d}]
     \/ /\ DbFaults
        /\ sweeper[s].deposits # {}
        /\ sweeper' = [sweeper EXCEPT ![s] = IdleSweeper]
        /\ UNCHANGED deposits
  /\ UNCHANGED <<now, pool, tracked, chain, initiator, detector, cancel, restarts>>

\* releaseExpiredAssignments: the expirer calls it after its loop, the
\* maintenance job starts with it.
FindExpiredAssignments(s) ==
  /\ \/ sweeper[s].pc = "expire" /\ sweeper[s].deposits = {}
     \/ sweeper[s].pc = "idle" /\ s = "maintenance"
  /\ sweeper' = [sweeper EXCEPT ![s].pc = "release",
                                ![s].addresses = ExpiredAssignments]
  /\ UNCHANGED <<now, tables, chain, initiator, detector, cancel, restarts>>

ReleaseAddress(s) ==
  /\ sweeper[s].pc = "release"
  /\ \E a \in sweeper[s].addresses :
       /\ \/ ReleaseRow(a)
          \/ DbFaults /\ UNCHANGED pool
       /\ sweeper' = [sweeper EXCEPT ![s].addresses = @ \ {a}]
  /\ UNCHANGED <<now, deposits, tracked, chain, initiator, detector, cancel, restarts>>

EndSweep(s) ==
  /\ sweeper[s].pc = "release"
  /\ sweeper[s].addresses = {}
  /\ \/ s = "expirer" /\ UNCHANGED pool
     \/ s = "maintenance" /\ ResetCooledDownRows
     \/ DbFaults /\ UNCHANGED pool
  /\ sweeper' = [sweeper EXCEPT ![s] = IdleSweeper]
  /\ UNCHANGED <<now, deposits, tracked, chain, initiator, detector, cancel, restarts>>

(***************************************************************************)
(* Cancelling: the status is checked, the address released (an error there *)
(* is swallowed), and then DepositRepository.cancelDeposit is called, which*)
(* the class does not define: the call throws and the row is left alone.   *)
(***************************************************************************)
ReadForCancel(d) ==
  /\ d \in Cancellable
  /\ cancel[d].pc = "idle"
  /\ deposits[d].status = "PENDING"
  /\ cancel' = [cancel EXCEPT ![d] = [pc |-> "read",
                                      address |-> deposits[d].assignedAddress]]
  /\ UNCHANGED <<now, tables, chain, initiator, detector, sweeper, restarts>>

ReleaseAndThrow(d) ==
  /\ cancel[d].pc = "read"
  /\ \/ cancel[d].address # Null /\ ReleaseRow(cancel[d].address)
     \/ cancel[d].address = Null /\ UNCHANGED pool
     \/ DbFaults /\ UNCHANGED pool
  /\ cancel' = [cancel EXCEPT ![d].pc = "threw"]
  /\ UNCHANGED <<now, deposits, tracked, chain, initiator, detector, sweeper, restarts>>

(***************************************************************************)
(* A restart of the process loses every handler and run in flight.         *)
(***************************************************************************)
Crash ==
  /\ restarts < Crashes
  /\ restarts' = restarts + 1
  /\ initiator' = [d \in Deposits |->
       IF initiator[d].pc \in {"idle", "done"} THEN initiator[d]
       ELSE [initiator[d] EXCEPT !.pc = "failed"]]
  /\ detector' = [w \in Detectors |-> IdleDetector]
  /\ sweeper' = [s \in Sweepers |-> IdleSweeper]
  /\ cancel' = [d \in Deposits |-> IF cancel[d].pc = "read"
                                   THEN IdleCancel ELSE cancel[d]]
  /\ UNCHANGED <<now, tables, chain>>

Initiate(d) == \/ CreateDeposit(d)
               \/ PickAddress(d)
               \/ DiscardAddress(d)
               \/ AssignAddress(d)
               \/ UpdateDepositAddress(d)
               \/ FailInitiation(d)

Detect(w) == \/ StartDetection(w)
             \/ FetchTransactions(w)
             \/ MatchTransaction(w)
             \/ SkipTransaction(w)
             \/ UpdateDepositTransaction(w)
             \/ TrackProcessedTransaction(w)
             \/ MarkAddressAsUsed(w)
             \/ NextAddress(w)

Sweep(s) == \/ StartExpirer(s)
            \/ MarkAsExpired(s)
            \/ FindExpiredAssignments(s)
            \/ ReleaseAddress(s)
            \/ EndSweep(s)

Cancel(d) == ReadForCancel(d) \/ ReleaseAndThrow(d)

Next == \/ Tick
        \/ \E t \in Txs, a \in Addresses : Pay(t, a)
        \/ \E d \in Deposits : Initiate(d) \/ Cancel(d)
        \/ \E w \in Detectors : Detect(w)
        \/ \E w \in Detectors, t \in Txs : StartManual(w, t)
        \/ \E s \in Sweepers : Sweep(s)
        \/ Crash

Spec == Init /\ [][Next]_vars

(***************************************************************************)
(* Safety, for any number of overlapping runs, any fault and any crash.    *)
(***************************************************************************)
PaidInWindow(t, d) ==
  /\ OnChain(t)
  /\ chain[t].to = deposits[d].assignedAddress
  /\ chain[t].at \in deposits[d].createdAt .. deposits[d].expiresAt

\* A deposit is only ever confirmed by a transfer made to its own address
\* and inside its own window, although the address may have been recycled,
\* shared, or taken away while the detector was between two awaits
\* (the timestamp checks of detectAndMatchTransactions).
MatchedInWindow ==
  \A d \in Deposits : deposits[d].txHash # Null => PaidInWindow(deposits[d].txHash, d)

\* One transfer confirms at most one deposit, however many detector runs
\* saw it unmatched: the unique index on deposits.tx_hash decides.
OneDepositPerTx ==
  \A d, e \in Deposits : deposits[d].txHash # Null /\ deposits[d].txHash = deposits[e].txHash
                         => d = e

\* A row of processed_transactions names a deposit that this very transfer
\* paid for and that did receive a transfer.
TrackedWasMatched ==
  \A t \in Txs : tracked[t] # Null => /\ PaidInWindow(t, tracked[t])
                                     /\ deposits[tracked[t]].txHash # Null

\* What an ASSIGNED row says about its deposit agrees with what the deposit
\* says about its address, and no deposit holds two rows of the pool, even
\* when rows are overwritten by overlapping initiations and stale releases.
PoolAgreesWithDeposits ==
  \A a \in Addresses : LET d == pool[a].assignedToDepositId IN
    /\ (d # Null) <=> (pool[a].status = "ASSIGNED")
    /\ d # Null => /\ deposits[d].assignedAddress \in {Null, a}
                   /\ \A b \in Addresses : pool[b].assignedToDepositId = d => a = b

(***************************************************************************)
(* What the code and its documents promise.                                *)
(***************************************************************************)
\* "Unique TRON address assignment": two open deposits that still wait for
\* their payment never show their payers the same address.
UniqueOpenAddress ==
  \A a \in Addresses : \A d, e \in OpenDeposits(a) :
    deposits[d].txHash = Null /\ deposits[e].txHash = Null => d = e

(***************************************************************************)
(* What one detector run at a time adds: the check "deposit.txHash is not  *)
(* set" and the update that follows it three awaits later act as one.      *)
(***************************************************************************)
\* A confirmed payment is not overwritten by a second transfer to the same
\* address, whatever expiry, cancel and restart do in between.
PaymentNotOverwritten ==
  [][\A d \in Deposits : deposits[d].txHash # Null
                         => deposits'[d].txHash = deposits[d].txHash]_vars

(***************************************************************************)
(* Serial intake: one initiation in flight at a time.                      *)
(***************************************************************************)
Initiating == {d \in Deposits :
                 initiator[d].pc \in {"created", "dirty", "picked", "assigned"}}
OneInitiation == Cardinality(Initiating) <= 1
SerialNext == Next /\ OneInitiation'
SerialSpec == Init /\ [][SerialNext]_vars

(***************************************************************************)
(* Fairness: cron starts a detector run every 30 seconds whatever else     *)
(* happened, a run that started goes on, and TronGrid answers for every    *)
(* address again and again.  Nothing is assumed of clock, payers, users.   *)
(***************************************************************************)
AnsweredFetch(w, a) == /\ FetchTransactions(w)
                       /\ detector'[w].address = a
                       /\ detector'[w].txs = TransfersTo(a)

FairSpec == /\ SerialSpec
            /\ \A w \in Detectors : /\ WF_vars(Detect(w))
                                    /\ SF_vars(StartDetection(w))
            /\ \A w \in Detectors, a \in Addresses : SF_vars(AnsweredFetch(w, a))

Awaited(t, d) == /\ deposits[d].status = "PENDING"
                 /\ PaidInWindow(t, d)
                 /\ ~Matched(t)

\* A payment made in time is noticed as long as the window of its deposit
\* stays open.
PaymentNoticed ==
  \A d \in Deposits, t \in Txs :
    Awaited(t, d) ~> \/ deposits[d].txHash # Null \/ Matched(t)
                     \/ deposits[d].expiresAt <= now

\* "Send exactly ... within 3 hours": a payment made in time is noticed.
OnTimePaymentConfirmed ==
  \A d \in Deposits, t \in Txs :
    Awaited(t, d) ~> deposits[d].txHash # Null \/ Matched(t)
=============================================================================
