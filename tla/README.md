# Gas Saver: verification project

TLA+ models of the energy broker API in this repository, the TLC runs that
check them on small instances, and TLAPS proofs for every value of the
constants. Paths below are relative to the root of the repository.

## 1. The system

Customers pay USDT on TRON and get energy for their transactions delegated by
the operator. There are two products: V1 packages (a deposit buys N
transactions, energy is kept up on the customer's wallet by background jobs)
and V2 credits (a topup buys credits, each API call costs one credit and
delegates energy once). One node process serves HTTP (Express) and runs the
cron jobs; state is in PostgreSQL through Prisma (READ COMMITTED, no explicit
row locks) and on the TRON chain.

### Components, state and operations

| component | state | operations | modelled in |
|---|---|---|---|
| address pool (`services/address-pool.service.ts`, `modules/deposit/address-pool.repository.ts`) | `address_pool`: FREE / ASSIGNED / USED, deposit, expiry, last use | find free, assign, mark used, find expired, release, reset after cooldown | `AddressPool` |
| deposit intake (`modules/deposit/deposit.service.ts`, V2 topup service) | `deposits`, `processed_transactions` | initiate, detect and match, process by hash, expire, cancel | `DepositIntake` |
| deposit crediting (`processConfirmedDeposits`) | `deposits`, `users.credits`, `users.v2_credits`, `energy_deliveries`, `user_energy_states`, `v2_credit_ledger` | credit energy deposit, credit topup, fix `balanceAfter`, mark failed; change of recipient; expirer | `DepositCrediting`, `DepositGrants` |
| V2 energy requests (`modules/v2/energy`) | `v2_energy_requests`, `users.v2_credits`, ledger | look up key, create, deduct, delegate, complete, refund, fail | `EnergyRequests`, `CreditAccount` |
| V2 reclaim (`services/v2-energy-reclaim.service.ts`) | `energyReclaimedAt`, energy on chain | one cycle every 15 minutes | `EnergyRequests` |
| energy service (`services/energy.service.ts`) | energy on chain, `transactions` | `transferEnergyDirect`, `reclaimAllEnergyFromAddress`, calculations | outcomes only, in `EnergyRequests` and `EnergyUpkeep` |
| simplified monitor (`services/energy-monitor-simplified.service.ts`) | `user_energy_states`, `energy_deliveries`, energy on chain, `isRunning` | one cycle a minute: fine, reclaim, delegate, charge, book | `EnergyUpkeep` |
| usage tracker (`services/transaction-usage-tracker.service.ts`) | the same rows, `lastTxCheckTimestamp` | search for USDT transfers, charge, book; audit of one address | `EnergyUpkeep` |
| final reclaim (`services/final-energy-reclaim.service.ts`) | `finalReclaimCompleted`, energy on chain | one cycle every 15 minutes | `EnergyUpkeep` |
| TRON address book (`modules/tron-address`) | `user_tron_addresses` | add, update, delete, set primary | `AddressBook` |
| energy rates (`modules/energy-rate`, `modules/admin/energy-rate.controller.ts`) | `energy_rates`, one cache per service instance | create, update, current rate, clear cache; thresholds and rate of the admin | `EnergyRates` |
| administration (`modules/admin`) | the tables above | suspend, resume, set count (`EnergyUpkeep`), rates (`EnergyRates`); queries, manual deposit edits | partly |
| users, one-time passwords, V2 login, API keys | `users`, codes, keys | register, verify, issue, revoke | not modelled |
| pricing, chain and network parameters, audit logs, notifications, packages, feedback | caches, logs, CRUD tables | only `refreshPrices`, in `EnergyRates` | not modelled |

### How they interact

`initiateDeposit` takes an address from the pool; the detector reads the pool,
asks TronGrid, confirms deposits and retires addresses; the expirer and the
hourly maintenance job give addresses back; the processor turns CONFIRMED
deposits into credits, deliveries and energy states; `delegateEnergy` spends
the V2 credits; the reclaim jobs take energy back. They share nothing but the
tables: nobody calls anybody back, and every UPDATE names its row by id (or by
address) and does not look at the state the row has when it runs.

The processor's energy deposits add to `user_energy_states.transactionsRemaining`
and to `energy_deliveries`; the monitor and the tracker take from both, each
with an absolute number computed from a list it read at its start; the final
reclaim acts when the count is 0; administrators suspend, resume and overwrite.
Initiating a deposit also adds its recipient to the address book. Deposits,
prices and delegations ask one `EnergyRateService` for the rate in force, whose
cache only `refreshPrices` clears; the routes change the rates through another
instance, and the admin controller through none.

### What is hard

* Every `await` lets all other handlers and jobs in. `scheduleJob`
  (`src/services/cron.service.ts:102`) does not look whether the last run of a
  job ended, and `/deposits/detect`, `/deposits/process` and
  `/deposits/process-transaction` start runs by hand, so a job overlaps itself.
* Jobs work on lists they read before their first update.
* Operations are sequences of statements without a transaction. A statement may
  fail, and `gracefulShutdown` exits after one second at the latest
  (`src/server.ts:56`), so a restart may fall between any two.
* TronGrid may not answer, an address may be paid late, twice or by an earlier
  user of it, and a customer may repeat a call while the first is in progress.
* The count of transactions left has four writers that compute it from rows they
  read seconds before, with remote calls in between.
* A cache is filled by queries that may be older than the clearing they overlap.

### What makes each component correct

* Pool and intake: a deposit is confirmed only by a payment to its address in
  its window; a payment confirms one deposit; it is not replaced later; two
  payers do not see one address; payments in time are noticed.
* Crediting: what users own is the sum of what their deposits bought, each
  counted once, and a confirmed deposit is settled.
* Requests: a key is charged at most once; final statuses tell the truth about
  the money; the balance is what the ledger says; reclaiming takes back what the
  request delegated, no more.
* Energy upkeep: nobody ever has more transactions left than were bought, by
  whatever lost update; the deliveries are never overbooked; an address that is
  finally reclaimed has nothing left; a day costs one fine; an active address is
  refilled, and an empty one gives its energy back.
* Address book: one primary address, a limit, and never an empty book, as far as
  requests run alone, and by how much they fail where they do not.
* Energy rates: one rate is in force, it is the newest, and everybody sees it
  within the lifetime of the cache.

## 2. Modules

| module | what it is |
|---|---|
| `AddressPool` | rows of the pool; one operator per repository statement |
| `DepositIntake` | extends it: initiations, detectors, sweepers, cancel requests, clock, chain, restarts |
| `DepositCrediting` | runs of `processConfirmedDeposits` and the other writers of a deposit row |
| `DepositGrants` | abstract: a deposit is granted at most once, and whole |
| `EnergyRequests` | simultaneous `delegateEnergy` calls of one customer and the reclaim cycle |
| `CreditAccount` | abstract: a credit is held once per key, then spent or returned |
| `EnergyUpkeep` | monitor, usage trackers, final reclaim, recharges, administrators and the owners of addresses, on the energy state and its deliveries |
| `AddressBook` | overlapping requests of one user about the address book |
| `EnergyRates` | requests that change rates, and readers of a cached rate |
| `MCIntake`, `MCCrediting`, `MCRequests`, `MCUpkeep`, `MCAddressBook`, `MCRates` | instances for TLC |
| `DepositIntakeProofs`, `DepositCreditingProofs`, `EnergyRequestsProofs`, `EnergyUpkeepProofs`, `UpkeepSerialProofs`, `AddressBookProofs`, `EnergyRatesProofs` | theorems |
| `SumTheorems` | lemmas about sums over finite sets |

Conventions. A process of the models is a handler or a job run; `pc` says which
statement it executes next and its other fields are the local variables that
survive an `await`. An action is what happens between two awaits, at most one
database statement; a Prisma transaction that first updates the row of its user
is one step (the row lock serialises it with every other one of that user), and
`deductCreditAndCreateLedger`, which first *reads* it, is two. `DbFaults` lets a
statement fail wherever the code survives that, and the action says what the
code does then. `Crash` empties the local variables and keeps the tables.
Identifiers are numbers in creation order where the code orders by `createdAt`.
Definitions named in a comment `Mutant:`, or standing before the definition whose
name they extend (`FullLate` before `Full`), are slips a change of the code could
introduce; they are used by no specification and serve to show that each
property would notice. `mutants` in `PROJECT.json` lists them.

Abstractions. Amounts only matter in crediting, in halves of a USDT. Time is a
counter; the window, the cooldown and the look-back of 24 hours are constants.
A TronGrid answer is the true list of transfers or nothing; a delegation or
reclaim is one of the outcomes `energy.service.ts` can return. A payer may send
to any address of the pool at any time. Packages are at most 500 transactions
and always have a recipient, because `initiateDeposit` refuses anything else,
so the branches of `processConfirmedDeposits` for other rows are left out.

In `EnergyUpkeep` energy is the number of transfers it covers, 0 to 2
(`DELEGATION_AMOUNT` covers two); a timestamp that starts a search is the number
of transfers made before it, and one whose age matters is that age in half days,
up to a day; `resting` is the cooldown of a minute. A delegation or reclaim
succeeds, fails, or is refused with nothing undelegated. `incidents` bounds how
often a run or statement fails or an administrator steps in. In `EnergyRates` a
rate is the number of the write that gave it its values, and a behaviour follows
the cache of one of the two service instances, chosen at the start: they share
nothing but the table.

## 3. Runs

| run | instance | shows |
|---|---|---|
| `intake_overlap` | 1 address, 2 deposits, 1 transfer, window 1, clock to 3, 2 overlapping detectors, both sweepers, faults | `MatchedInWindow`, `OneDepositPerTx`, `TrackedWasMatched`, `PoolAgreesWithDeposits` |
| `intake_restart` | 1 address, 2 deposits, 2 transfers, window 1, clock to 2, 1 detector, both sweepers, a cancel request, faults and 1 restart | `TypeOK`, `PaymentNotOverwritten` |
| `intake_live` | 2 addresses, 3 deposits, 1 transfer, window 2, clock to 3, expirer, serial initiations, fair | `UniqueOpenAddress`, `PaymentNoticed` |
| `requests_safety` | 4 calls, 2 keys, 1 wallet, 2 topups, faults, 1 restart | `TypeOK`, `ChargedOncePerKey`, `FinalStatusMatchesCharge`, `BalanceMatchesLedger`, refinement of `CreditAccount` |
| `requests_live` | 3 calls, no fault or restart, fair | `EnergyKept`, `RequestSettles` |
| `crediting_single` | 3 deposits (2 energy, 1 topup), 2 users, 1 run, faults, 1 restart, fair | `TypeOK`, refinement of `DepositGrants`, `ConfirmedIsSettled` |
| `crediting_overlap` | the same with 2 overlapping runs and the expirer | `DeliveriesMatchBalances`, `LedgerMatchesBalance` |
| `upkeep_overlap` | 1 address, 1 tracker, monitor, final reclaim, 2 purchases, 1 transfer, 1 incident, everything overlapping | `TypeOK`, `NeverMoreThanBought`, `DeliveredWithinTotal` |
| `upkeep_serial` | the same without overlap, larger purchases, a count set by an administrator, audits, energy used elsewhere, fair | `CountWithinDeliveries`, `FinalDoneMeansEmpty`, `FinePerDay`, `OnlyPurchasesRaise`, `LowEnergyRefilled`, `EmptyReclaimed` |
| `address_book` | 2 requests, limit 2, 4 addresses, 5 ids, failures | `TypeOK`, `PrimariesBounded`, `LimitBounded`, `PrimaryKept`, `LastStays` |
| `energy_rates` | 2 requests, 2 readers, 3 writes, cache of 2 minutes, queries of 1, failures and restarts | `TypeOK`, `AnswersFresh`, `ClearTakesHold`, `NewestInForce`, `OneActive` |
| `promise_confirmed_processed` | 1 run, expirer, fair, no fault | `ConfirmedIsSettled` fails |

Why the bounds are enough. One address and two deposits are what it takes for
every conflict about a row of the pool (shared, recycled, taken away), and two
transfers for a payment that is late, repeated or meant for somebody else; with
a window of one tick, a row assigned at tick 1 can be released, or used and
cooled down, and be handed out again by tick 2, and its deposit expires at tick
3: `intake_overlap` goes that far, with the one transfer that its properties
follow through two detectors. `intake_restart` stops at tick 2 to afford the
second transfer, the cancel request and the restart. Two detectors and two
processors are enough for every pairwise race of two runs;
four calls with two keys have both two calls with one key and two keys that
compete for one credit. The conflicts of `EnergyUpkeep` are about the row and
the deliveries of one address, and every statement names its address; two
purchases are one that is under way while another is used, and two half days are
one inactive day. `upkeep_overlap` has one tracker beside the monitor, which reads and
writes in the same way; with two trackers the properties hold as well (7.1
million states without half days, `MaxHalfDays = 0`, `Trackers = {t1, t2}` with
symmetry), and the theorems are about any number. `upkeep_serial` has one incident,
because two in one cycle let a count rise that nobody bought: the log row of a fine
fails after the fine was written, the address is treated as not fined, its
verification fails as well, and the cycle writes back the count it had read before
the fine. Two requests
about the address book or the rates have every pair of operations in every order,
a limit of two is reached and exceeded, and three writes are an old rate, a new
one and one that overlaps. Three deposits have two of one user, two purposes and
two deposits that feed one energy address. The theorems of section 4 remove the
bounds of the properties they state.

Deadlock is not checked: the clock, payers, topups, restarts and the number of
deposits and calls are bounded, and the system stops when they are used up.

### Fairness

* `DepositIntake!FairSpec`: cron starts a detector run every 30 seconds whatever
  happened to the last one (strong fairness of the start, weak fairness of a
  started run), and TronGrid answers for every address infinitely often (strong
  fairness of an answered fetch). Clock, payers, users and sweepers get none.
  It is stated of serial initiations, because two payers who are shown one
  address cannot both be noticed. `PaymentNoticed` is limited to the time the
  deposit is open; with recycled addresses and a second, stray transfer even
  that does not hold (`markAddressAsUsed` goes by the address and can retire a
  row that was assigned again), which is why the run has one transfer.
* `EnergyRequests!FairSpec`: a handler goes on, the reclaim job runs every 15
  minutes, and the chain does not refuse to be read for one wallet for ever
  (strong fairness of the reclaim of a key).
* `DepositCrediting!FairSpec`: cron starts a run every minute and a run goes on;
  marking a deposit FAILED does not fail for ever (strong fairness).
* `EnergyUpkeep!LiveSpec`: a run that was started goes on (weak fairness of its
  steps), the cooldown of a minute ends, and cron starts the monitor every minute
  and the final reclaim every 15 (strong fairness, because without overlap a start
  waits for the runs under way). Trackers, purchases, administrators, owners and
  the half days get none. Failures are bounded by `Incidents`, so they do not go
  on for ever.

### Divergences between code and documents

`promise_confirmed_processed` is the finding of `PROJECT.json`. The following are
not runs of their own, but each has a property in its module, and a cfg that lists
the property shows the counterexample:

* `UniqueOpenAddress` in `intake_overlap`: two initiations read the same FREE row
  before either marks it (`address-pool.repository.ts:42` updates by id alone), and
  both payers see one address; `deposit.controller.ts:453` says "Unique TRON address
  assignment from address pool".
* `OnTimePaymentConfirmed` in `intake_live`: a transfer is matched only if the
  deposit is unexpired when the detector looks (`deposit.service.ts:343`), so a
  payment at the end of the window is lost; `topup.service.ts:54` tells the payer
  to send "within 3 hours".
* `NeverOverdrawn` in `requests_safety`: the balance is read without a lock and
  decremented unconditionally (`v2-energy.repository.ts:59`);
  `docs/v2-delivery-plan.md:106` says "Deduct 1 credit atomically (SELECT FOR
  UPDATE)".
* `CreditsWithinPayments` in `crediting_overlap`: overlapping runs credit a topup
  twice (`deposit.service.ts:508`); `docs/v2-delivery-plan.md:60` says "1 USDT = 1
  credit = 1 energy delegation".
* `UseExplained` in `upkeep_serial`: when no transfer is found the monitor charges
  by the energy that is missing (`energy-monitor-simplified.service.ts:729`),
  although line 695 says "BLOCKCHAIN VERIFICATION - THE ONLY SOURCE OF TRUTH" and
  "Only decrement transactions if we can verify actual USDT transfers"
  (`cron.service.ts:41` says the same). Energy spent on another contract call is
  charged as two transfers.

Others follow from the same models:

* `ENERGY_RATE_API.md:101` says "Cache is automatically cleared when rates are
  updated". The routes clear the cache of their own instance
  (`energy-rate.routes.ts:12`), which deposits, prices and delegations do not use
  (`energy-rate/index.ts:12`), and `admin/energy-rate.controller.ts` clears none:
  a changed rate takes up to five minutes. Fields an admin update does not name
  are copied from a row it read before, and if the insert fails after the old row
  was deactivated no rate is in force, or an older one is.
* Overlapping requests leave two primary addresses, eleven addresses, or an empty
  book, while `tron-address.service.ts:214` says "Don't allow deletion of the last
  address".
* A purchase between the final reclaim and its mark
  (`final-energy-reclaim.service.ts:245`) is marked as reclaimed with its
  transactions left: `FinalDoneMeansEmpty` fails with `Overlap = TRUE`. So does
  `OnlyPurchasesRaise`: a worker writes back a count it read before another
  charged it, and a purchase in between is lost. Without overlap it still takes two
  failures in one run of the monitor: a fine whose log cannot be written leaves the
  address as not fined (`energy-monitor-simplified.service.ts:201`), and if the
  search for its transfers then fails too, the count of the list is written, with
  the transaction the fine had taken.
* `cancelDeposit` (`src/modules/deposit/deposit.service.ts:1381`) calls
  `depositRepository.cancelDeposit`, which the class does not define: the address
  is released, the call throws, the deposit stays PENDING
  (`docs/DEPOSIT_CANCELLATION.md` promises CANCELLED).
* A sweep frees addresses from the list it read at its start, also one that was
  assigned again since (`src/services/address-pool.service.ts:154`).
* `delegateEnergy` refunds the credit when an update *after* a successful
  delegation fails (`v2-energy.service.ts:140`), answers a repeated key with
  whatever status the row has, and answers a server error when both calls passed
  the lookup (`docs/v2-delivery-plan.md:191`: "same response").
* The V2 reclaim marks a request reclaimed whatever was undelegated
  (`v2-energy-reclaim.service.ts:57`).
* A topup is floored to whole credits while `topup.service.ts:52` promises
  `creditsToReceive: dto.amount`.
* A topup whose `balanceAfter` update fails is marked FAILED after it was
  credited (`deposit.service.ts:726`), and the recipient of a deposit can change
  after it was processed (`deposit.service.ts:1300`).
* With two overlapping detector runs a recorded payment *can* be replaced by a
  second transfer, and even a PROCESSED deposit become CONFIRMED again;
  `PaymentNotOverwritten` is stated of one run at a time.

## 4. Proofs

`tlapm` checks the seven proof modules, and the lemmas of `SumTheorems` that they
share, to the last leaf. The theorems hold for any set of calls, runs, users and
keys and any bounds, from the named assumptions on the constants
(`PoolAssumption`, `IntakeAssumption`, `RequestsAssumption`,
`CreditingAssumption`, `UpkeepAssumption`, `BookAssumption`, `RatesAssumption`),
which only say what type a constant has (that of crediting also that deposits,
the last two that requests, and ids of the book, are finite) and which TLC
evaluates in every run. A theorem that needs more of the instance says so in its
statement.

* `SumTheorems`. What `SumFunctionOnSet` of the community modules yields: the sum
  over a finite set does not depend on the order the elements are taken in, it has
  the type of its summands, and adding, removing or changing one summand changes
  it by as much. The library defines the sum by choosing a recursive function, and
  induction principles cannot be instantiated here, so existence and independence
  of the order are proved through a smallest counterexample: a nonempty set of
  naturals has a least element (from the library's well-foundedness of `<`), so a
  nonempty set of finite sets has one with no proper subset in it.
* `EnergyRequestsProofs`. `TypeCorrect`; `NoDoubleCharge`
  (`ChargedOncePerKey`); `FinalStatusTruthful` (`FinalStatusMatchesCharge`);
  `RequestsImplementAccount` (every step maps to a step of `CreditAccount` or
  stutters). The properties are not inductive: they speak of the tables, and
  what a call is about to do depends on its `pc`. The invariant says, for every
  `pc`, what the row and the ledger of the call's key look like, and that two
  calls of one key are never both past the creation of the row; that is what the
  unique index gives and what carries every other step.
  `BalanceExplained` (`BalanceMatchesLedger`) adds that only finitely many keys
  have a ledger, which every step keeps even where keys are infinite, and compares
  the sets before and after a step. `WalletsKeepEnergy` (`EnergyKept`) assumes
  what its run assumes, `~DbFaults` and `Crashes = 0`: a row that could not be
  marked, or a run lost between TRON and the database, does undelegate the energy
  of another request of the wallet. Its invariant counts with the completed
  requests those whose delegation succeeded and whose row is not yet written, and
  leaves out the one whose energy the reclaim run has just taken back.
* `DepositIntakeProofs`. `TypeCorrect`; `ConfirmedByItsPayment`
  (`MatchedInWindow`); `OneDepositForATransfer` (`OneDepositPerTx`);
  `TrackingIsTruthful` (`TrackedWasMatched`); `OneRunKeepsPayments`
  (`PaymentNotOverwritten`, assuming at most one detector run); and
  `PoolIsConsistent` (`PoolAgreesWithDeposits`). The inductive invariant
  adds what a run holds in its local variables: the transfer a detector is about
  to write was paid to the address of its deposit and in its window, addresses and
  dates of a deposit do not change once set, and an address is linked to one
  initiation at a time. The check of the row precedes the write by several awaits,
  so it has to be carried as a fact about the detector.
  `OpenAddressIsUnique` (`UniqueOpenAddress` of `SerialSpec`) assumes that
  initiations do not overlap, that nobody cancels and that the expiry job is the
  only sweeper; faults and restarts are allowed. Without the first two the property
  is false (section 3). The invariant: an open deposit's address is its own in the
  pool, for at least as long as the deposit lives, or used; an address an initiation
  has picked, and one in the list of an expiry run, is no open deposit's.
* `DepositCreditingProofs`. `TypeCorrect`, and `CreditingImplementsGrants`
  (`ImplementsGrants`): with one run at a time, or with any number of runs if no
  deposit is a topup, crediting implements `DepositGrants`. The invariant: each
  purpose writes its own tables; a granted topup keeps `processedAt`, also when
  marked FAILED; among the rows a run has left only the one it has just credited
  is granted. An energy deposit needs none of this, the unique delivery row
  decides; the counterexample to `CreditsWithinPayments` shows that topups do.
  `DeliveriesExplainBalances` (`DeliveriesMatchBalances`) and
  `LedgerExplainsBalance` (`LedgerMatchesBalance`) hold for any overlap of runs and
  are inductive together with the types, by the laws of `SumTheorems`.
* `EnergyUpkeepProofs`. `TypeCorrect`; `CountsBounded` (`NeverMoreThanBought`);
  `DeliveriesBounded` (`DeliveredWithinTotal`); `FinesBounded` (`FinePerDay`).
  Counts, and copies of deliveries, are written from what a worker read long
  before, so the invariant says of everything a worker carries what the property
  says of the row: a list entry, and the count of a fine, is within what was bought,
  which only grows; a copied `delivered`, whose `total` never changes, leaves room
  for what is booked on it. `FinePerDay` bounds a fine's age by the half days
  since it.
* `UpkeepSerialProofs`, of runs, requests and edits that do not overlap (`~Overlap`),
  with any number of trackers, failures and restarts. `CountsWithinDeliveries`
  (`CountWithinDeliveries`) and `FinallyReclaimedIsEmpty` (`FinalDoneMeansEmpty`).
  Neither is inductive: a worker writes what it read many statements before. The
  invariant (`SerialInv`) says that one actor is at work, and of each number it
  carries that it may still be written: it is within what is open and the
  address is not given up (`Safe`). Once the row is lowered, row and what is left to
  book together are within what is open (`Covers`), and the copies of the
  deliveries are up to date; booking then takes from both sides, and a failure or a
  restart in between only leaves the row lower. What is open is a sum, handled by
  `SumTheorems`. `CountsOnlyBought` (`OnlyPurchasesRaise`) assumes `Incidents <= 1`
  besides, without which it is false (section 3). Its invariant (`FreshInv`) says
  how far a count that was read can be from the row: not at all for a tracker, by one
  for the monitor after a fine, which the charge of a fined address takes off again;
  a fine that failed half way leaves no failure for the search after it.
* `AddressBookProofs`. `PrimaryAddresses`, `AddressLimit`: the rows that are there
  and the requests that will still add one are counted together, a primary row that
  is about to be unset excepted. `PrimaryStays`, `LastAddress`: what a request that
  has met no other knows about the book between its statements.
* `EnergyRatesProofs`. `FreshAnswers`: age plus remaining lifetime is at most the
  lifetime and the time of a query, in the cache as in a reader's hands.
  `ClearingHolds`: a rate that may not come back is in nobody's hands.
  `NewestCounts`: a transaction only deactivates rows older than its own.
  `OneActiveRate`: a request that is alone knows the active rows.

Every invariant and action property that a run checks is stated by a theorem. Only
model-checked are the liveness properties (`PaymentNoticed`, `RequestSettles`,
`ConfirmedIsSettled`, `LowEnergyRefilled`, `EmptyReclaimed`): temporal proofs under
fairness, and ENABLED, are out of reach of the prover.

## 5. Plan

Done, in order of importance: (1) `AddressPool` and `DepositIntake`, (2)
`EnergyRequests` with `CreditAccount`, (3) `DepositCrediting` with
`DepositGrants`, (4) `EnergyUpkeep`, (5) `AddressBook`, (6) `EnergyRates`, each
with its proofs.

To do:

1. Composition of intake and crediting in one module (the detector as the real
   `Confirm` of `DepositCrediting`), and its refinement.
2. A bounded V2 reclaim cycle (`MAX_PER_CYCLE`), to look at starvation.
3. One-time passwords and V2 login: login, registration and reset codes share one
   column of a user; attempts, expiry, single use.
4. Proof that one topup run at a time credits no more than was paid
   (`CreditsWithinPayments`, which two overlapping runs violate).

### Not modelled

Pricing and network parameters are floating-point formulas over chain data.
Logging, notifications, packages and feedback are I/O or single statements on
tables of their own. The legacy monitors (`energy-monitor.service.ts`,
`energy-usage-monitor.service.ts`) are imported by nobody, and the scripts are run
by hand. Left out of modelled parts, though a team should know of them: a partial
update of a rate can make `minEnergy` greater than `maxEnergy`
(`energy-rate.service.ts:125`); the monitor caches its thresholds as long as the
process lives (`energy-monitor-simplified.service.ts:93`); a deposit adds its
recipient as not primary (`deposit.service.ts:151`), so a user who starts with one
has no primary address.
