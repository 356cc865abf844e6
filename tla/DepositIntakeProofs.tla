------------------------- MODULE DepositIntakeProofs -------------------------
(***************************************************************************)
(* Proofs about module DepositIntake, for any pool, any deposits, payments *)
(* and detector runs, whatever is recycled, cancelled, lost or restarted.  *)
(***************************************************************************)
EXTENDS DepositIntake, FiniteSetTheorems, TLAPS

USE PoolAssumption, IntakeAssumption DEF tables, memory

(***************************************************************************)
(* Types.                                                                  *)
(***************************************************************************)
PoolTable == [Addresses -> PoolRow]
DepositTable == [Deposits -> DepositRow]
InitiatorTable == [Deposits -> InitiatorState]
DetectorTable == [Detectors -> DetectorState]
SweeperTable == [Sweepers -> SweeperState]
CancelTable == [Deposits -> CancelState]

LEMMA NullFacts == Null \notin Addresses /\ Null \notin Deposits /\ Null \notin Txs
                   /\ Null \in Time /\ Window \in Time
BY DEF Null, Addresses, Deposits, Txs, Time

\* A handler that found an address in use has attempts left.
AttemptsLeft == \A d \in Deposits :
  initiator[d].pc = "dirty" => initiator[d].attempts < MaxAttempts

\* Every statement on the pool writes well-typed rows.
LEMMA PoolStatements ==
  ASSUME pool \in PoolTable, now \in Time
  PROVE  /\ \A a, d : d \in Deposits /\ AssignRow(a, d) => pool' \in PoolTable
         /\ \A a : ReleaseRow(a) => pool' \in PoolTable
         /\ \A a : MarkRowUsed(a) => pool' \in PoolTable
         /\ ResetCooledDownRows => pool' \in PoolTable
<1>1. now + Window \in Time
  BY DEF Time
<1>2. ASSUME NEW row \in PoolRow
      PROVE  /\ \A d \in Deposits :
                  [row EXCEPT !.status = "ASSIGNED", !.assignedToDepositId = d,
                              !.expiresAt = now + Window] \in PoolRow
             /\ [row EXCEPT !.status = "FREE", !.assignedToDepositId = Null,
                            !.expiresAt = Null] \in PoolRow
  BY <1>1, NullFacts DEF PoolRow, AddressStatus
<1>3. [status |-> "USED", assignedToDepositId |-> Null, expiresAt |-> Null,
       lastUsedAt |-> now] \in PoolRow
  BY NullFacts DEF PoolRow, AddressStatus
<1>4. ASSUME NEW a, NEW d \in Deposits, AssignRow(a, d)
      PROVE  pool' \in PoolTable
  <2> DEFINE row == [pool[a] EXCEPT !.status = "ASSIGNED", !.assignedToDepositId = d,
                                    !.expiresAt = now + Window]
  <2>1. pool' = [pool EXCEPT ![a] = row] /\ (a \in Addresses => row \in PoolRow)
    BY <1>2, <1>4 DEF AssignRow, PoolTable
  <2> HIDE DEF row
  <2> QED
    BY <2>1 DEF PoolTable
<1>5. ASSUME NEW a, ReleaseRow(a)
      PROVE  pool' \in PoolTable
  <2> DEFINE row == [pool[a] EXCEPT !.status = "FREE", !.assignedToDepositId = Null,
                                    !.expiresAt = Null]
  <2>1. pool' = [pool EXCEPT ![a] = row] /\ (a \in Addresses => row \in PoolRow)
    BY <1>2, <1>5 DEF ReleaseRow, PoolTable
  <2> HIDE DEF row
  <2> QED
    BY <2>1 DEF PoolTable
<1>6. \A a : MarkRowUsed(a) => pool' \in PoolTable
  BY <1>3 DEF MarkRowUsed, PoolTable
<1>7. ResetCooledDownRows => pool' \in PoolTable
  BY NullFacts DEF ResetCooledDownRows, PoolTable, PoolRow, AddressStatus
<1> QED
  BY <1>4, <1>5, <1>6, <1>7

LEMMA TypeInit == Init => TypeOK
<1>1. SUFFICES ASSUME Init PROVE TypeOK
  OBVIOUS
<1>2. PoolTypeOK
  BY <1>1, NullFacts DEF Init, PoolInit, PoolTypeOK, FreshRow, PoolRow, AddressStatus, Time
<1>3. NoDeposit \in DepositRow
  BY NullFacts DEF NoDeposit, DepositRow, DepositStatus
<1>4. IdleInitiator \in InitiatorState /\ IdleDetector \in DetectorState
  BY NullFacts DEF IdleInitiator, InitiatorState, IdleDetector, DetectorState
<1>5. IdleSweeper \in SweeperState /\ IdleCancel \in CancelState
  BY DEF IdleSweeper, SweeperState, IdleCancel, CancelState
<1> QED
  BY <1>1, <1>2, <1>3, <1>4, <1>5, NullFacts DEF Init, TypeOK, Transfer

(***************************************************************************)
(* What each process leaves alone.                                         *)
(***************************************************************************)
Recycles == \/ \E a : ReleaseRow(a) \/ MarkRowUsed(a)
            \/ ResetCooledDownRows

LEMMA InitiateFrame ==
  ASSUME NEW d \in Deposits, Initiate(d)
  PROVE  /\ UNCHANGED <<now, tracked, chain, detector, sweeper, cancel, restarts>>
         /\ UNCHANGED pool \/ Recycles \/ AssignAddress(d)
BY DEF Initiate, CreateDeposit, PickAddress, DiscardAddress, AssignAddress,
       UpdateDepositAddress, FailInitiation, Recycles

LEMMA DetectFrame ==
  ASSUME NEW w, Detect(w) \/ \E t \in Txs : StartManual(w, t)
  PROVE  /\ UNCHANGED <<now, chain, initiator, sweeper, cancel, restarts>>
         /\ UNCHANGED pool \/ Recycles
         /\ UNCHANGED deposits \/ UpdateDepositTransaction(w)
         /\ UNCHANGED tracked \/ TrackProcessedTransaction(w)
BY DEF Detect, StartDetection, FetchTransactions, StartManual, MatchTransaction,
       SkipTransaction, UpdateDepositTransaction, TrackProcessedTransaction,
       MarkAddressAsUsed, NextAddress, Recycles

LEMMA SweepFrame ==
  ASSUME NEW s, Sweep(s)
  PROVE  /\ UNCHANGED <<now, tracked, chain, initiator, detector, cancel, restarts>>
         /\ UNCHANGED pool \/ Recycles
         /\ UNCHANGED deposits \/ MarkAsExpired(s)
BY DEF Sweep, StartExpirer, MarkAsExpired, FindExpiredAssignments, ReleaseAddress,
       EndSweep, Recycles

LEMMA CancelFrame ==
  ASSUME NEW d, Cancel(d)
  PROVE  /\ UNCHANGED <<now, deposits, tracked, chain, initiator, detector, sweeper, restarts>>
         /\ UNCHANGED pool \/ Recycles
BY DEF Cancel, ReadForCancel, ReleaseAndThrow, Recycles

(***************************************************************************)
(* Types of the tables and of the local variables.                         *)
(***************************************************************************)
LEMMA DetectorTypes ==
  ASSUME TypeOK, NEW w \in Detectors, Detect(w)
  PROVE  detector' \in DetectorTable
<1>0. detector \in DetectorTable /\ detector[w] \in DetectorState
  BY DEF TypeOK, DetectorTable
<1>1. CASE StartDetection(w)
  <2>1. AssignedAddresses \subseteq Addresses
    BY DEF AssignedAddresses
  <2> QED
    BY <1>0, <1>1, <2>1 DEF StartDetection, DetectorState, DetectorTable
<1>2. CASE FetchTransactions(w)
  <2>1. \A a \in Addresses : TransfersTo(a) \subseteq Txs
    BY DEF TransfersTo
  <2> QED
    BY <1>0, <1>2, <2>1 DEF FetchTransactions, DetectorState, DetectorTable
<1>3. CASE MatchTransaction(w)
    BY <1>0, <1>3 DEF MatchTransaction, DetectorState, DetectorTable
<1>4. CASE SkipTransaction(w)
    BY <1>0, <1>4 DEF SkipTransaction, DetectorState, DetectorTable
<1>5. CASE UpdateDepositTransaction(w)
    BY <1>0, <1>5, NullFacts DEF UpdateDepositTransaction, DetectorState, DetectorTable
<1>6. CASE TrackProcessedTransaction(w)
    BY <1>0, <1>6 DEF TrackProcessedTransaction, DetectorState, DetectorTable
<1>7. CASE MarkAddressAsUsed(w)
    BY <1>0, <1>7, NullFacts DEF MarkAddressAsUsed, DetectorState, DetectorTable
<1>8. CASE NextAddress(w)
    BY <1>0, <1>8, NullFacts DEF NextAddress, DetectorState, DetectorTable, IdleDetector
<1> QED
  BY <1>1, <1>2, <1>3, <1>4, <1>5, <1>6, <1>7, <1>8 DEF Detect

LEMMA InitiatorTypes ==
  ASSUME TypeOK, AttemptsLeft, NEW d \in Deposits, Initiate(d)
  PROVE  initiator' \in InitiatorTable /\ AttemptsLeft'
<1>0. initiator \in InitiatorTable /\ initiator[d] \in InitiatorState
  BY DEF TypeOK, InitiatorTable
<1>1. CASE CreateDeposit(d)
  BY <1>0, <1>1 DEF CreateDeposit, AttemptsLeft, InitiatorState, InitiatorTable
<1>2. CASE PickAddress(d)
  <2>1. ASSUME initiator' = [initiator EXCEPT ![d].pc = "failed"]
        PROVE  initiator' \in InitiatorTable /\ AttemptsLeft'
    BY <1>0, <2>1 DEF AttemptsLeft, InitiatorState, InitiatorTable
  <2>2. ASSUME initiator[d].attempts < MaxAttempts,
               NEW a \in Addresses, NEW verdict \in {"dirty", "picked"},
               initiator' = [initiator EXCEPT ![d].pc = verdict, ![d].address = a]
        PROVE  initiator' \in InitiatorTable /\ AttemptsLeft'
    <3>1. initiator'[d] = [pc |-> verdict, address |-> a, attempts |-> initiator[d].attempts]
      BY <1>0, <2>2 DEF InitiatorTable, InitiatorState
    <3>2. initiator'[d] \in InitiatorState /\ initiator'[d].attempts < MaxAttempts
      BY <1>0, <2>2, <3>1 DEF InitiatorState
    <3>3. \A e \in Deposits \ {d} : initiator'[e] = initiator[e]
      BY <1>0, <2>2 DEF InitiatorTable
    <3>4. initiator' \in InitiatorTable
      BY <1>0, <2>2, <3>2, <3>3 DEF InitiatorTable
    <3> QED
      BY <3>2, <3>3, <3>4 DEF AttemptsLeft
  <2> QED
    BY <1>2, <2>1, <2>2 DEF PickAddress
<1>3. CASE DiscardAddress(d)
  BY <1>0, <1>3, NullFacts DEF DiscardAddress, AttemptsLeft, InitiatorState, InitiatorTable
<1>4. CASE AssignAddress(d)
  BY <1>0, <1>4 DEF AssignAddress, AttemptsLeft, InitiatorState, InitiatorTable
<1>5. CASE UpdateDepositAddress(d)
  BY <1>0, <1>5 DEF UpdateDepositAddress, AttemptsLeft, InitiatorState, InitiatorTable
<1>6. CASE FailInitiation(d)
  BY <1>0, <1>6 DEF FailInitiation, AttemptsLeft, InitiatorState, InitiatorTable
<1> QED
  BY <1>1, <1>2, <1>3, <1>4, <1>5, <1>6 DEF Initiate

LEMMA DepositTypes ==
  ASSUME TypeOK, [Next]_vars
  PROVE  deposits' \in DepositTable
<1>0. deposits \in DepositTable /\ now \in Time /\ now + Window \in Time
  BY DEF TypeOK, DepositTable, PoolTypeOK, Time
<1>1. ASSUME NEW d \in Deposits, CreateDeposit(d)
      PROVE  deposits' \in DepositTable
  BY <1>0, <1>1, NullFacts DEF CreateDeposit, DepositRow, DepositStatus, DepositTable
<1>2. ASSUME NEW d \in Deposits, UpdateDepositAddress(d)
      PROVE  deposits' \in DepositTable
  <2>1. initiator[d].address \in Addresses \cup {Null}
    BY DEF TypeOK, InitiatorState
  <2> QED
    BY <1>0, <1>2, <2>1 DEF UpdateDepositAddress, DepositRow, DepositTable
<1>3. ASSUME NEW w \in Detectors, UpdateDepositTransaction(w)
      PROVE  deposits' \in DepositTable
  <2>1. detector[w].tx \in Txs \cup {Null}
    BY DEF TypeOK, DetectorState
  <2> QED
    BY <1>0, <1>3, <2>1 DEF UpdateDepositTransaction, DepositRow, DepositStatus, DepositTable
<1>4. ASSUME NEW s \in Sweepers, MarkAsExpired(s)
      PROVE  deposits' \in DepositTable
  BY <1>0, <1>4 DEF MarkAsExpired, DepositRow, DepositStatus, DepositTable
<1>5. CASE deposits' = deposits
  BY <1>0, <1>5
<1> QED
  <2>1. \/ UNCHANGED deposits
        \/ \E d \in Deposits : Initiate(d)
        \/ \E w \in Detectors : UpdateDepositTransaction(w)
        \/ \E s \in Sweepers : MarkAsExpired(s)
    BY DetectFrame, SweepFrame, CancelFrame DEF Next, Tick, Pay, Crash, vars
  <2>2. \A d \in Deposits : Initiate(d) => \/ UNCHANGED deposits
                                          \/ CreateDeposit(d)
                                          \/ UpdateDepositAddress(d)
    BY DEF Initiate, PickAddress, DiscardAddress, AssignAddress, FailInitiation
  <2> QED
    BY <1>1, <1>2, <1>3, <1>4, <1>5, <2>1, <2>2

LEMMA PoolTypes ==
  ASSUME TypeOK, [Next]_vars
  PROVE  PoolTypeOK'
<1>0. pool \in PoolTable /\ now \in Time
  BY DEF TypeOK, PoolTypeOK, PoolTable
<1>1. /\ now' \in {now, now + 1}
      /\ UNCHANGED pool \/ Recycles \/ \E d \in Deposits : AssignAddress(d)
  BY InitiateFrame, DetectFrame, SweepFrame, CancelFrame DEF Next, Tick, Pay, Crash, vars
<1>2. pool' \in PoolTable
  BY <1>0, <1>1, PoolStatements DEF Recycles, AssignAddress
<1> QED
  BY <1>0, <1>1, <1>2 DEF PoolTypeOK, PoolTable, Time

LEMMA SweeperTypes ==
  ASSUME TypeOK, NEW s \in Sweepers, Sweep(s)
  PROVE  sweeper' \in SweeperTable
<1>0. sweeper \in SweeperTable /\ sweeper[s] \in SweeperState
  BY DEF TypeOK, SweeperTable
<1>1. ExpiredDeposits \subseteq Deposits /\ ExpiredAssignments \subseteq Addresses
  BY DEF ExpiredDeposits, ExpiredAssignments
<1>2. CASE StartExpirer(s)
  BY <1>0, <1>1, <1>2 DEF StartExpirer, SweeperState, SweeperTable
<1>3. CASE MarkAsExpired(s)
  BY <1>0, <1>3 DEF MarkAsExpired, SweeperState, SweeperTable, IdleSweeper
<1>4. CASE FindExpiredAssignments(s)
  BY <1>0, <1>1, <1>4 DEF FindExpiredAssignments, SweeperState, SweeperTable
<1>5. CASE ReleaseAddress(s)
  BY <1>0, <1>5 DEF ReleaseAddress, SweeperState, SweeperTable
<1>6. CASE EndSweep(s)
  BY <1>0, <1>6 DEF EndSweep, SweeperState, SweeperTable, IdleSweeper
<1> QED
  BY <1>2, <1>3, <1>4, <1>5, <1>6 DEF Sweep

LEMMA CancelTypes ==
  ASSUME TypeOK, NEW d \in Deposits, Cancel(d)
  PROVE  cancel' \in CancelTable
<1>1. deposits[d].assignedAddress \in Addresses \cup {Null}
  BY DEF TypeOK, DepositRow
<1> QED
  BY <1>1 DEF TypeOK, Cancel, ReadForCancel, ReleaseAndThrow, CancelState, CancelTable

TypeInv == TypeOK /\ AttemptsLeft

LEMMA TypeNext ==
  ASSUME TypeInv, [Next]_vars
  PROVE  TypeInv'
<1>0. /\ initiator \in InitiatorTable /\ detector \in DetectorTable
      /\ sweeper \in SweeperTable /\ cancel \in CancelTable
      /\ chain \in [Txs -> Transfer] /\ now \in Time /\ TypeOK /\ AttemptsLeft
      /\ tracked \in [Txs -> Deposits \cup {Null}]
      /\ restarts \in 0 .. Crashes
  BY DEF TypeInv, TypeOK, PoolTypeOK, InitiatorTable, DetectorTable, SweeperTable,
         CancelTable
<1>1. PoolTypeOK' /\ deposits' \in DepositTable
  BY <1>0, PoolTypes, DepositTypes
<1> DEFINE Typed == /\ initiator' \in InitiatorTable /\ AttemptsLeft'
                    /\ detector' \in DetectorTable
                    /\ sweeper' \in SweeperTable
                    /\ cancel' \in CancelTable
                    /\ chain' \in [Txs -> Transfer]
                    /\ tracked' \in [Txs -> Deposits \cup {Null}]
                    /\ restarts' \in 0 .. Crashes
<1>2. SUFFICES Typed
  BY <1>1 DEF TypeInv, TypeOK, InitiatorTable, DetectorTable, SweeperTable,
              CancelTable, DepositTable
<1>3. CASE Tick \/ UNCHANGED vars
  BY <1>0, <1>3 DEF Tick, vars, AttemptsLeft
<1>4. ASSUME NEW t \in Txs, NEW a \in Addresses, Pay(t, a)
      PROVE  Typed
  BY <1>0, <1>4 DEF Pay, Transfer, AttemptsLeft
<1>5. ASSUME NEW d \in Deposits, Initiate(d)
      PROVE  Typed
  BY <1>0, <1>5, InitiateFrame, InitiatorTypes
<1>6. ASSUME NEW d \in Deposits, Cancel(d)
      PROVE  Typed
  BY <1>0, <1>6, CancelFrame, CancelTypes DEF AttemptsLeft
<1>7. ASSUME NEW s \in Sweepers, Sweep(s)
      PROVE  Typed
  BY <1>0, <1>7, SweepFrame, SweeperTypes DEF AttemptsLeft
<1>8. ASSUME NEW w \in Detectors, Detect(w) \/ \E t \in Txs : StartManual(w, t)
      PROVE  Typed
  <2>1. UNCHANGED <<initiator, sweeper, cancel, chain, restarts>> /\ AttemptsLeft'
    BY <1>0, <1>8, DetectFrame DEF AttemptsLeft
  <2>2. tracked' \in [Txs -> Deposits \cup {Null}]
    <3>1. detector[w].deposit \in Deposits \cup {Null}
      BY <1>0 DEF DetectorTable, DetectorState
    <3> QED
      BY <1>0, <1>8, <3>1, DetectFrame DEF TrackProcessedTransaction
  <2>3. ASSUME NEW t \in Txs, StartManual(w, t)
        PROVE  detector' \in DetectorTable
    <3> DEFINE run == [detector[w] EXCEPT !.pc = "match", !.address = chain[t].to,
                                          !.txs = {t}]
    <3>1. chain[t].to \in Addresses \cup {Null}
      BY <1>0 DEF Transfer
    <3>2. {t} \subseteq Txs
      OBVIOUS
    <3>3. detector' = [detector EXCEPT ![w] = run]
      BY <1>0, <2>3 DEF StartManual, DetectorTable, DetectorState
    <3>4. detector[w] \in DetectorState
      BY <1>0 DEF DetectorTable
    <3>5. run \in DetectorState
      BY <3>1, <3>2, <3>4 DEF DetectorState
    <3> HIDE DEF run
    <3> QED
      BY <1>0, <3>3, <3>5 DEF DetectorTable
  <2> QED
    BY <1>0, <1>8, <2>1, <2>2, <2>3, DetectorTypes
<1>9. CASE Crash
  <2>1. initiator' \in InitiatorTable /\ AttemptsLeft'
    BY <1>0, <1>9 DEF Crash, InitiatorTable, InitiatorState, AttemptsLeft
  <2>2. /\ detector' \in DetectorTable
        /\ sweeper' \in SweeperTable
        /\ cancel' \in CancelTable
    BY <1>0, <1>9, NullFacts DEF Crash, DetectorTable, DetectorState, IdleDetector,
       SweeperTable, SweeperState, IdleSweeper, CancelTable, CancelState, IdleCancel
  <2>3. restarts' \in 0 .. Crashes
    BY <1>0, <1>9 DEF Crash
  <2> QED
    BY <1>0, <1>9, <2>1, <2>2, <2>3 DEF Crash
<1> QED
  BY <1>3, <1>4, <1>5, <1>6, <1>7, <1>8, <1>9 DEF Next

\* TypeOK holds for any pool, deposits, transfers, runs, faults and restarts.
THEOREM TypeCorrect == Spec => []TypeOK
<1>1. Init => TypeInv
  BY TypeInit DEF TypeInv, AttemptsLeft, Init, IdleInitiator
<1>2. TypeInv => TypeOK
  BY DEF TypeInv
<1> QED
  BY <1>1, <1>2, TypeNext, PTL DEF Spec

(***************************************************************************)
(* The inductive invariant.  A run that is about to write a deposit knows  *)
(* a transfer that pays for it, and still does after any number of other   *)
(* steps, because the address and the window of a deposit are written once *)
(* while no transfer can have matched it.                                  *)
(***************************************************************************)
Initiated(d) == initiator[d].pc \in {"created", "dirty", "picked", "assigned"}

DetectorInStep(w) ==
  LET run == detector[w] IN
  /\ run.pc \in {"match", "update", "track", "markUsed"} =>
       /\ run.address # Null
       /\ run.txs \subseteq TransfersTo(run.address)
  /\ run.pc \in {"update", "track", "markUsed"} =>
       /\ run.tx \in Txs /\ run.deposit \in Deposits
       /\ PaidInWindow(run.tx, run.deposit)
  /\ run.pc = "track" => deposits[run.deposit].txHash # Null

DepositInStep(d) ==
  /\ deposits[d].status = "NONE" =>
       deposits[d].assignedAddress = Null /\ deposits[d].txHash = Null
  /\ Initiated(d) =>
       deposits[d].status # "NONE" /\ deposits[d].assignedAddress = Null

IInv == /\ TypeInv
        /\ \A w \in Detectors : DetectorInStep(w)
        /\ \A d \in Deposits : DepositInStep(d)
        /\ MatchedInWindow
        /\ OneDepositPerTx
        /\ TrackedWasMatched

\* What one step does to one row of deposits.
Unmoved(d) == /\ deposits'[d].assignedAddress = deposits[d].assignedAddress
              /\ deposits'[d].createdAt = deposits[d].createdAt
              /\ deposits'[d].expiresAt = deposits[d].expiresAt
              /\ deposits'[d].status = "NONE" => deposits[d].status = "NONE"
Confirms(w, d) == /\ UpdateDepositTransaction(w)
                  /\ detector[w].deposit = d
                  /\ ~TxHashTaken(detector[w].tx, d)
                  /\ deposits'[d].txHash = detector[w].tx
                  /\ deposits'[d].status = "CONFIRMED"

LEMMA RowSteps ==
  ASSUME TypeInv, [Next]_vars, NEW d \in Deposits
  PROVE  \/ Unmoved(d) /\ deposits'[d].txHash = deposits[d].txHash
         \/ CreateDeposit(d)
         \/ UpdateDepositAddress(d)
         \/ Unmoved(d) /\ \E w \in Detectors : Confirms(w, d)
<1>0. deposits \in DepositTable
  BY DEF TypeInv, TypeOK, DepositTable
<1>1. CASE UNCHANGED deposits
  BY <1>1 DEF Unmoved
<1>2. ASSUME NEW e \in Deposits, Initiate(e), deposits' # deposits
      PROVE  \/ Unmoved(d) /\ deposits'[d].txHash = deposits[d].txHash
             \/ CreateDeposit(d)
             \/ UpdateDepositAddress(d)
  <2>1. CreateDeposit(e) \/ UpdateDepositAddress(e)
    BY <1>2 DEF Initiate, PickAddress, DiscardAddress, AssignAddress, FailInitiation
  <2>2. d # e => deposits'[d] = deposits[d]
    BY <1>0, <2>1 DEF CreateDeposit, UpdateDepositAddress, DepositTable
  <2> QED
    BY <2>1, <2>2 DEF Unmoved
<1>3. ASSUME NEW w \in Detectors, UpdateDepositTransaction(w), deposits' # deposits
      PROVE  /\ Unmoved(d)
             /\ deposits'[d].txHash = deposits[d].txHash \/ Confirms(w, d)
  <2>1. /\ ~TxHashTaken(detector[w].tx, detector[w].deposit)
        /\ deposits' = [deposits EXCEPT ![detector[w].deposit].txHash = detector[w].tx,
                                       ![detector[w].deposit].status = "CONFIRMED"]
    BY <1>3 DEF UpdateDepositTransaction
  <2>2. CASE d = detector[w].deposit
    BY <1>0, <1>3, <2>1, <2>2 DEF Unmoved, Confirms, DepositTable, DepositRow
  <2>3. CASE d # detector[w].deposit
    BY <1>0, <2>1, <2>3 DEF Unmoved, DepositTable
  <2> QED
    BY <2>2, <2>3
<1>4. ASSUME NEW s \in Sweepers, MarkAsExpired(s), deposits' # deposits
      PROVE  Unmoved(d) /\ deposits'[d].txHash = deposits[d].txHash
  <2>1. PICK e \in sweeper[s].deposits :
          deposits' = [deposits EXCEPT ![e].status = "EXPIRED"]
    BY <1>4 DEF MarkAsExpired
  <2> QED
    BY <1>0, <2>1 DEF Unmoved, DepositTable, DepositRow
<1> QED
  BY <1>1, <1>2, <1>3, <1>4, DetectFrame, SweepFrame, CancelFrame
     DEF Next, Tick, Pay, Crash, vars

\* A transfer that pays for a deposit goes on paying for it.
LEMMA PaidStays ==
  ASSUME IInv, [Next]_vars, NEW t \in Txs, NEW d \in Deposits, PaidInWindow(t, d)
  PROVE  PaidInWindow(t, d)'
<1>1. chain'[t] = chain[t]
  <2>1. UNCHANGED chain \/ \E u \in Txs, a \in Addresses : Pay(u, a)
    BY InitiateFrame, DetectFrame, SweepFrame, CancelFrame DEF Next, Tick, Crash, vars
  <2> QED
    BY <2>1 DEF Pay, PaidInWindow, IInv, TypeInv, TypeOK
<1>2. deposits[d].assignedAddress # Null
  BY DEF PaidInWindow, OnChain
<1>3. ~CreateDeposit(d) /\ ~UpdateDepositAddress(d)
  BY <1>2 DEF IInv, DepositInStep, Initiated, CreateDeposit, UpdateDepositAddress
<1>4. Unmoved(d)
  BY <1>3, RowSteps DEF IInv
<1> QED
  BY <1>1, <1>4 DEF PaidInWindow, OnChain, Unmoved

\* A deposit that has a transaction goes on having one.
LEMMA TxHashStays ==
  ASSUME IInv, [Next]_vars, NEW d \in Deposits, deposits[d].txHash # Null
  PROVE  deposits'[d].txHash # Null
<1>0. deposits \in DepositTable
  BY DEF IInv, TypeInv, TypeOK, DepositTable
<1>1. ~CreateDeposit(d)
  BY DEF IInv, DepositInStep, CreateDeposit
<1>2. UpdateDepositAddress(d) => deposits'[d].txHash = deposits[d].txHash
  BY <1>0 DEF UpdateDepositAddress, DepositTable, DepositRow
<1>3. \A w \in Detectors : Confirms(w, d) => deposits'[d].txHash # Null
  BY NullFacts DEF IInv, DetectorInStep, Confirms, UpdateDepositTransaction
<1> QED
  BY <1>1, <1>2, <1>3, RowSteps DEF IInv

\* Transfers are never taken back from an address.
LEMMA TransfersStay ==
  ASSUME TypeInv, [Next]_vars, NEW a, a # Null
  PROVE  TransfersTo(a) \subseteq TransfersTo(a)'
<1>1. UNCHANGED chain \/ \E u \in Txs, b \in Addresses : Pay(u, b)
  BY InitiateFrame, DetectFrame, SweepFrame, CancelFrame DEF Next, Tick, Crash, vars
<1>2. chain \in [Txs -> Transfer]
  BY DEF TypeInv, TypeOK
<1>3. ASSUME NEW u \in Txs, NEW b \in Addresses, Pay(u, b)
      PROVE  TransfersTo(a) \subseteq TransfersTo(a)'
  BY <1>2, <1>3 DEF Pay, TransfersTo, OnChain
<1> QED
  BY <1>1, <1>3 DEF TransfersTo

LEMMA DetectorStays ==
  ASSUME IInv, [Next]_vars, NEW w \in Detectors, detector'[w] = detector[w]
  PROVE  DetectorInStep(w)'
<1> DEFINE run == detector[w]
<1>0. DetectorInStep(w)
  BY DEF IInv
<1>1. run.pc \in {"match", "update", "track", "markUsed"} =>
        run.txs \subseteq TransfersTo(run.address)'
  BY <1>0, TransfersStay DEF IInv, DetectorInStep
<1>2. run.pc \in {"update", "track", "markUsed"} => PaidInWindow(run.tx, run.deposit)'
  BY <1>0, PaidStays DEF DetectorInStep
<1>3. run.pc = "track" => deposits'[run.deposit].txHash # Null
  BY <1>0, TxHashStays DEF DetectorInStep
<1> QED
  BY <1>0, <1>1, <1>2, <1>3 DEF DetectorInStep

LEMMA DetectorMoves ==
  ASSUME IInv, [Next]_vars, NEW w \in Detectors,
         Detect(w) \/ \E t \in Txs : StartManual(w, t)
  PROVE  DetectorInStep(w)'
<1>0. /\ DetectorInStep(w) /\ detector \in DetectorTable /\ detector[w] \in DetectorState
      /\ deposits \in DepositTable
  BY DEF IInv, TypeInv, TypeOK, DetectorTable, DepositTable
<1>T. \A a : TransfersTo(a) = TransfersTo(a)'
  BY DetectFrame DEF TransfersTo
<1>1. CASE StartDetection(w)
  BY <1>0, <1>1 DEF StartDetection, DetectorInStep, DetectorTable
<1>2. CASE FetchTransactions(w)
  <2>1. PICK a \in detector[w].addresses : \E answer \in {TransfersTo(a), {}} :
          detector' = [detector EXCEPT ![w].pc = "match", ![w].addresses = @ \ {a},
                                       ![w].address = a, ![w].txs = answer]
    BY <1>2 DEF FetchTransactions
  <2>2. a \in Addresses
    BY <1>0 DEF DetectorState
  <2>3. /\ detector'[w].pc = "match" /\ detector'[w].address = a
        /\ detector'[w].txs \subseteq TransfersTo(a)
    BY <1>0, <2>1 DEF DetectorTable, DetectorState
  <2> QED
    BY <1>T, <2>2, <2>3, NullFacts DEF DetectorInStep
<1>3. ASSUME NEW t \in Txs, StartManual(w, t)
      PROVE  DetectorInStep(w)'
  <2>1. /\ detector'[w].pc = "match" /\ detector'[w].address = chain[t].to
        /\ detector'[w].txs = {t}
    BY <1>0, <1>3 DEF StartManual, DetectorTable, DetectorState
  <2>2. t \in TransfersTo(chain[t].to) /\ chain[t].to # Null
    BY <1>3 DEF StartManual, OnChain, TransfersTo
  <2> QED
    BY <1>T, <2>1, <2>2 DEF DetectorInStep
<1>4. CASE MatchTransaction(w)
  <2>1. PICK t \in detector[w].txs, d \in Deposits :
          /\ Matches(t, detector[w].address, d)
          /\ detector' = [detector EXCEPT ![w].pc = "update", ![w].txs = @ \ {t},
                                          ![w].tx = t, ![w].deposit = d]
    BY <1>4 DEF MatchTransaction
  <2>2. /\ detector[w].pc = "match" /\ UNCHANGED <<chain, deposits>>
        /\ detector'[w].pc = "update" /\ detector'[w].address = detector[w].address
        /\ detector'[w].txs = detector[w].txs \ {t}
        /\ detector'[w].tx = t /\ detector'[w].deposit = d
    BY <1>0, <1>4, <2>1 DEF MatchTransaction, DetectorTable, DetectorState
  <2>3. /\ detector[w].address # Null
        /\ detector[w].txs \subseteq TransfersTo(detector[w].address)
    BY <1>0, <2>2 DEF DetectorInStep
  <2>4. t \in Txs /\ chain[t].to = detector[w].address
    BY <2>3 DEF TransfersTo
  <2>5. PaidInWindow(t, d)
    <3>1. /\ deposits[d].assignedAddress = detector[w].address
          /\ chain[t].at >= deposits[d].createdAt
          /\ chain[t].at <= deposits[d].expiresAt
      BY <2>1 DEF Matches, IsNewestOpenDeposit, OpenDeposits, WithinWindow
    <3>2. /\ chain[t].at \in Nat /\ deposits[d].createdAt \in Nat
          /\ deposits[d].expiresAt \in Nat
      BY <1>0, <2>4 DEF IInv, TypeInv, TypeOK, Transfer, Time, DepositTable, DepositRow
    <3> QED
      BY <2>3, <2>4, <3>1, <3>2 DEF PaidInWindow, OnChain
  <2>6. PaidInWindow(t, d)'
    BY <2>2, <2>5 DEF PaidInWindow, OnChain
  <2> QED
    BY <1>T, <2>2, <2>3, <2>4, <2>6 DEF DetectorInStep
<1>5. CASE SkipTransaction(w)
  <2>1. /\ detector[w].pc = "match" /\ detector'[w].pc = "match"
        /\ detector'[w].address = detector[w].address
        /\ detector'[w].txs \subseteq detector[w].txs
    BY <1>0, <1>5 DEF SkipTransaction, DetectorTable, DetectorState
  <2> QED
    BY <1>0, <1>T, <2>1 DEF DetectorInStep
<1>6. CASE UpdateDepositTransaction(w)
  <2>1. detector[w].pc = "update"
    BY <1>6 DEF UpdateDepositTransaction
  <2>2. PICK t \in Txs, d \in Deposits :
          detector[w].tx = t /\ detector[w].deposit = d /\ PaidInWindow(t, d)
    BY <1>0, <2>1 DEF DetectorInStep
  <2>3. PaidInWindow(t, d)'
    BY <2>2, PaidStays
  <2>4. CASE detector' = [detector EXCEPT ![w].pc = "match",
                                          ![w].tx = Null, ![w].deposit = Null]
    <3>1. /\ detector'[w].pc = "match" /\ detector'[w].address = detector[w].address
          /\ detector'[w].txs = detector[w].txs
      BY <1>0, <2>4 DEF DetectorTable, DetectorState
    <3> QED
      BY <1>0, <1>T, <2>1, <3>1 DEF DetectorInStep
  <2>5. CASE /\ detector' = [detector EXCEPT ![w].pc = "track"]
             /\ deposits' = [deposits EXCEPT ![detector[w].deposit].txHash = detector[w].tx,
                                            ![detector[w].deposit].status = "CONFIRMED"]
    <3>1. deposits'[d].txHash = t
      BY <1>0, <2>2, <2>5 DEF DepositTable, DepositRow
    <3>2. /\ detector'[w].pc = "track" /\ detector'[w].tx = t
          /\ detector'[w].deposit = d
          /\ detector'[w].address = detector[w].address
          /\ detector'[w].txs = detector[w].txs
      BY <1>0, <2>2, <2>5 DEF DetectorTable, DetectorState
    <3> QED
      BY <1>0, <1>T, <2>1, <2>3, <3>1, <3>2, NullFacts DEF DetectorInStep
  <2> QED
    BY <1>6, <2>4, <2>5 DEF UpdateDepositTransaction
<1>7. CASE TrackProcessedTransaction(w)
  <2>1. /\ detector[w].pc = "track" /\ detector'[w].pc = "markUsed"
        /\ detector'[w].address = detector[w].address
        /\ detector'[w].txs = detector[w].txs
        /\ detector'[w].tx = detector[w].tx /\ detector'[w].deposit = detector[w].deposit
    BY <1>0, <1>7 DEF TrackProcessedTransaction, DetectorTable, DetectorState
  <2>2. PaidInWindow(detector[w].tx, detector[w].deposit)'
    BY <1>0, <2>1, PaidStays DEF DetectorInStep
  <2> QED
    BY <1>0, <1>T, <2>1, <2>2 DEF DetectorInStep
<1>8. CASE MarkAddressAsUsed(w)
  <2>1. /\ detector[w].pc = "markUsed" /\ detector'[w].pc = "match"
        /\ detector'[w].address = detector[w].address
        /\ detector'[w].txs = detector[w].txs
    BY <1>0, <1>8 DEF MarkAddressAsUsed, DetectorTable, DetectorState
  <2> QED
    BY <1>0, <1>T, <2>1 DEF DetectorInStep
<1>9. CASE NextAddress(w)
  <2>1. detector'[w].pc \in {"idle", "scan"}
    BY <1>0, <1>9 DEF NextAddress, DetectorTable, DetectorState, IdleDetector
  <2> QED
    BY <2>1 DEF DetectorInStep
<1> QED
  BY <1>1, <1>2, <1>3, <1>4, <1>5, <1>6, <1>7, <1>8, <1>9 DEF Detect

LEMMA InvInit == Init => IInv
<1>1. SUFFICES ASSUME Init PROVE IInv
  OBVIOUS
<1>2. TypeInv
  BY <1>1, TypeInit DEF TypeInv, AttemptsLeft, Init, IdleInitiator
<1> QED
  BY <1>1, <1>2 DEF IInv, Init, NoDeposit, IdleInitiator, IdleDetector, DetectorInStep,
     DepositInStep, Initiated, MatchedInWindow, OneDepositPerTx, TrackedWasMatched

LEMMA DepositNext ==
  ASSUME IInv, [Next]_vars, NEW d \in Deposits
  PROVE  DepositInStep(d)'
<1>0. /\ deposits \in DepositTable /\ initiator \in InitiatorTable /\ DepositInStep(d)
      /\ TypeInv
  BY DEF IInv, TypeInv, TypeOK, DepositTable, InitiatorTable
<1>1. CASE CreateDeposit(d)
  BY <1>0, <1>1 DEF CreateDeposit, DepositInStep, DepositTable
<1>2. CASE UpdateDepositAddress(d)
  <2>1. deposits[d].status # "NONE" /\ deposits'[d].status = deposits[d].status
    BY <1>0, <1>2 DEF UpdateDepositAddress, DepositInStep, Initiated, DepositTable, DepositRow
  <2>2. initiator'[d].pc = "done"
    BY <1>0, <1>2 DEF UpdateDepositAddress, InitiatorTable, InitiatorState
  <2> QED
    BY <2>1, <2>2 DEF DepositInStep, Initiated
<1>3. CASE ~CreateDeposit(d) /\ ~UpdateDepositAddress(d)
  <2>1. Unmoved(d)
    BY <1>0, <1>3, RowSteps
  <2>2. Initiated(d)' => Initiated(d)
    <3>1. \/ UNCHANGED initiator
          \/ \E e \in Deposits : Initiate(e)
          \/ Crash
      BY DetectFrame, SweepFrame, CancelFrame DEF Next, Tick, Pay, vars
    <3>2. ASSUME NEW e \in Deposits, Initiate(e)
          PROVE  Initiated(d)' => Initiated(d)
      <4>1. CASE d = e
        BY <1>0, <1>3, <3>2, <4>1 DEF Initiate, Initiated, PickAddress, DiscardAddress,
           AssignAddress, FailInitiation, InitiatorTable, InitiatorState
      <4>2. CASE d # e
        BY <1>0, <3>2, <4>2 DEF Initiate, Initiated, CreateDeposit, UpdateDepositAddress,
           PickAddress, DiscardAddress, AssignAddress, FailInitiation, InitiatorTable
      <4> QED
        BY <4>1, <4>2
    <3>3. CASE Crash
      BY <1>0, <3>3 DEF Crash, Initiated, InitiatorTable, InitiatorState
    <3> QED
      BY <3>1, <3>2, <3>3 DEF Initiated
  <2>3. deposits'[d].status = "NONE" => deposits'[d].txHash = deposits[d].txHash
    BY <1>0, <1>3, RowSteps DEF Confirms
  <2> QED
    BY <1>0, <2>1, <2>2, <2>3 DEF DepositInStep, Unmoved
<1> QED
  BY <1>1, <1>2, <1>3

\* The deposit a run writes and the transfer it writes into it.
LEMMA ConfirmsPaid ==
  ASSUME IInv, [Next]_vars, NEW d \in Deposits, NEW w \in Detectors, Confirms(w, d)
  PROVE  /\ deposits'[d].txHash \in Txs
         /\ PaidInWindow(deposits[d].txHash, d)'
         /\ \A e \in Deposits \ {d} : /\ deposits'[e].txHash = deposits[e].txHash
                                     /\ deposits[e].txHash # deposits'[d].txHash
<1>1. PICK t \in Txs : /\ detector[w].tx = t /\ deposits'[d].txHash = t
                       /\ PaidInWindow(t, d)
  BY DEF IInv, DetectorInStep, Confirms, UpdateDepositTransaction
<1>2. PaidInWindow(t, d)'
  BY <1>1, PaidStays
<1>3. \A e \in Deposits \ {d} : deposits[e].txHash # t
  BY <1>1 DEF Confirms, TxHashTaken
<1>4. \A e \in Deposits \ {d} : deposits'[e].txHash = deposits[e].txHash
  BY DEF Confirms, UpdateDepositTransaction, IInv, TypeInv, TypeOK, DepositRow
<1> QED
  BY <1>1, <1>2, <1>3, <1>4

\* Every row keeps its transaction, or loses it by creation, or is confirmed.
LEMMA TxHashSteps ==
  ASSUME IInv, [Next]_vars, NEW d \in Deposits
  PROVE  \/ deposits'[d].txHash = deposits[d].txHash
         \/ \E w \in Detectors : Confirms(w, d)
<1>0. deposits \in DepositTable
  BY DEF IInv, TypeInv, TypeOK, DepositTable
<1>1. CreateDeposit(d) => deposits'[d].txHash = deposits[d].txHash
  BY <1>0 DEF CreateDeposit, IInv, DepositInStep, DepositTable
<1>2. UpdateDepositAddress(d) => deposits'[d].txHash = deposits[d].txHash
  BY <1>0 DEF UpdateDepositAddress, DepositTable, DepositRow
<1> QED
  BY <1>1, <1>2, RowSteps DEF IInv

LEMMA InvNext == IInv /\ [Next]_vars => IInv'
<1> SUFFICES ASSUME IInv, [Next]_vars PROVE IInv'
  OBVIOUS
<1>0. /\ MatchedInWindow /\ OneDepositPerTx /\ TrackedWasMatched
      /\ deposits \in DepositTable /\ tracked \in [Txs -> Deposits \cup {Null}]
      /\ detector \in DetectorTable
  BY DEF IInv, TypeInv, TypeOK, DepositTable, DetectorTable
<1>1. TypeInv'
  BY TypeNext DEF IInv
<1>2. ASSUME NEW w \in Detectors
      PROVE  DetectorInStep(w)'
  <2>1. \/ UNCHANGED detector
        \/ \E v \in Detectors : Detect(v) \/ \E t \in Txs : StartManual(v, t)
        \/ Crash
    BY InitiateFrame, SweepFrame, CancelFrame DEF Next, Tick, Pay, vars
  <2>2. ASSUME NEW v \in Detectors, v # w,
               Detect(v) \/ \E t \in Txs : StartManual(v, t)
        PROVE  detector'[w] = detector[w]
    BY <1>0, <2>2 DEF Detect, StartDetection, FetchTransactions, StartManual,
       MatchTransaction, SkipTransaction, UpdateDepositTransaction,
       TrackProcessedTransaction, MarkAddressAsUsed, NextAddress, DetectorTable
  <2>3. CASE Crash
    BY <2>3 DEF Crash, DetectorInStep, IdleDetector
  <2> QED
    BY <2>1, <2>2, <2>3, DetectorStays, DetectorMoves
<1>3. \A d \in Deposits : DepositInStep(d)'
  BY DepositNext
<1>4. MatchedInWindow'
  <2>1. ASSUME NEW d \in Deposits, deposits'[d].txHash # Null,
               deposits'[d].txHash = deposits[d].txHash
        PROVE  PaidInWindow(deposits[d].txHash, d)'
    <3>1. PICK t \in Txs : deposits[d].txHash = t /\ PaidInWindow(t, d)
      BY <1>0, <2>1 DEF MatchedInWindow, DepositTable, DepositRow
    <3> QED
      BY <2>1, <3>1, PaidStays
  <2> QED
    BY <2>1, TxHashSteps, ConfirmsPaid DEF MatchedInWindow
<1>5. OneDepositPerTx'
  <2>1. ASSUME NEW d \in Deposits, NEW e \in Deposits, d # e,
               deposits'[d].txHash # Null
        PROVE  deposits'[d].txHash # deposits'[e].txHash
    <3>1. CASE \E w \in Detectors : Confirms(w, d) \/ Confirms(w, e)
      BY <2>1, <3>1, ConfirmsPaid
    <3>2. CASE /\ deposits'[d].txHash = deposits[d].txHash
               /\ deposits'[e].txHash = deposits[e].txHash
      BY <1>0, <2>1, <3>2 DEF OneDepositPerTx
    <3> QED
      BY <3>1, <3>2, TxHashSteps
  <2> QED
    BY <2>1 DEF OneDepositPerTx
<1>6. TrackedWasMatched'
  <2>1. ASSUME NEW t \in Txs, NEW d \in Deposits, tracked[t] = d
        PROVE  PaidInWindow(t, d)' /\ deposits'[d].txHash # Null
    BY <1>0, <2>1, PaidStays, TxHashStays, NullFacts DEF TrackedWasMatched
  <2>2. ASSUME NEW w \in Detectors, TrackProcessedTransaction(w),
               NEW t \in Txs, tracked'[t] # tracked[t]
        PROVE  PaidInWindow(t, tracked[t])' /\ deposits'[tracked'[t]].txHash # Null
    <3>1. /\ detector[w].pc = "track" /\ t = detector[w].tx
          /\ tracked'[t] = detector[w].deposit
      BY <1>0, <2>2 DEF TrackProcessedTransaction
    <3>2. PICK d \in Deposits : /\ tracked'[t] = d /\ PaidInWindow(t, d)
                               /\ deposits[d].txHash # Null
      BY <3>1 DEF IInv, DetectorInStep
    <3> QED
      BY <3>2, PaidStays, TxHashStays
  <2>3. UNCHANGED tracked \/ \E w \in Detectors : TrackProcessedTransaction(w)
    BY InitiateFrame, DetectFrame, SweepFrame, CancelFrame DEF Next, Tick, Pay, Crash, vars
  <2>4. ASSUME NEW t \in Txs, tracked'[t] # Null
        PROVE  PaidInWindow(t, tracked[t])' /\ deposits'[tracked'[t]].txHash # Null
    <3>1. CASE tracked'[t] = tracked[t]
      BY <1>0, <2>1, <2>4, <3>1
    <3>2. CASE tracked'[t] # tracked[t]
      BY <2>2, <2>3, <3>2
    <3> QED
      BY <3>1, <3>2
  <2> QED
    BY <2>4 DEF TrackedWasMatched
<1> QED
  BY <1>1, <1>2, <1>3, <1>4, <1>5, <1>6 DEF IInv

\* The invariant of the intake holds in every reachable state: what rows keep
\* once set, and what a detector holds in its local variables.
THEOREM Invariance == Spec => []IInv
BY InvInit, InvNext, PTL DEF Spec

(***************************************************************************)
(* Safety.                                                                 *)
(***************************************************************************)
\* Whatever addresses are recycled, shared or taken away meanwhile, a deposit
\* is confirmed only by a transfer to its own address in its own window.
THEOREM ConfirmedByItsPayment == Spec => []MatchedInWindow
<1>1. IInv => MatchedInWindow
  BY DEF IInv
<1> QED
  BY <1>1, Invariance, PTL

\* However many detector runs overlap, a transfer confirms one deposit.
THEOREM OneDepositForATransfer == Spec => []OneDepositPerTx
<1>1. IInv => OneDepositPerTx
  BY DEF IInv
<1> QED
  BY <1>1, Invariance, PTL

\* Table processed_transactions names only deposits the transfer paid for.
THEOREM TrackingIsTruthful == Spec => []TrackedWasMatched
<1>1. IInv => TrackedWasMatched
  BY DEF IInv
<1> QED
  BY <1>1, Invariance, PTL

(***************************************************************************)
(* One detector run at a time.                                             *)
(***************************************************************************)
AtMostOneRun == \A v, w \in Detectors : v = w

\* The deposit a run is about to confirm has not been confirmed meanwhile.
TargetIsOpen == \A w \in Detectors :
  detector[w].pc = "update" => deposits[detector[w].deposit].txHash = Null

LEMMA TargetNext ==
  ASSUME AtMostOneRun, IInv, TargetIsOpen, [Next]_vars
  PROVE  TargetIsOpen'
<1> SUFFICES ASSUME NEW w \in Detectors, detector'[w].pc = "update"
             PROVE  deposits'[detector'[w].deposit].txHash = Null
  BY DEF TargetIsOpen
<1>0. detector \in DetectorTable /\ detector[w] \in DetectorState
  BY DEF IInv, TypeInv, TypeOK, DetectorTable
<1>1. \/ UNCHANGED detector
      \/ Detect(w) \/ \E t \in Txs : StartManual(w, t)
  BY InitiateFrame, SweepFrame, CancelFrame
     DEF AtMostOneRun, Next, Tick, Pay, Crash, IdleDetector, vars
<1>2. CASE UNCHANGED detector
  <2>1. detector[w].deposit \in Deposits /\ deposits[detector[w].deposit].txHash = Null
    BY <1>2 DEF IInv, DetectorInStep, TargetIsOpen
  <2>2. \A v \in Detectors, d \in Deposits : ~Confirms(v, d)
    <3>1. \A v \in Detectors : UpdateDepositTransaction(v) => detector'[v].pc # "update"
      BY <1>0 DEF AtMostOneRun, UpdateDepositTransaction, DetectorTable, DetectorState
    <3> QED
      BY <1>2, <3>1 DEF Confirms, UpdateDepositTransaction
  <2> QED
    BY <1>2, <2>1, <2>2, TxHashSteps
<1>3. CASE Detect(w) \/ \E t \in Txs : StartManual(w, t)
  <2>1. MatchTransaction(w)
    <3>1. StartDetection(w) => detector'[w].pc = "scan"
      BY <1>0 DEF StartDetection, DetectorTable, DetectorState
    <3>2. FetchTransactions(w) => detector'[w].pc = "match"
      BY <1>0 DEF FetchTransactions, DetectorTable, DetectorState
    <3>3. \A t \in Txs : StartManual(w, t) => detector'[w].pc = "match"
      BY <1>0 DEF StartManual, DetectorTable, DetectorState
    <3>4. UpdateDepositTransaction(w) => detector'[w].pc \in {"match", "track"}
      BY <1>0 DEF UpdateDepositTransaction, DetectorTable, DetectorState
    <3>5. TrackProcessedTransaction(w) => detector'[w].pc = "markUsed"
      BY <1>0 DEF TrackProcessedTransaction, DetectorTable, DetectorState
    <3>6. MarkAddressAsUsed(w) => detector'[w].pc = "match"
      BY <1>0 DEF MarkAddressAsUsed, DetectorTable, DetectorState
    <3>7. NextAddress(w) => detector'[w].pc \in {"idle", "scan"}
      BY <1>0 DEF NextAddress, DetectorTable, DetectorState, IdleDetector
    <3>8. SkipTransaction(w) => detector'[w].pc = "match"
      BY <1>0 DEF SkipTransaction, DetectorTable, DetectorState
    <3> QED
      BY <1>3, <3>1, <3>2, <3>3, <3>4, <3>5, <3>6, <3>7, <3>8 DEF Detect
  <2>2. PICK t \in detector[w].txs, d \in Deposits :
          /\ Matches(t, detector[w].address, d)
          /\ detector' = [detector EXCEPT ![w].pc = "update", ![w].txs = @ \ {t},
                                          ![w].tx = t, ![w].deposit = d]
    BY <2>1 DEF MatchTransaction
  <2>3. detector'[w].deposit = d /\ deposits[d].txHash = Null
    BY <1>0, <2>2 DEF Matches, DetectorTable, DetectorState
  <2> QED
    BY <2>1, <2>3 DEF MatchTransaction
<1> QED
  BY <1>1, <1>2, <1>3

\* Where detector runs do not overlap, a confirmed payment is never replaced
\* by another transfer.
THEOREM OneRunKeepsPayments ==
  ASSUME AtMostOneRun
  PROVE  Spec => PaymentNotOverwritten
<1>1. Init => TargetIsOpen
  BY DEF Init, TargetIsOpen, IdleDetector
<1>2. IInv /\ TargetIsOpen /\ [Next]_vars => TargetIsOpen'
  BY TargetNext
<1>3. IInv /\ TargetIsOpen /\ [Next]_vars =>
        [\A d \in Deposits : deposits[d].txHash # Null
                             => deposits'[d].txHash = deposits[d].txHash]_vars
  <2> SUFFICES ASSUME IInv, TargetIsOpen, [Next]_vars, NEW d \in Deposits,
                      deposits[d].txHash # Null
               PROVE  deposits'[d].txHash = deposits[d].txHash
    OBVIOUS
  <2>1. \A w \in Detectors : ~Confirms(w, d)
    BY DEF TargetIsOpen, Confirms, UpdateDepositTransaction
  <2> QED
    BY <2>1, TxHashSteps
<1> QED
  BY <1>1, <1>2, <1>3, Invariance, PTL DEF Spec, PaymentNotOverwritten

(***************************************************************************)
(* The pool and the deposits.  A row is linked only to a deposit whose     *)
(* handler chose that very row and has not chosen since.                   *)
(***************************************************************************)
PoolLink(a) ==
  LET d == pool[a].assignedToDepositId IN
  /\ (d # Null) <=> (pool[a].status = "ASSIGNED")
  /\ d # Null => /\ initiator[d].address = a
                 /\ initiator[d].pc \in {"assigned", "done", "failed"}

InitiatorLink(d) ==
  /\ deposits[d].status = "NONE" => initiator[d].pc = "idle"
  /\ deposits[d].assignedAddress # Null =>
       /\ initiator[d].pc = "done"
       /\ deposits[d].assignedAddress = initiator[d].address

LinkInv == /\ IInv
           /\ \A a \in Addresses : PoolLink(a)
           /\ \A d \in Deposits : InitiatorLink(d)

\* A handler past its choice of an address keeps the choice.
LEMMA ChoiceStays ==
  ASSUME LinkInv, [Next]_vars, NEW d \in Deposits,
         initiator[d].pc \in {"assigned", "done", "failed"}
  PROVE  /\ initiator'[d].address = initiator[d].address
         /\ initiator'[d].pc \in {"assigned", "done", "failed"}
         /\ initiator[d].pc = "done" => initiator'[d].pc = "done"
<1>0. initiator \in InitiatorTable /\ initiator[d] \in InitiatorState /\ InitiatorLink(d)
  BY DEF LinkInv, IInv, TypeInv, TypeOK, InitiatorTable
<1>1. \/ UNCHANGED initiator
      \/ \E e \in Deposits : Initiate(e)
      \/ Crash
  BY DetectFrame, SweepFrame, CancelFrame DEF Next, Tick, Pay, vars
<1>2. ASSUME NEW e \in Deposits, e # d, Initiate(e)
      PROVE  initiator'[d] = initiator[d]
  BY <1>0, <1>2 DEF Initiate, CreateDeposit, UpdateDepositAddress, PickAddress,
     DiscardAddress, AssignAddress, FailInitiation, InitiatorTable
<1>3. CASE Initiate(d)
  <2>1. UpdateDepositAddress(d) \/ FailInitiation(d)
    BY <1>0, <1>3 DEF Initiate, CreateDeposit, PickAddress, DiscardAddress,
       AssignAddress, InitiatorLink
  <2> QED
    BY <1>0, <2>1 DEF UpdateDepositAddress, FailInitiation, InitiatorTable, InitiatorState
<1>4. CASE Crash
  BY <1>0, <1>4 DEF Crash, InitiatorTable, InitiatorState
<1> QED
  BY <1>1, <1>2, <1>3, <1>4

LEMMA PoolLinkNext ==
  ASSUME LinkInv, [Next]_vars, NEW a \in Addresses
  PROVE  PoolLink(a)'
<1> DEFINE d == pool[a].assignedToDepositId
<1>0. /\ PoolLink(a) /\ pool \in PoolTable /\ pool[a] \in PoolRow
      /\ initiator \in InitiatorTable
  BY DEF LinkInv, IInv, TypeInv, TypeOK, PoolTypeOK, PoolTable, InitiatorTable
<1>1. ASSUME pool'[a] = pool[a]
      PROVE  PoolLink(a)'
  <2>1. CASE d = Null
    BY <1>0, <1>1, <2>1 DEF PoolLink
  <2>2. CASE d # Null
    <3>1. d \in Deposits
      BY <1>0, <2>2 DEF PoolRow
    <3> QED
      BY <1>0, <1>1, <2>2, <3>1, ChoiceStays DEF PoolLink
  <2> QED
    BY <2>1, <2>2
<1>2. ASSUME pool'[a].assignedToDepositId = Null, pool'[a].status # "ASSIGNED"
      PROVE  PoolLink(a)'
  BY <1>2 DEF PoolLink
<1>3. CASE Recycles
  <2>1. ASSUME NEW b, ReleaseRow(b) \/ MarkRowUsed(b)
        PROVE  \/ pool'[a] = pool[a]
               \/ pool'[a].assignedToDepositId = Null /\ pool'[a].status # "ASSIGNED"
    <3>1. CASE a # b
      BY <1>0, <2>1, <3>1 DEF ReleaseRow, MarkRowUsed, PoolTable
    <3>2. CASE a = b /\ ReleaseRow(b)
      BY <1>0, <3>2 DEF ReleaseRow, PoolTable, PoolRow
    <3>3. CASE a = b /\ MarkRowUsed(b)
      BY <1>0, <3>3 DEF MarkRowUsed, PoolTable
    <3> QED
      BY <2>1, <3>1, <3>2, <3>3
  <2>2. ResetCooledDownRows =>
          \/ pool'[a] = pool[a]
          \/ pool'[a].assignedToDepositId = Null /\ pool'[a].status # "ASSIGNED"
    BY <1>0 DEF ResetCooledDownRows, CooledDown, PoolLink, PoolRow
  <2> QED
    BY <1>1, <1>2, <1>3, <2>1, <2>2 DEF Recycles
<1>4. ASSUME NEW e \in Deposits, AssignAddress(e)
      PROVE  PoolLink(a)'
  <2>1. CASE a = initiator[e].address
    <3>1. pool'[a].assignedToDepositId = e /\ pool'[a].status = "ASSIGNED"
      BY <1>0, <1>4, <2>1 DEF AssignAddress, AssignRow, PoolTable, PoolRow
    <3>2. initiator'[e].address = a /\ initiator'[e].pc = "assigned"
      BY <1>0, <1>4, <2>1 DEF AssignAddress, InitiatorTable, InitiatorState
    <3> QED
      BY <3>1, <3>2, NullFacts DEF PoolLink
  <2>2. CASE a # initiator[e].address
    BY <1>0, <1>1, <1>4, <2>2 DEF AssignAddress, AssignRow, PoolTable
  <2> QED
    BY <2>1, <2>2
<1> QED
  BY <1>1, <1>3, <1>4, InitiateFrame, DetectFrame, SweepFrame, CancelFrame
     DEF Next, Tick, Pay, Crash, vars

LEMMA InitiatorLinkNext ==
  ASSUME LinkInv, [Next]_vars, NEW d \in Deposits
  PROVE  InitiatorLink(d)'
<1>0. /\ initiator \in InitiatorTable /\ deposits \in DepositTable
      /\ InitiatorLink(d) /\ DepositInStep(d) /\ TypeInv
  BY DEF LinkInv, IInv, TypeInv, TypeOK, InitiatorTable, DepositTable
<1>1. CASE CreateDeposit(d)
  BY <1>0, <1>1 DEF CreateDeposit, InitiatorLink, DepositTable
<1>2. CASE UpdateDepositAddress(d)
  BY <1>0, <1>2 DEF UpdateDepositAddress, InitiatorLink, DepositInStep, Initiated,
     DepositTable, DepositRow, InitiatorTable, InitiatorState
<1>3. CASE ~CreateDeposit(d) /\ ~UpdateDepositAddress(d)
  <2>1. Unmoved(d)
    BY <1>0, <1>3, RowSteps
  <2>2. initiator[d].pc = "idle" => initiator'[d].pc = "idle"
    <3>1. \/ UNCHANGED initiator
          \/ \E e \in Deposits : Initiate(e)
          \/ Crash
      BY DetectFrame, SweepFrame, CancelFrame DEF Next, Tick, Pay, vars
    <3>2. ASSUME NEW e \in Deposits, Initiate(e), initiator[d].pc = "idle"
          PROVE  initiator'[d].pc = "idle"
      BY <1>0, <1>3, <3>2 DEF Initiate, CreateDeposit, UpdateDepositAddress, PickAddress,
         DiscardAddress, AssignAddress, FailInitiation, InitiatorTable
    <3> QED
      BY <1>0, <3>1, <3>2 DEF Crash, InitiatorTable
  <2> QED
    BY <1>0, <2>1, <2>2, ChoiceStays DEF InitiatorLink, Unmoved
<1> QED
  BY <1>1, <1>2, <1>3

\* Pool, deposits and initiations are linked at the start.
LEMMA LinkInit ==
  ASSUME Init
  PROVE  LinkInv
<1>1. \A a \in Addresses : PoolLink(a)
  BY DEF Init, PoolInit, FreshRow, PoolLink
<1>2. \A d \in Deposits : InitiatorLink(d)
  BY DEF Init, InitiatorLink, NoDeposit, IdleInitiator
<1> QED
  BY <1>1, <1>2, InvInit DEF LinkInv

\* Every step keeps pool, deposits and initiations linked.
LEMMA LinkNext ==
  ASSUME LinkInv, [Next]_vars
  PROVE  LinkInv'
BY InvNext, PoolLinkNext, InitiatorLinkNext DEF LinkInv

\* The two tables agree on who holds which address, and no deposit holds two
\* rows, for any overlap of initiations, detectors, sweeps and cancels.
THEOREM PoolIsConsistent == Spec => []PoolAgreesWithDeposits
<1>1. Init => LinkInv
  BY LinkInit
<1>2. LinkInv /\ [Next]_vars => LinkInv'
  BY LinkNext
<1>3. LinkInv => PoolAgreesWithDeposits
  <2> SUFFICES ASSUME LinkInv, NEW a \in Addresses
               PROVE  LET d == pool[a].assignedToDepositId IN
                      /\ (d # Null) <=> (pool[a].status = "ASSIGNED")
                      /\ d # Null => /\ deposits[d].assignedAddress \in {Null, a}
                                     /\ \A b \in Addresses :
                                          pool[b].assignedToDepositId = d => a = b
    BY DEF PoolAgreesWithDeposits
  <2>1. pool[a].assignedToDepositId \in Deposits \cup {Null}
    BY DEF LinkInv, IInv, TypeInv, TypeOK, PoolTypeOK, PoolRow
  <2> QED
    BY <2>1 DEF LinkInv, PoolLink, InitiatorLink
<1> QED
  BY <1>1, <1>2, <1>3, PTL DEF Spec
(***************************************************************************)
(* One address, one payer: initiations one at a time, no cancel requests,  *)
(* and the expirer as the only job that releases rows.  The pool may hand  *)
(* an address out again only when the deposit that showed it is not open:  *)
(* its row outlives it, a row in the list of the expirer belongs to nobody *)
(* who waits for a payment, and a row marked USED is not handed out.       *)
(***************************************************************************)
Live(d) == /\ deposits[d].status \in {"PENDING", "CONFIRMED"}
           /\ deposits[d].expiresAt > now
           /\ deposits[d].txHash = Null

Holds(d, a) == /\ Live(d)
               /\ initiator[d].pc \in {"assigned", "done"}
               /\ initiator[d].address = a

Unheld(a) == \A d \in Deposits : ~Holds(d, a)

HolderKeepsRow == \A a \in Addresses, d \in Deposits :
  Holds(d, a) => \/ /\ pool[a].assignedToDepositId = d
                    /\ pool[a].expiresAt >= deposits[d].expiresAt
                 \/ pool[a].status = "USED"

OneHolder == \A a \in Addresses : \A d, e \in Deposits :
  Holds(d, a) /\ Holds(e, a) => d = e

Picked(d, a) == initiator[d].pc \in {"picked", "dirty"} /\ initiator[d].address = a

PickIsFree == \A a \in Addresses, d \in Deposits :
  Picked(d, a) => /\ pool[a].status # "ASSIGNED"
                  /\ Unheld(a)
                  /\ \A s \in Sweepers : a \notin sweeper[s].addresses

ListIsExpired == \A a \in Addresses, s \in Sweepers :
  a \in sweeper[s].addresses => pool[a].status # "FREE" /\ Unheld(a)

CreatedBefore == \A d \in Deposits : deposits[d].expiresAt <= now + Window

NoCancel == \A d \in Deposits : cancel[d].pc # "read"

\* What the theorem assumes of the instance.
OnlyExpirer == Cancellable = {} /\ \A s \in Sweepers : s = "expirer"

ShareInv == /\ LinkInv
            /\ HolderKeepsRow /\ OneHolder /\ PickIsFree /\ ListIsExpired
            /\ CreatedBefore /\ NoCancel

\* One initiation in flight: no two deposits are being initiated.
LEMMA SerialInitiation ==
  ASSUME OneInitiation, NEW d \in Deposits, NEW e \in Deposits, Initiated(d), Initiated(e)
  PROVE  d = e
<1>1. Initiating = {c \in Deposits : Initiated(c)}
  BY DEF Initiating, Initiated
<1>2. IsFiniteSet(Deposits)
  <2>1. 1 \in Int /\ NumDeposits \in Int
    OBVIOUS
  <2> QED
    BY <2>1, FS_Interval, Zenon DEF Deposits
<1>3. Initiating \in SUBSET Deposits /\ d \in Initiating /\ e \in Initiating
  BY <1>1
<1>4. IsFiniteSet(Initiating)
  BY <1>2, <1>3, FS_Subset
<1>5. IsFiniteSet(Initiating \ {d}) /\ Cardinality(Initiating \ {d}) = Cardinality(Initiating) - 1
  BY <1>3, <1>4, FS_RemoveElement
<1>6. Cardinality(Initiating) \in Nat /\ Cardinality(Initiating \ {d}) \in Nat
  BY <1>4, <1>5, FS_CardinalityType
<1>7. Cardinality(Initiating \ {d}) = 0
  BY <1>5, <1>6 DEF OneInitiation
<1>8. Initiating \ {d} = {}
  BY <1>5, <1>7, FS_EmptySet
<1> QED
  BY <1>3, <1>8

\* A deposit is open and unpaid from its creation until it is not.
LEMMA LiveSteps ==
  ASSUME LinkInv, [Next]_vars, NEW d \in Deposits, Live(d)', ~CreateDeposit(d)
  PROVE  Live(d) /\ deposits'[d].expiresAt = deposits[d].expiresAt
<1>0. /\ deposits \in DepositTable /\ now \in Nat /\ deposits[d] \in DepositRow
      /\ deposits[d].expiresAt \in Nat /\ TypeInv
  BY DEF LinkInv, IInv, TypeInv, TypeOK, PoolTypeOK, DepositTable, DepositRow, Time
<1>1. now' \in {now, now + 1}
  BY InitiateFrame, DetectFrame, SweepFrame, CancelFrame DEF Next, Tick, Pay, Crash, vars
<1>2. \A w \in Detectors : ~Confirms(w, d)
  BY ConfirmsPaid, NullFacts DEF LinkInv, Live
<1>3. /\ deposits'[d].expiresAt = deposits[d].expiresAt
      /\ deposits'[d].txHash = deposits[d].txHash
  <2>1. CASE UpdateDepositAddress(d)
    BY <1>0, <2>1 DEF UpdateDepositAddress, DepositTable, DepositRow
  <2>2. CASE ~UpdateDepositAddress(d)
    BY <1>0, <1>2, <2>2, RowSteps DEF Unmoved
  <2> QED
    BY <2>1, <2>2
<1>4. deposits[d].status \in {"PENDING", "CONFIRMED"}
  <2>1. CASE UNCHANGED deposits
    BY <2>1 DEF Live
  <2>2. ASSUME NEW e \in Deposits, Initiate(e), deposits' # deposits
        PROVE  deposits[d].status = deposits'[d].status
    <3>1. CreateDeposit(e) \/ UpdateDepositAddress(e)
      BY <2>2 DEF Initiate, PickAddress, DiscardAddress, AssignAddress, FailInitiation
    <3> QED
      BY <1>0, <3>1 DEF CreateDeposit, UpdateDepositAddress, DepositTable, DepositRow
  <2>3. ASSUME NEW w \in Detectors, UpdateDepositTransaction(w), deposits' # deposits
        PROVE  deposits[d].status = deposits'[d].status
    <3>1. /\ ~TxHashTaken(detector[w].tx, detector[w].deposit)
          /\ deposits' = [deposits EXCEPT ![detector[w].deposit].txHash = detector[w].tx,
                                         ![detector[w].deposit].status = "CONFIRMED"]
      BY <2>3 DEF UpdateDepositTransaction
    <3>2. detector[w].deposit # d
      BY <1>0, <1>2, <2>3, <3>1 DEF Confirms, DepositTable, DepositRow
    <3> QED
      BY <1>0, <3>1, <3>2 DEF DepositTable
  <2>4. ASSUME NEW s \in Sweepers, MarkAsExpired(s), deposits' # deposits
        PROVE  deposits[d].status = deposits'[d].status
    <3>1. PICK e \in sweeper[s].deposits :
            deposits' = [deposits EXCEPT ![e].status = "EXPIRED"]
      BY <2>4 DEF MarkAsExpired
    <3>2. d # e
      BY <1>0, <3>1 DEF Live, DepositTable, DepositRow
    <3> QED
      BY <1>0, <3>1, <3>2 DEF DepositTable
  <2>5. \/ UNCHANGED deposits
        \/ \E e \in Deposits : Initiate(e)
        \/ \E w \in Detectors : UpdateDepositTransaction(w)
        \/ \E s \in Sweepers : MarkAsExpired(s)
    BY DetectFrame, SweepFrame, CancelFrame DEF Next, Tick, Pay, Crash, vars
  <2> QED
    BY <2>1, <2>2, <2>3, <2>4, <2>5 DEF Live
<1> QED
  BY <1>0, <1>1, <1>3, <1>4 DEF Live

\* Where a handler can be after a step.
LEMMA HandlerSteps ==
  ASSUME LinkInv, [Next]_vars, NEW d \in Deposits
  PROVE  \/ initiator'[d] = initiator[d]
         \/ Initiate(d)
         \/ initiator'[d].pc = "failed"
<1>0. initiator \in InitiatorTable
  BY DEF LinkInv, IInv, TypeInv, TypeOK, InitiatorTable
<1>1. \/ UNCHANGED initiator
      \/ \E e \in Deposits : Initiate(e)
      \/ Crash
  BY DetectFrame, SweepFrame, CancelFrame DEF Next, Tick, Pay, vars
<1>2. ASSUME NEW e \in Deposits, e # d, Initiate(e)
      PROVE  initiator'[d] = initiator[d]
  BY <1>0, <1>2 DEF Initiate, CreateDeposit, UpdateDepositAddress, PickAddress,
     DiscardAddress, AssignAddress, FailInitiation, InitiatorTable
<1>3. CASE Crash
  BY <1>0, <1>3 DEF Crash, InitiatorTable, InitiatorState
<1> QED
  BY <1>1, <1>2, <1>3

\* A deposit comes to hold an address only by AssignAddress.
LEMMA HoldsSteps ==
  ASSUME LinkInv, [Next]_vars, NEW d \in Deposits, NEW a \in Addresses, Holds(d, a)'
  PROVE  /\ Holds(d, a) \/ (AssignAddress(d) /\ initiator[d].address = a)
         /\ deposits'[d].expiresAt = deposits[d].expiresAt
<1>0. initiator \in InitiatorTable /\ initiator[d] \in InitiatorState /\ InitiatorLink(d)
  BY DEF LinkInv, IInv, TypeInv, TypeOK, InitiatorTable
<1>1. ~CreateDeposit(d)
  BY <1>0 DEF CreateDeposit, Holds, InitiatorTable, InitiatorState
<1>2. Live(d) /\ deposits'[d].expiresAt = deposits[d].expiresAt
  BY <1>1, LiveSteps DEF Holds
<1>3. CASE initiator'[d] = initiator[d]
  BY <1>2, <1>3 DEF Holds
<1>4. CASE Initiate(d)
  <2>1. AssignAddress(d) \/ UpdateDepositAddress(d)
    <3>1. initiator'[d].pc \in {"assigned", "done"}
      BY DEF Holds
    <3>2. ASSUME PickAddress(d)
          PROVE  initiator'[d].pc \in {"failed", "dirty", "picked"}
      <4>1. CASE initiator' = [initiator EXCEPT ![d].pc = "failed"]
        BY <1>0, <4>1 DEF InitiatorTable, InitiatorState
      <4>2. ASSUME NEW b \in Addresses, NEW verdict \in {"dirty", "picked"},
                   initiator' = [initiator EXCEPT ![d].pc = verdict, ![d].address = b]
            PROVE  initiator'[d].pc \in {"dirty", "picked"}
        BY <1>0, <4>2 DEF InitiatorTable, InitiatorState
      <4> QED
        BY <3>2, <4>1, <4>2 DEF PickAddress
    <3>3. DiscardAddress(d) => initiator'[d].pc = "created"
      BY <1>0 DEF DiscardAddress, InitiatorTable, InitiatorState
    <3>4. FailInitiation(d) => initiator'[d].pc = "failed"
      BY <1>0 DEF FailInitiation, InitiatorTable, InitiatorState
    <3> QED
      BY <1>1, <1>4, <3>1, <3>2, <3>3, <3>4 DEF Initiate
  <2>2. initiator'[d].address = initiator[d].address
    BY <1>0, <2>1 DEF AssignAddress, UpdateDepositAddress, InitiatorTable, InitiatorState
  <2>3. UpdateDepositAddress(d) => initiator[d].pc = "assigned"
    BY DEF UpdateDepositAddress
  <2> QED
    BY <1>2, <2>1, <2>2, <2>3 DEF Holds
<1> QED
  BY <1>2, <1>3, <1>4, HandlerSteps DEF Holds

\* What one step does to one row of the pool.
LEMMA PoolSteps ==
  ASSUME OnlyExpirer, LinkInv, NoCancel, [Next]_vars, NEW a \in Addresses
  PROVE  \/ pool'[a] = pool[a]
         \/ pool'[a].status = "USED"
         \/ \E d \in Deposits : /\ AssignAddress(d)
                                /\ initiator[d].address = a
                                /\ pool'[a].assignedToDepositId = d
                                /\ pool'[a].expiresAt = now + Window
         \/ \E s \in Sweepers : /\ pool'[a].status = "FREE"
                                /\ a \in sweeper[s].addresses
                                /\ a \notin sweeper'[s].addresses
<1>0. /\ pool \in PoolTable /\ pool[a] \in PoolRow /\ sweeper \in SweeperTable
      /\ initiator \in InitiatorTable
  BY DEF LinkInv, IInv, TypeInv, TypeOK, PoolTypeOK, PoolTable, SweeperTable, InitiatorTable
<1>1. ASSUME NEW b, MarkRowUsed(b)
      PROVE  pool'[a] = pool[a] \/ pool'[a].status = "USED"
  BY <1>0, <1>1 DEF MarkRowUsed, PoolTable
<1>2. CASE UNCHANGED pool
  BY <1>2
<1>3. ASSUME NEW d \in Deposits, Initiate(d)
      PROVE  \/ pool'[a] = pool[a]
             \/ pool'[a].status = "USED"
             \/ /\ AssignAddress(d)
                /\ initiator[d].address = a
                /\ pool'[a].assignedToDepositId = d
                /\ pool'[a].expiresAt = now + Window
  <2>1. CASE AssignAddress(d)
    BY <1>0, <2>1 DEF AssignAddress, AssignRow, PoolTable, PoolRow
  <2>2. CASE DiscardAddress(d)
    BY <1>1, <2>2 DEF DiscardAddress
  <2> QED
    BY <1>3, <2>1, <2>2 DEF Initiate, CreateDeposit, PickAddress, UpdateDepositAddress,
       FailInitiation
<1>4. ASSUME NEW w \in Detectors, Detect(w) \/ \E t \in Txs : StartManual(w, t)
      PROVE  pool'[a] = pool[a] \/ pool'[a].status = "USED"
  <2>1. UNCHANGED pool \/ MarkAddressAsUsed(w)
    BY <1>4 DEF Detect, StartDetection, FetchTransactions, StartManual, MatchTransaction,
       SkipTransaction, UpdateDepositTransaction, TrackProcessedTransaction, NextAddress
  <2> QED
    BY <1>1, <2>1 DEF MarkAddressAsUsed
<1>5. ASSUME NEW s \in Sweepers, Sweep(s)
      PROVE  \/ pool'[a] = pool[a]
             \/ /\ pool'[a].status = "FREE"
                /\ a \in sweeper[s].addresses
                /\ a \notin sweeper'[s].addresses
  <2>1. s = "expirer"
    BY DEF OnlyExpirer
  <2>2. UNCHANGED pool \/ ReleaseAddress(s)
    BY <1>5, <2>1 DEF Sweep, StartExpirer, MarkAsExpired, FindExpiredAssignments, EndSweep
  <2>3. CASE ReleaseAddress(s)
    <3>1. PICK b \in sweeper[s].addresses :
            /\ ReleaseRow(b) \/ UNCHANGED pool
            /\ sweeper' = [sweeper EXCEPT ![s].addresses = @ \ {b}]
      BY <2>3 DEF ReleaseAddress
    <3>2. sweeper'[s].addresses = sweeper[s].addresses \ {b}
      BY <1>0, <3>1 DEF SweeperTable, SweeperState
    <3>3. a # b => pool'[a] = pool[a]
      BY <1>0, <3>1 DEF ReleaseRow, PoolTable
    <3>4. a = b => pool'[a] = pool[a] \/ pool'[a].status = "FREE"
      BY <1>0, <3>1 DEF ReleaseRow, PoolTable, PoolRow
    <3> QED
      BY <3>1, <3>2, <3>3, <3>4
  <2> QED
    BY <2>2, <2>3
<1>6. ASSUME NEW d \in Deposits, Cancel(d)
      PROVE  UNCHANGED pool
  BY <1>6 DEF Cancel, ReadForCancel, ReleaseAndThrow, NoCancel
<1> QED
  BY <1>2, <1>3, <1>4, <1>5, <1>6 DEF Next, Tick, Pay, Crash, vars

\* A list of rows to release is read once and only shrinks.
LEMMA ListSteps ==
  ASSUME LinkInv, [Next]_vars, NEW a \in Addresses, NEW s \in Sweepers,
         a \in sweeper'[s].addresses
  PROVE  \/ a \in sweeper[s].addresses
         \/ /\ a \in ExpiredAssignments
            /\ UNCHANGED <<pool, initiator, deposits, now>>
<1>0. sweeper \in SweeperTable
  BY DEF LinkInv, IInv, TypeInv, TypeOK, SweeperTable
<1>1. CASE UNCHANGED sweeper
  BY <1>1
<1>2. CASE Crash
  BY <1>2 DEF Crash, IdleSweeper
<1>3. ASSUME NEW r \in Sweepers, r # s, Sweep(r)
      PROVE  sweeper'[s] = sweeper[s]
  BY <1>0, <1>3 DEF Sweep, StartExpirer, MarkAsExpired, FindExpiredAssignments,
     ReleaseAddress, EndSweep, SweeperTable
<1>4. CASE Sweep(s)
  <2>1. CASE FindExpiredAssignments(s)
    BY <1>0, <2>1 DEF FindExpiredAssignments, SweeperTable, SweeperState
  <2>2. CASE StartExpirer(s)
    BY <1>0, <2>2 DEF StartExpirer, SweeperTable, SweeperState
  <2>3. CASE MarkAsExpired(s)
    BY <1>0, <2>3 DEF MarkAsExpired, SweeperTable, SweeperState, IdleSweeper
  <2>4. CASE ReleaseAddress(s)
    BY <1>0, <2>4 DEF ReleaseAddress, SweeperTable, SweeperState
  <2>5. CASE EndSweep(s)
    BY <1>0, <2>5 DEF EndSweep, SweeperTable, SweeperState, IdleSweeper
  <2> QED
    BY <1>4, <2>1, <2>2, <2>3, <2>4, <2>5 DEF Sweep
<1> QED
  BY <1>1, <1>2, <1>3, <1>4, InitiateFrame, DetectFrame, CancelFrame
     DEF Next, Tick, Pay, vars

\* A handler that has picked an address has just picked it, or stands still.
LEMMA PickSteps ==
  ASSUME LinkInv, [Next]_vars, NEW d \in Deposits, NEW a \in Addresses, Picked(d, a)'
  PROVE  \/ /\ Picked(d, a)
            /\ initiator'[d] = initiator[d]
         \/ /\ pool[a].status = "FREE"
            /\ UNCHANGED <<pool, deposits, sweeper, now>>
            /\ PickAddress(d)
<1>0. initiator \in InitiatorTable /\ initiator[d] \in InitiatorState
  BY DEF LinkInv, IInv, TypeInv, TypeOK, InitiatorTable
<1>1. CASE initiator'[d] = initiator[d]
  BY <1>1 DEF Picked
<1>2. CASE Initiate(d)
  <2>1. PickAddress(d)
    BY <1>0, <1>2 DEF Initiate, CreateDeposit, DiscardAddress, AssignAddress,
       UpdateDepositAddress, FailInitiation, Picked, InitiatorTable, InitiatorState
  <2>2. PICK b \in Addresses, verdict \in {"dirty", "picked"} :
          /\ IsFirstFreeAddress(b)
          /\ initiator' = [initiator EXCEPT ![d].pc = verdict, ![d].address = b]
    BY <1>0, <2>1 DEF PickAddress, Picked, InitiatorTable, InitiatorState
  <2>3. a = b
    BY <1>0, <2>2 DEF Picked, InitiatorTable, InitiatorState
  <2> QED
    BY <2>1, <2>2, <2>3 DEF PickAddress, IsFirstFreeAddress, FreeAddresses
<1> QED
  BY <1>1, <1>2, HandlerSteps DEF Picked

\* AssignAddress gives out an address that was picked.
LEMMA AssignPicked ==
  ASSUME NEW d \in Deposits, NEW a, AssignAddress(d), initiator[d].address = a
  PROVE  Picked(d, a) /\ Initiated(d)
BY DEF AssignAddress, Picked, Initiated

(***************************************************************************)
(* Each part of the invariant after a step.                                *)
(***************************************************************************)
LEMMA HolderNext ==
  ASSUME OnlyExpirer, ShareInv, [Next]_vars
  PROVE  HolderKeepsRow'
<1> SUFFICES ASSUME NEW a \in Addresses, NEW d \in Deposits, Holds(d, a)'
             PROVE  \/ /\ pool'[a].assignedToDepositId = d
                       /\ pool'[a].expiresAt >= deposits'[d].expiresAt
                    \/ pool'[a].status = "USED"
  BY DEF HolderKeepsRow
<1>0. LinkInv /\ NoCancel
  BY DEF ShareInv
<1>1. deposits'[d].expiresAt = deposits[d].expiresAt
  BY <1>0, HoldsSteps
<1>2. CASE AssignAddress(d) /\ initiator[d].address = a
  <2>1. pool'[a].assignedToDepositId = d /\ pool'[a].expiresAt = now + Window
    BY <1>0, <1>2 DEF AssignAddress, AssignRow, LinkInv, IInv, TypeInv, TypeOK, PoolTypeOK,
       PoolRow
  <2>2. deposits[d].expiresAt <= now + Window /\ now \in Nat /\ deposits[d].expiresAt \in Nat
    BY DEF ShareInv, CreatedBefore, LinkInv, IInv, TypeInv, TypeOK, PoolTypeOK, DepositRow, Time
  <2> QED
    BY <1>1, <2>1, <2>2
<1>3. CASE Holds(d, a)
  <2>1. ~ \E e \in Deposits : AssignAddress(e) /\ initiator[e].address = a
    BY <1>3, AssignPicked DEF ShareInv, PickIsFree, Unheld
  <2>2. ~ \E s \in Sweepers : a \in sweeper[s].addresses
    BY <1>3 DEF ShareInv, ListIsExpired, Unheld
  <2>3. pool'[a] = pool[a] \/ pool'[a].status = "USED"
    BY <1>0, <2>1, <2>2, PoolSteps
  <2> QED
    BY <1>1, <1>3, <2>3 DEF ShareInv, HolderKeepsRow
<1> QED
  BY <1>0, <1>2, <1>3, HoldsSteps

\* No step gives an address a second open initiation.
LEMMA OneHolderNext ==
  ASSUME OneInitiation, ShareInv, [Next]_vars
  PROVE  OneHolder'
<1> SUFFICES ASSUME NEW a \in Addresses, NEW d \in Deposits, NEW e \in Deposits,
                    Holds(d, a)', Holds(e, a)'
             PROVE  d = e
  BY DEF OneHolder
<1>0. LinkInv
  BY DEF ShareInv
<1>1. /\ Holds(d, a) \/ (AssignAddress(d) /\ initiator[d].address = a)
      /\ Holds(e, a) \/ (AssignAddress(e) /\ initiator[e].address = a)
  BY <1>0, HoldsSteps
<1>2. CASE Holds(d, a) /\ Holds(e, a)
  BY <1>2 DEF ShareInv, OneHolder
<1>3. ASSUME NEW c \in Deposits, AssignAddress(c), initiator[c].address = a
      PROVE  ~Holds(d, a) /\ ~Holds(e, a)
  BY <1>3, AssignPicked DEF ShareInv, PickIsFree, Unheld
<1>4. CASE ~Holds(d, a) /\ ~Holds(e, a)
  BY <1>1, <1>4, AssignPicked, SerialInitiation
<1> QED
  BY <1>1, <1>2, <1>3, <1>4

\* The address an initiation has picked stays free until it is assigned.
LEMMA PickNext ==
  ASSUME OnlyExpirer, OneInitiation, ShareInv, [Next]_vars
  PROVE  PickIsFree'
<1> SUFFICES ASSUME NEW a \in Addresses, NEW d \in Deposits, Picked(d, a)'
             PROVE  /\ pool'[a].status # "ASSIGNED"
                    /\ Unheld(a)'
                    /\ \A s \in Sweepers : a \notin sweeper'[s].addresses
  BY DEF PickIsFree
<1>0. LinkInv /\ NoCancel /\ PoolLink(a)
  BY DEF ShareInv, LinkInv
<1>1. CASE Picked(d, a) /\ initiator'[d] = initiator[d]
  <2>1. /\ pool[a].status # "ASSIGNED" /\ Unheld(a)
        /\ \A s \in Sweepers : a \notin sweeper[s].addresses
    BY <1>1 DEF ShareInv, PickIsFree
  <2>2. ASSUME NEW e \in Deposits, AssignAddress(e) PROVE FALSE
    <3>1. Initiated(d) /\ Initiated(e)
      BY <1>1, <2>2 DEF Picked, AssignAddress, Initiated
    <3>2. e = d
      BY <3>1, SerialInitiation
    <3>3. initiator'[d].pc = "assigned"
      BY <1>0, <2>2, <3>2 DEF AssignAddress, LinkInv, IInv, TypeInv, TypeOK, InitiatorState
    <3> QED
      BY <1>1, <3>3 DEF Picked
  <2>3. pool'[a].status # "ASSIGNED"
    BY <1>0, <2>1, <2>2, PoolSteps
  <2>4. Unheld(a)'
    BY <1>0, <2>1, <2>2, HoldsSteps DEF Unheld
  <2>5. \A s \in Sweepers : a \notin sweeper'[s].addresses
    BY <1>0, <2>1, ListSteps DEF ExpiredAssignments
  <2> QED
    BY <2>3, <2>4, <2>5
<1>2. CASE /\ pool[a].status = "FREE"
           /\ UNCHANGED <<pool, deposits, sweeper, now>>
           /\ PickAddress(d)
  <2>1. Unheld(a)
    BY <1>0, <1>2, NullFacts DEF ShareInv, HolderKeepsRow, Unheld, PoolLink
  <2>2. \A e \in Deposits : ~AssignAddress(e) \/ initiator[e].address # a
    BY <1>2, SerialInitiation DEF PickAddress, AssignAddress, Initiated
  <2>3. Unheld(a)'
    BY <1>0, <2>1, <2>2, HoldsSteps DEF Unheld
  <2>4. \A s \in Sweepers : a \notin sweeper[s].addresses
    BY <1>2 DEF ShareInv, ListIsExpired
  <2> QED
    BY <1>2, <2>3, <2>4
<1> QED
  BY <1>0, <1>1, <1>2, PickSteps

\* The list of an expiry run holds only addresses of expired deposits.
LEMMA ListNext ==
  ASSUME OnlyExpirer, ShareInv, [Next]_vars
  PROVE  ListIsExpired'
<1> SUFFICES ASSUME NEW a \in Addresses, NEW s \in Sweepers, a \in sweeper'[s].addresses
             PROVE  pool'[a].status # "FREE" /\ Unheld(a)'
  BY DEF ListIsExpired
<1>0. LinkInv /\ NoCancel
  BY DEF ShareInv
<1>1. CASE a \in sweeper[s].addresses
  <2>1. pool[a].status # "FREE" /\ Unheld(a)
    BY <1>1 DEF ShareInv, ListIsExpired
  <2>2. ~ \E e \in Deposits : AssignAddress(e) /\ initiator[e].address = a
    BY <1>1, AssignPicked DEF ShareInv, PickIsFree
  <2>3. \A r \in Sweepers : r = s
    BY DEF OnlyExpirer
  <2>4. pool'[a].status # "FREE"
    BY <1>0, <2>1, <2>2, <2>3, PoolSteps
  <2>5. Unheld(a)'
    BY <1>0, <2>1, <2>2, HoldsSteps DEF Unheld
  <2> QED
    BY <2>4, <2>5
<1>2. CASE a \in ExpiredAssignments /\ UNCHANGED <<pool, initiator, deposits, now>>
  <2>1. pool[a].status = "ASSIGNED" /\ pool[a].expiresAt <= now
    BY <1>2 DEF ExpiredAssignments
  <2>2. \A e \in Deposits : Holds(e, a)' => Holds(e, a)
    BY <1>2 DEF Holds, Live
  <2>3. now \in Nat /\ pool[a].expiresAt \in Nat
        /\ \A e \in Deposits : deposits[e].expiresAt \in Nat
    BY <1>0 DEF LinkInv, IInv, TypeInv, TypeOK, PoolTypeOK, PoolRow, DepositRow, Time
  <2>4. Unheld(a)
    BY <2>1, <2>3 DEF ShareInv, HolderKeepsRow, Unheld, Holds, Live
  <2> QED
    BY <1>2, <2>1, <2>2, <2>4 DEF Unheld
<1> QED
  BY <1>0, <1>1, <1>2, ListSteps

\* No deposit expires later than a window from now.
LEMMA CreatedNext ==
  ASSUME ShareInv, [Next]_vars
  PROVE  CreatedBefore'
<1> SUFFICES ASSUME NEW d \in Deposits PROVE deposits'[d].expiresAt <= now' + Window
  BY DEF CreatedBefore
<1>0. /\ deposits \in DepositTable /\ now \in Nat /\ deposits[d].expiresAt \in Nat
      /\ deposits[d].expiresAt <= now + Window /\ TypeInv
  BY DEF ShareInv, CreatedBefore, LinkInv, IInv, TypeInv, TypeOK, PoolTypeOK,
     DepositTable, DepositRow, Time
<1>1. now' \in {now, now + 1}
  BY InitiateFrame, DetectFrame, SweepFrame, CancelFrame DEF Next, Tick, Pay, Crash, vars
<1>2. \/ deposits'[d].expiresAt = deposits[d].expiresAt
      \/ CreateDeposit(d) /\ deposits'[d].expiresAt = now + Window
  <2>1. CreateDeposit(d) => deposits'[d].expiresAt = now + Window
    BY <1>0 DEF CreateDeposit, DepositTable
  <2>2. UpdateDepositAddress(d) => deposits'[d].expiresAt = deposits[d].expiresAt
    BY <1>0 DEF UpdateDepositAddress, DepositTable, DepositRow
  <2> QED
    BY <1>0, <2>1, <2>2, RowSteps DEF Unmoved
<1> QED
  BY <1>0, <1>1, <1>2

\* Without cancel requests none is ever under way.
LEMMA NoCancelNext ==
  ASSUME OnlyExpirer, ShareInv, [Next]_vars
  PROVE  NoCancel'
<1>0. NoCancel /\ cancel \in CancelTable
  BY DEF ShareInv, LinkInv, IInv, TypeInv, TypeOK, CancelTable
<1>1. \A d \in Deposits : ~Cancel(d)
  BY <1>0 DEF OnlyExpirer, NoCancel, Cancel, ReadForCancel, ReleaseAndThrow
<1>2. CASE UNCHANGED cancel
  BY <1>0, <1>2 DEF NoCancel
<1>3. CASE Crash
  BY <1>0, <1>3 DEF Crash, NoCancel, IdleCancel
<1> QED
  BY <1>1, <1>2, <1>3, InitiateFrame, DetectFrame, SweepFrame DEF Next, Tick, Pay, vars

\* The invariant holds at the start.
LEMMA ShareInit ==
  ASSUME Init
  PROVE  ShareInv /\ OneInitiation
<1>1. LinkInv
  BY LinkInit
<1>2. \A d \in Deposits : /\ initiator[d] = IdleInitiator
                          /\ deposits[d] = NoDeposit /\ cancel[d] = IdleCancel
  BY DEF Init
<1>3. HolderKeepsRow /\ OneHolder /\ PickIsFree
  BY <1>2 DEF IdleInitiator, HolderKeepsRow, OneHolder, PickIsFree, Holds, Picked
<1>4. ListIsExpired
  BY DEF Init, ListIsExpired, IdleSweeper
<1>5. CreatedBefore /\ NoCancel
  BY <1>2, NullFacts DEF Init, PoolInit, CreatedBefore, NoCancel, NoDeposit, IdleCancel, Null
<1>6. Initiating = {}
  BY <1>2 DEF Initiating, IdleInitiator
<1>7. OneInitiation
  BY <1>6, FS_EmptySet DEF OneInitiation
<1> QED
  BY <1>1, <1>3, <1>4, <1>5, <1>7 DEF ShareInv

\* Where initiations do not overlap, nobody cancels and only the expirer
\* releases rows, two open deposits that wait for their payment never show
\* their payers the same address, whatever detector runs, late and stray
\* transfers, failing statements and restarts do in between.
THEOREM OpenAddressIsUnique ==
  ASSUME Cancellable = {}, Sweepers \subseteq {"expirer"}
  PROVE  SerialSpec => []UniqueOpenAddress
<1>0. OnlyExpirer
  BY DEF OnlyExpirer
<1>1. Init => ShareInv /\ OneInitiation
  BY ShareInit
<1>2. ShareInv /\ OneInitiation /\ [SerialNext]_vars => (ShareInv /\ OneInitiation)'
  <2> SUFFICES ASSUME ShareInv, OneInitiation, [SerialNext]_vars
               PROVE  ShareInv' /\ OneInitiation'
    OBVIOUS
  <2>1. [Next]_vars
    BY DEF SerialNext
  <2>2. OneInitiation'
    BY DEF SerialNext, OneInitiation, Initiating, vars
  <2>3. LinkInv'
    BY <2>1, LinkNext DEF ShareInv
  <2> QED
    BY <1>0, <2>1, <2>2, <2>3, HolderNext, OneHolderNext, PickNext, ListNext,
       CreatedNext, NoCancelNext DEF ShareInv
<1>3. ShareInv => UniqueOpenAddress
  <2> SUFFICES ASSUME ShareInv, NEW a \in Addresses,
                      NEW d \in OpenDeposits(a), NEW e \in OpenDeposits(a),
                      deposits[d].txHash = Null, deposits[e].txHash = Null
               PROVE  d = e
    BY DEF UniqueOpenAddress
  <2>1. \A c \in OpenDeposits(a) : deposits[c].txHash = Null => c \in Deposits /\ Holds(c, a)
    BY NullFacts DEF OpenDeposits, Holds, Live, ShareInv, LinkInv, InitiatorLink
  <2> QED
    BY <2>1 DEF ShareInv, OneHolder
<1> QED
  BY <1>1, <1>2, <1>3, PTL DEF SerialSpec
=============================================================================
