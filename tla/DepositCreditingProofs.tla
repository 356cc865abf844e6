----------------------- MODULE DepositCreditingProofs -----------------------
(***************************************************************************)
(* Proofs about module DepositCrediting, for any users, deposits, amounts, *)
(* processor runs, faults and restarts.                                    *)
(***************************************************************************)
EXTENDS DepositCrediting, SumTheorems, TLAPS

USE CreditingAssumption DEF tables, environment

(***************************************************************************)
(* Types.                                                                  *)
(***************************************************************************)
DepositTable == [Deposits -> DepositRow]
ProcessorTable == [Processors -> ProcessorState]
LedgerTable == [Deposits -> Seq(Nat)]

\* A run has a current deposit except where it is idle or between two rows.
TodoLeft == \A p \in Processors :
  processor[p].todo = {} => processor[p].pc \in {"idle", "next"}

LEMMA IdleType == IdleProcessor \in ProcessorState
BY DEF IdleProcessor, ProcessorState

LEMMA WholeCredits ==
  ASSUME NEW d \in Deposits
  PROVE  CreditsToAdd(d) \in Nat
<1>1. AmountOf[d] \in Nat /\ Unit \in Nat /\ Unit > 0
  OBVIOUS
<1> QED
  BY <1>1 DEF CreditsToAdd

LEMMA LedgerTypes ==
  ASSUME ledger \in LedgerTable, NEW d \in Deposits
  PROVE  /\ [ledger EXCEPT ![d] = Append(@, 0)] \in LedgerTable
         /\ \A n \in Nat : [ledger EXCEPT ![d] = [i \in DOMAIN @ |-> n]] \in LedgerTable
<1>1. ledger[d] \in Seq(Nat) /\ Append(ledger[d], 0) \in Seq(Nat)
  BY DEF LedgerTable
<1>2. ASSUME NEW n \in Nat
      PROVE  [i \in DOMAIN ledger[d] |-> n] \in Seq(Nat)
  <2>1. DOMAIN ledger[d] = 1 .. Len(ledger[d]) /\ Len(ledger[d]) \in Nat
    BY <1>1
  <2> QED
    BY <2>1
<1> QED
  BY <1>1, <1>2 DEF LedgerTable

LEMMA TypeInit == Init => TypeOK
<1>1. ASSUME NEW d \in Deposits
      PROVE  [status |-> "PENDING", paid |-> FALSE, processed |-> FALSE,
              energyRecipientAddress |-> RecipientOf[d]] \in DepositRow
  BY DEF DepositRow
<1>2. << >> \in Seq(Nat)
  OBVIOUS
<1> QED
  BY <1>1, <1>2, IdleType DEF Init, TypeOK, IdleProcessor

(***************************************************************************)
(* What a run of processConfirmedDeposits does to each table.              *)
(***************************************************************************)
LEMMA ProcessorTypes ==
  ASSUME TypeOK, NEW p \in Processors, Process(p)
  PROVE  processor' \in ProcessorTable /\ TodoLeft'
<1>0. processor \in ProcessorTable /\ processor[p] \in ProcessorState /\ TodoLeft
  BY DEF TypeOK, ProcessorTable, TodoLeft
<1>1. CASE StartProcessing(p)
  <2>1. /\ ConfirmedButUnprocessed \subseteq Deposits
        /\ [d \in Deposits |-> deposits[d].energyRecipientAddress] \in [Deposits -> Recipients]
    BY DEF ConfirmedButUnprocessed, TypeOK, DepositRow
  <2> QED
    BY <1>0, <1>1, <2>1 DEF StartProcessing, ProcessorState, ProcessorTable, TodoLeft
<1>2. ASSUME NEW d \in Deposits, Continue(p, d)
      PROVE  processor' \in ProcessorTable /\ TodoLeft'
  BY <1>0, <1>2 DEF Continue, ProcessorState, ProcessorTable, TodoLeft
<1>3. ASSUME NEW pc \in {"readBalance", "writeBalance", "fail"}, Goto(p, pc),
             processor[p].todo # {}
      PROVE  processor' \in ProcessorTable /\ TodoLeft'
  BY <1>0, <1>3 DEF Goto, ProcessorState, ProcessorTable, TodoLeft
<1>4. ASSUME processor' = [processor EXCEPT ![p] = IdleProcessor]
      PROVE  processor' \in ProcessorTable /\ TodoLeft'
  BY <1>0, <1>4, IdleType DEF IdleProcessor, ProcessorTable, TodoLeft
<1>5. ASSUME NEW d \in Deposits, CreditEnergyDeposit(p, d) \/ CreditTopup(p, d)
      PROVE  processor' \in ProcessorTable /\ TodoLeft'
  BY <1>2, <1>3, <1>5 DEF CreditEnergyDeposit, CreditTopup, IsCurrent
<1>6. ASSUME NEW d \in Deposits, ReadV2Credits(p, d)
      PROVE  processor' \in ProcessorTable /\ TodoLeft'
  <2>1. processor[p].todo # {} /\ v2Credits[UserOf[d]] \in Nat
    BY <1>6 DEF ReadV2Credits, IsCurrent, TypeOK
  <2>2. CASE Goto(p, "fail")
    BY <1>3, <2>1, <2>2
  <2>3. CASE processor' = [processor EXCEPT ![p].pc = "writeBalance",
                                            ![p].balance = v2Credits[UserOf[d]]]
    BY <1>0, <2>1, <2>3 DEF ProcessorState, ProcessorTable, TodoLeft
  <2> QED
    BY <1>6, <2>2, <2>3 DEF ReadV2Credits
<1>7. ASSUME NEW d \in Deposits, UpdateBalanceAfter(p, d) \/ MarkAsFailed(p, d)
      PROVE  processor' \in ProcessorTable /\ TodoLeft'
  BY <1>2, <1>3, <1>4, <1>7 DEF UpdateBalanceAfter, MarkAsFailed, IsCurrent
<1>8. CASE EndProcessing(p)
  BY <1>4, <1>8 DEF EndProcessing
<1> QED
  BY <1>1, <1>5, <1>6, <1>7, <1>8 DEF Process

\* The statements on deposits.
LEMMA DepositTypes ==
  ASSUME deposits \in DepositTable, NEW d \in Deposits
  PROVE  /\ \A status \in {"EXPIRED", "FAILED"} :
              SetStatus(d, status) => deposits' \in DepositTable
         /\ MarkProcessed(d) => deposits' \in DepositTable
         /\ Confirm(d) => deposits' \in DepositTable
         /\ UpdateEnergyRecipientAddress(d) => deposits' \in DepositTable
<1>0. deposits[d] \in DepositRow
  BY DEF DepositTable
<1>1. ASSUME NEW row \in DepositRow
      PROVE  [deposits EXCEPT ![d] = row] \in DepositTable
  BY DEF DepositTable
<1>2. \A status \in {"EXPIRED", "FAILED"} :
        SetStatus(d, status) => deposits' \in DepositTable
  BY DEF SetStatus, DepositTable, DepositRow
<1>3. MarkProcessed(d) => deposits' \in DepositTable
  <2>1. [deposits[d] EXCEPT !.status = "PROCESSED", !.processed = TRUE] \in DepositRow
    BY <1>0 DEF DepositRow
  <2>2. MarkProcessed(d) =>
          deposits' = [deposits EXCEPT ![d] =
                        [deposits[d] EXCEPT !.status = "PROCESSED", !.processed = TRUE]]
    BY DEF MarkProcessed, DepositTable
  <2> QED
    BY <1>1, <2>1, <2>2
<1>4. Confirm(d) => deposits' \in DepositTable
  <2>1. [deposits[d] EXCEPT !.status = "CONFIRMED", !.paid = TRUE] \in DepositRow
    BY <1>0 DEF DepositRow
  <2>2. Confirm(d) =>
          deposits' = [deposits EXCEPT ![d] =
                        [deposits[d] EXCEPT !.status = "CONFIRMED", !.paid = TRUE]]
    BY DEF Confirm, DepositTable
  <2> QED
    BY <1>1, <2>1, <2>2
<1>5. UpdateEnergyRecipientAddress(d) => deposits' \in DepositTable
  <2>1. ASSUME NEW r \in Recipients
        PROVE  [deposits EXCEPT ![d].energyRecipientAddress = r] \in DepositTable
    <3>1. [deposits[d] EXCEPT !.energyRecipientAddress = r] \in DepositRow
      BY <1>0 DEF DepositRow
    <3> QED
      BY <1>1, <3>1 DEF DepositTable
  <2> QED
    BY <2>1 DEF UpdateEnergyRecipientAddress
<1> QED
  BY <1>2, <1>3, <1>4, <1>5

LEMMA TypeProcess ==
  ASSUME TypeOK, NEW p \in Processors, Process(p)
  PROVE  TypeOK'
<1>0. /\ deposits \in DepositTable /\ ledger \in LedgerTable
      /\ processor[p] \in ProcessorState
      /\ credits \in [Users -> Nat] /\ v2Credits \in [Users -> Nat]
      /\ delivery \in [Deposits -> Recipients \cup {None}]
      /\ remaining \in [Recipients -> Nat]
  BY DEF TypeOK, DepositTable, LedgerTable
<1>1. processor' \in ProcessorTable /\ TodoLeft' /\ UNCHANGED environment
  BY ProcessorTypes DEF Process, StartProcessing, CreditEnergyDeposit, CreditTopup,
     ReadV2Credits, UpdateBalanceAfter, MarkAsFailed, EndProcessing
<1> DEFINE Typed == /\ deposits' \in DepositTable /\ ledger' \in LedgerTable
                    /\ credits' \in [Users -> Nat] /\ v2Credits' \in [Users -> Nat]
                    /\ delivery' \in [Deposits -> Recipients \cup {None}]
                    /\ remaining' \in [Recipients -> Nat]
<1>2. SUFFICES Typed
  BY <1>1 DEF TypeOK, DepositTable, LedgerTable, ProcessorTable, TodoLeft
<1>3. CASE StartProcessing(p) \/ EndProcessing(p) \/ UNCHANGED tables
  BY <1>0, <1>3 DEF StartProcessing, EndProcessing
<1>4. ASSUME NEW d \in Deposits, CreditEnergyDeposit(p, d)
      PROVE  Typed
  <2>1. /\ processor[p].recipient[d] \in Recipients
        /\ UserOf[d] \in Users /\ AmountOf[d] \in Nat /\ PackageOf[d] \in Nat
    BY <1>0 DEF ProcessorState
  <2> QED
    BY <1>0, <1>4, <2>1, DepositTypes DEF CreditEnergyDeposit
<1>5. ASSUME NEW d \in Deposits, CreditTopup(p, d)
      PROVE  Typed
  <2>1. UserOf[d] \in Users /\ CreditsToAdd(d) \in Nat
    BY WholeCredits
  <2>2. ledger' \in LedgerTable
    <3>1. [ledger EXCEPT ![d] = Append(@, 0)] \in LedgerTable
      BY <1>0, LedgerTypes
    <3> QED
      BY <1>0, <1>5, <3>1 DEF CreditTopup
  <2>3. deposits' \in DepositTable
    BY <1>0, <1>5, DepositTypes DEF CreditTopup
  <2>4. v2Credits' \in [Users -> Nat]
    BY <1>0, <1>5, <2>1 DEF CreditTopup
  <2> QED
    BY <1>0, <1>5, <2>2, <2>3, <2>4 DEF CreditTopup
<1>6. ASSUME NEW d \in Deposits, UpdateBalanceAfter(p, d)
      PROVE  Typed
  <2>1. processor[p].balance \in Nat
    BY <1>0 DEF ProcessorState
  <2>2. [ledger EXCEPT ![d] = [i \in DOMAIN @ |-> processor[p].balance]] \in LedgerTable
    BY <1>0, <2>1, LedgerTypes
  <2>3. ledger' \in LedgerTable
    BY <1>0, <1>6, <2>2 DEF UpdateBalanceAfter
  <2> QED
    BY <1>0, <1>6, <2>3 DEF UpdateBalanceAfter
<1>7. ASSUME NEW d \in Deposits, MarkAsFailed(p, d)
      PROVE  Typed
  BY <1>0, <1>7, DepositTypes DEF MarkAsFailed
<1>8. \A d \in Deposits : ReadV2Credits(p, d) => UNCHANGED tables
  BY DEF ReadV2Credits
<1> QED
  BY <1>3, <1>4, <1>5, <1>6, <1>7, <1>8 DEF Process

LEMMA TypeNext == TypeOK /\ [Next]_vars => TypeOK'
<1> SUFFICES ASSUME TypeOK, [Next]_vars PROVE TypeOK'
  OBVIOUS
<1>0. deposits \in DepositTable
  BY DEF TypeOK, DepositTable
<1>1. ASSUME NEW d \in Deposits,
             \/ Confirm(d) \/ FindExpired(d) \/ MarkAsExpired(d)
             \/ CheckRelocation(d) \/ UpdateEnergyRecipientAddress(d)
      PROVE  TypeOK'
  <2>1. deposits' \in DepositTable
    BY <1>0, <1>1, DepositTypes DEF FindExpired, MarkAsExpired, CheckRelocation
  <2>2. /\ expiring' \subseteq Deposits
        /\ relocation' \in [Deposits -> {"no", "read", "done"}]
    BY <1>1 DEF TypeOK, Confirm, FindExpired, MarkAsExpired, CheckRelocation,
       UpdateEnergyRecipientAddress
  <2>3. UNCHANGED <<credits, v2Credits, delivery, remaining, ledger, processor, restarts>>
    BY <1>1 DEF Confirm, FindExpired, MarkAsExpired, CheckRelocation,
       UpdateEnergyRecipientAddress
  <2> QED
    BY <2>1, <2>2, <2>3 DEF TypeOK, DepositTable
<1>2. CASE Crash
  BY <1>2, IdleType DEF Crash, TypeOK, IdleProcessor
<1>3. CASE UNCHANGED vars
  BY <1>3 DEF vars, TypeOK
<1> QED
  BY <1>1, <1>2, <1>3, TypeProcess DEF Next

\* TypeOK holds for any deposits, users, amounts, runs, faults and restarts.
THEOREM TypeCorrect == Spec => []TypeOK
BY TypeInit, TypeNext, PTL DEF Spec

(***************************************************************************)
(* Crediting implements DepositGrants if topups are processed by one run   *)
(* at a time (or there are none).                                          *)
(***************************************************************************)
IsTopup(d) == PurposeOf[d] = "TOPUP"

\* Each purpose writes its own tables.
OneKindOfGrant == \A d \in Deposits :
  IF IsTopup(d) THEN delivery[d] = None ELSE ledger[d] = << >>

\* A topup that was granted is not read again, not even when it is marked
\* FAILED afterwards: processedAt stays set.
GrantedTopupProcessed == \A d \in Deposits :
  IsTopup(d) /\ ledger[d] # << >> => deposits[d].processed

\* Of the rows a run has left, only the one it has just credited is granted.
TodoNotGranted == \A p \in Processors : \A d \in processor[p].todo :
  IsTopup(d) /\ ledger[d] # << >> => processor[p].pc # "next" /\ IsCurrent(p, d)

GrantInv == OneKindOfGrant /\ GrantedTopupProcessed /\ TodoNotGranted

OneTopupRun == (\A p, q \in Processors : p = q) \/ (\A d \in Deposits : ~IsTopup(d))

LEMMA Rewritten ==
  ASSUME NEW s \in Seq(Nat), NEW n \in Nat
  PROVE  [i \in DOMAIN s |-> n] = << >> <=> s = << >>
<1>1. [i \in DOMAIN s |-> n] \in Seq(Nat) /\ Len([i \in DOMAIN s |-> n]) = Len(s)
  <2>1. DOMAIN s = 1 .. Len(s) /\ Len(s) \in Nat
    OBVIOUS
  <2> QED
    BY <2>1
<1>2. \A t \in Seq(Nat) : t = << >> <=> Len(t) = 0
  OBVIOUS
<1> QED
  BY <1>1, <1>2

LEMMA Appended ==
  ASSUME NEW s \in Seq(Nat), NEW n \in Nat
  PROVE  Append(s, n) # << >>
<1>1. Len(Append(s, n)) = Len(s) + 1 /\ Len(s) \in Nat
  OBVIOUS
<1>2. \A t \in Seq(Nat) : t = << >> => Len(t) = 0
  OBVIOUS
<1>3. Append(s, n) \in Seq(Nat)
  OBVIOUS
<1>4. Len(Append(s, n)) # 0
  BY <1>1
<1> QED
  BY <1>2, <1>3, <1>4

\* The oldest row of a run is one row.
LEMMA CurrentIsUnique ==
  ASSUME TypeOK, NEW p \in Processors, NEW d \in Deposits, NEW e \in Deposits,
         IsCurrent(p, d), IsCurrent(p, e)
  PROVE  d = e
BY DEF IsCurrent, Deposits

LEMMA GrantInit == Init => GrantInv
<1> SUFFICES ASSUME Init PROVE GrantInv
  OBVIOUS
<1>1. OneKindOfGrant /\ GrantedTopupProcessed
  BY DEF Init, OneKindOfGrant, GrantedTopupProcessed
<1>2. \A p \in Processors : processor[p].todo = {}
  BY DEF Init, IdleProcessor
<1> QED
  BY <1>1, <1>2 DEF GrantInv, TodoNotGranted

\* Marking a row never takes processedAt away.
LEMMA ProcessedStays ==
  ASSUME TypeOK, NEW d \in Deposits,
         \/ UNCHANGED deposits
         \/ \E e \in Deposits : \/ MarkProcessed(e) \/ Confirm(e)
                                \/ UpdateEnergyRecipientAddress(e)
                                \/ SetStatus(e, "FAILED") \/ SetStatus(e, "EXPIRED")
  PROVE  deposits[d].processed => deposits'[d].processed
<1>0. deposits \in DepositTable /\ deposits[d] \in DepositRow
  BY DEF TypeOK, DepositTable
<1>1. ASSUME NEW e \in Deposits, MarkProcessed(e)
      PROVE  deposits[d].processed => deposits'[d].processed
  BY <1>0, <1>1 DEF MarkProcessed, DepositTable, DepositRow
<1>2. ASSUME NEW e \in Deposits, Confirm(e)
      PROVE  deposits[d].processed => deposits'[d].processed
  BY <1>0, <1>2 DEF Confirm, DepositTable, DepositRow
<1>3. ASSUME NEW e \in Deposits, UpdateEnergyRecipientAddress(e)
      PROVE  deposits[d].processed => deposits'[d].processed
  BY <1>0, <1>3 DEF UpdateEnergyRecipientAddress, DepositTable, DepositRow
<1>4. ASSUME NEW e \in Deposits, SetStatus(e, "FAILED") \/ SetStatus(e, "EXPIRED")
      PROVE  deposits[d].processed => deposits'[d].processed
  BY <1>0, <1>4 DEF SetStatus, DepositTable, DepositRow
<1> QED
  BY <1>1, <1>2, <1>3, <1>4

\* A step that grants nothing keeps GrantInv if a run at most leaves the row
\* it works on.
LEMMA GrantKept ==
  ASSUME TypeOK, GrantInv, UNCHANGED delivery,
         \A d \in Deposits : ledger'[d] = << >> <=> ledger[d] = << >>,
         \A d \in Deposits : deposits[d].processed => deposits'[d].processed,
         TodoNotGranted'
  PROVE  GrantInv'
BY DEF GrantInv, OneKindOfGrant, GrantedTopupProcessed

LEMMA TodoAfterRow ==
  ASSUME TypeOK, GrantInv, NEW p \in Processors, NEW d \in Deposits,
         IsCurrent(p, d), Continue(p, d),
         \A e \in Deposits : ledger'[e] = << >> <=> ledger[e] = << >>
  PROVE  TodoNotGranted'
<1>0. processor \in ProcessorTable /\ processor[p].todo \subseteq Deposits
  BY DEF TypeOK, ProcessorTable, ProcessorState
<1>1. \A q \in Processors \ {p} : processor'[q] = processor[q]
  BY <1>0 DEF Continue, ProcessorTable
<1>2. processor'[p].todo = processor[p].todo \ {d}
  BY <1>0 DEF Continue, ProcessorTable, ProcessorState
<1>3. ASSUME NEW e \in processor'[p].todo
      PROVE  ~(IsTopup(e) /\ ledger'[e] # << >>)
  <2>1. e \in processor[p].todo /\ e # d /\ e \in Deposits
    BY <1>0, <1>2
  <2>2. ~IsCurrent(p, e)
    BY <2>1, CurrentIsUnique
  <2> QED
    BY <2>1, <2>2 DEF GrantInv, TodoNotGranted
<1>4. ASSUME NEW q \in Processors, q # p, NEW e \in processor'[q].todo,
             IsTopup(e), ledger'[e] # << >>
      PROVE  processor'[q].pc # "next" /\ IsCurrent(q, e)'
  <2>1. e \in processor[q].todo /\ e \in Deposits /\ ledger[e] # << >>
    BY <1>1, <1>4 DEF TypeOK, ProcessorState
  <2> QED
    BY <1>1, <1>4, <2>1 DEF GrantInv, TodoNotGranted, IsCurrent
<1> QED
  BY <1>3, <1>4 DEF TodoNotGranted

LEMMA TodoAfterGoto ==
  ASSUME TypeOK, GrantInv, NEW p \in Processors, processor[p].todo # {} => processor'[p].pc # "next",
         processor'[p].todo = processor[p].todo,
         \A q \in Processors \ {p} : processor'[q] = processor[q],
         \A e \in Deposits : ledger'[e] = << >> <=> ledger[e] = << >>
  PROVE  TodoNotGranted'
<1>1. ASSUME NEW q \in Processors, NEW e \in processor'[q].todo,
             IsTopup(e), ledger'[e] # << >>
      PROVE  processor'[q].pc # "next" /\ IsCurrent(q, e)'
  <2>1. processor'[q].todo = processor[q].todo
    OBVIOUS
  <2>2. e \in processor[q].todo /\ e \in Deposits /\ ledger[e] # << >>
    BY <1>1, <2>1 DEF TypeOK, ProcessorState
  <2>3. processor[q].pc # "next" /\ IsCurrent(q, e)
    BY <1>1, <2>2 DEF GrantInv, TodoNotGranted
  <2>4. processor'[q].pc # "next"
    BY <2>2, <2>3
  <2>5. IsCurrent(q, e)'
    BY <2>1, <2>3 DEF IsCurrent
  <2> QED
    BY <2>4, <2>5
<1> QED
  BY <1>1 DEF TodoNotGranted

LEMMA TodoAfterEnd ==
  ASSUME TypeOK, GrantInv, NEW p \in Processors,
         processor' = [processor EXCEPT ![p] = IdleProcessor],
         \A e \in Deposits : ledger'[e] = << >> <=> ledger[e] = << >>
  PROVE  TodoNotGranted'
<1>1. processor'[p].todo = {} /\ \A q \in Processors \ {p} : processor'[q] = processor[q]
  BY DEF TypeOK, IdleProcessor
<1>2. \A q \in Processors : processor[q].todo \subseteq Deposits
  BY DEF TypeOK, ProcessorState
<1> QED
  BY <1>1, <1>2 DEF GrantInv, TodoNotGranted, IsCurrent

\* What GrantInv and the abstract specification need of a step.
grantVars == <<GrantedDeposits, credits, v2Credits, remaining>>
Refines == GrantInv' /\ [Grants!Next]_grantVars

\* A step that leaves what users own and what was granted.
LEMMA NothingGranted ==
  ASSUME TypeOK, GrantInv, UNCHANGED <<credits, v2Credits, remaining, delivery>>,
         \A d \in Deposits : ledger'[d] = << >> <=> ledger[d] = << >>,
         \A d \in Deposits : deposits[d].processed => deposits'[d].processed,
         TodoNotGranted'
  PROVE  Refines
<1>1. GrantedDeposits' = GrantedDeposits
  BY DEF GrantedDeposits
<1> QED
  BY <1>1, GrantKept DEF Refines, grantVars

LEMMA EnergyRefines ==
  ASSUME TypeOK, GrantInv, NEW p \in Processors, NEW d \in Deposits,
         CreditEnergyDeposit(p, d)
  PROVE  Refines
<1> DEFINE r == processor[p].recipient[d]
<1>0. /\ processor \in ProcessorTable /\ processor[p] \in ProcessorState
      /\ delivery \in [Deposits -> Recipients \cup {None}]
      /\ r \in Recipients /\ r # None
      /\ processor[p].pc = "next" /\ IsCurrent(p, d) /\ ~IsTopup(d)
      /\ UNCHANGED <<v2Credits, ledger>>
  BY DEF TypeOK, ProcessorTable, ProcessorState, CreditEnergyDeposit, IsTopup
<1>1. CASE Continue(p, d) /\ ~Delivered(d) /\ MarkProcessed(d)
  <2>1. /\ delivery' = [delivery EXCEPT ![d] = r]
        /\ credits' = [credits EXCEPT ![UserOf[d]] = @ + AmountOf[d]]
        /\ remaining' = [remaining EXCEPT ![r] = @ + PackageOf[d]]
    BY <1>0, <1>1 DEF CreditEnergyDeposit, Goto, Continue, ProcessorTable, ProcessorState
  <2>2. GrantInv'
    <3>1. OneKindOfGrant'
      BY <1>0, <2>1 DEF GrantInv, OneKindOfGrant, IsTopup
    <3>2. GrantedTopupProcessed'
      BY <1>0, <1>1, ProcessedStays DEF GrantInv, GrantedTopupProcessed
    <3>3. TodoNotGranted'
      BY <1>0, <1>1, TodoAfterRow
    <3> QED
      BY <3>1, <3>2, <3>3 DEF GrantInv
  <2>3. d \notin GrantedDeposits
    BY <1>0, <1>1 DEF GrantedDeposits, Delivered, GrantInv, OneKindOfGrant
  <2>4. GrantedDeposits' = GrantedDeposits \cup {d}
    BY <1>0, <2>1 DEF GrantedDeposits
  <2>5. Grants!GrantEnergy(d, r)
    BY <1>0, <2>1 DEF CreditEnergyDeposit, Grants!GrantEnergy
  <2>6. Grants!Next
    BY <1>0, <2>3, <2>4, <2>5 DEF Grants!Next, Grants!Grant
  <2> QED
    BY <2>2, <2>6 DEF Refines
<1>2. CASE Goto(p, "fail") /\ UNCHANGED <<deposits, credits, delivery, remaining>>
  <2>1. TodoNotGranted'
    BY <1>0, <1>2, TodoAfterGoto DEF Goto, ProcessorTable, ProcessorState
  <2> QED
    BY <1>0, <1>2, <2>1, NothingGranted
<1> QED
  BY <1>1, <1>2 DEF CreditEnergyDeposit

LEMMA TopupRefines ==
  ASSUME TypeOK, GrantInv, OneTopupRun, NEW p \in Processors, NEW d \in Deposits,
         CreditTopup(p, d)
  PROVE  Refines
<1>0. /\ processor \in ProcessorTable /\ processor[p] \in ProcessorState
      /\ ledger \in LedgerTable /\ deposits \in DepositTable
      /\ processor[p].pc = "next" /\ IsCurrent(p, d) /\ IsTopup(d)
      /\ d \in processor[p].todo /\ processor[p].todo \subseteq Deposits
      /\ UNCHANGED <<credits, delivery, remaining>>
  BY DEF TypeOK, ProcessorTable, ProcessorState, LedgerTable, DepositTable,
     CreditTopup, IsTopup, IsCurrent
<1>1. CASE Goto(p, "readBalance") /\ MarkProcessed(d)
  <2>1. /\ ledger' = [ledger EXCEPT ![d] = Append(@, 0)]
        /\ v2Credits' = [v2Credits EXCEPT ![UserOf[d]] = @ + CreditsToAdd(d)]
    BY <1>0, <1>1 DEF CreditTopup, Goto, ProcessorTable, ProcessorState
  <2>2. ledger[d] = << >>
    BY <1>0 DEF GrantInv, TodoNotGranted
  <2>3. ledger'[d] # << >> /\ \A e \in Deposits \ {d} : ledger'[e] = ledger[e]
    <3>1. ledger'[d] = Append(ledger[d], 0) /\ ledger[d] \in Seq(Nat)
      BY <1>0, <2>1 DEF LedgerTable
    <3> QED
      BY <1>0, <2>1, <3>1, Appended DEF LedgerTable
  <2>4. \A q \in Processors : q = p
    BY <1>0 DEF OneTopupRun
  <2>5. OneKindOfGrant'
    BY <1>0, <2>3 DEF GrantInv, OneKindOfGrant
  <2>6. GrantedTopupProcessed'
    <3>1. deposits'[d].processed
      BY <1>0, <1>1 DEF MarkProcessed, DepositTable, DepositRow
    <3>2. \A e \in Deposits : deposits[e].processed => deposits'[e].processed
      BY <1>1, ProcessedStays
    <3> QED
      BY <2>3, <3>1, <3>2 DEF GrantInv, GrantedTopupProcessed
  <2>7. TodoNotGranted'
    <3>1. processor'[p].pc = "readBalance" /\ processor'[p].todo = processor[p].todo
      BY <1>0, <1>1 DEF Goto, ProcessorTable, ProcessorState
    <3>2. ASSUME NEW e \in processor[p].todo, IsTopup(e), ledger'[e] # << >>
          PROVE  e = d
      BY <1>0, <2>3, <3>2 DEF GrantInv, TodoNotGranted
    <3> QED
      BY <1>0, <2>4, <3>1, <3>2 DEF TodoNotGranted, IsCurrent
  <2>8. d \notin GrantedDeposits
    BY <1>0, <2>2 DEF GrantedDeposits, GrantInv, OneKindOfGrant
  <2>9. GrantedDeposits' = GrantedDeposits \cup {d}
    BY <1>0, <2>3 DEF GrantedDeposits
  <2>10. Grants!GrantTopup(d)
    BY <1>0, <2>1 DEF IsTopup, CreditsToAdd, Grants!GrantTopup
  <2>11. Grants!Next
    BY <1>0, <2>8, <2>9, <2>10 DEF Grants!Next, Grants!Grant
  <2> QED
    BY <2>5, <2>6, <2>7, <2>11 DEF GrantInv, Refines
<1>2. CASE Goto(p, "fail") /\ UNCHANGED <<deposits, v2Credits, ledger>>
  <2>1. TodoNotGranted'
    BY <1>0, <1>2, TodoAfterGoto DEF Goto, ProcessorTable, ProcessorState
  <2> QED
    BY <1>0, <1>2, <2>1, NothingGranted
<1> QED
  BY <1>1, <1>2 DEF CreditTopup

\* The other steps of a run grant nothing.
LEMMA RunRefines ==
  ASSUME TypeOK, GrantInv, NEW p \in Processors, NEW d \in Deposits,
         ReadV2Credits(p, d) \/ UpdateBalanceAfter(p, d) \/ MarkAsFailed(p, d)
  PROVE  Refines
<1>0. /\ processor \in ProcessorTable /\ processor[p] \in ProcessorState
      /\ ledger \in LedgerTable /\ processor[p].balance \in Nat
      /\ IsCurrent(p, d)
      /\ UNCHANGED <<credits, v2Credits, remaining, delivery>>
  BY DEF TypeOK, ProcessorTable, ProcessorState, LedgerTable, ReadV2Credits,
     UpdateBalanceAfter, MarkAsFailed
<1>1. \A e \in Deposits : ledger'[e] = << >> <=> ledger[e] = << >>
  <2>1. CASE UNCHANGED ledger
    BY <2>1
  <2>2. CASE ledger' = [ledger EXCEPT ![d] = [i \in DOMAIN @ |-> processor[p].balance]]
    <3>1. \A e \in Deposits \ {d} : ledger'[e] = ledger[e]
      BY <1>0, <2>2 DEF LedgerTable
    <3>2. /\ ledger'[d] = [i \in DOMAIN ledger[d] |-> processor[p].balance]
          /\ ledger[d] \in Seq(Nat)
      BY <1>0, <2>2 DEF LedgerTable
    <3>3. ledger'[d] = << >> <=> ledger[d] = << >>
      BY <1>0, <3>2, Rewritten
    <3> QED
      BY <3>1, <3>3
  <2> QED
    BY <2>1, <2>2 DEF ReadV2Credits, UpdateBalanceAfter, MarkAsFailed
<1>2. \A e \in Deposits : deposits[e].processed => deposits'[e].processed
  BY ProcessedStays DEF ReadV2Credits, UpdateBalanceAfter, MarkAsFailed
<1>3. TodoNotGranted'
  <2>1. CASE Continue(p, d)
    BY <1>0, <1>1, <2>1, TodoAfterRow
  <2>2. CASE \/ Goto(p, "fail")
             \/ processor' = [processor EXCEPT ![p].pc = "writeBalance",
                                               ![p].balance = v2Credits[UserOf[d]]]
    <3>1. processor'[p].pc # "next" /\ processor'[p].todo = processor[p].todo
      BY <1>0, <2>2 DEF Goto, ProcessorTable, ProcessorState
    <3>2. \A q \in Processors \ {p} : processor'[q] = processor[q]
      BY <1>0, <2>2 DEF Goto, ProcessorTable
    <3> QED
      BY <1>1, <3>1, <3>2, TodoAfterGoto
  <2>3. CASE processor' = [processor EXCEPT ![p] = IdleProcessor]
    BY <1>0, <1>1, <2>3, TodoAfterEnd
  <2> QED
    BY <2>1, <2>2, <2>3 DEF ReadV2Credits, UpdateBalanceAfter, MarkAsFailed
<1> QED
  BY <1>0, <1>1, <1>2, <1>3, NothingGranted

LEMMA StartRefines ==
  ASSUME TypeOK, GrantInv, NEW p \in Processors, StartProcessing(p)
  PROVE  Refines
<1>0. processor \in ProcessorTable /\ UNCHANGED tables
  BY DEF TypeOK, ProcessorTable, StartProcessing
<1>1. /\ processor'[p].todo = ConfirmedButUnprocessed
      /\ \A q \in Processors \ {p} : processor'[q] = processor[q]
  BY <1>0 DEF StartProcessing, ProcessorTable
<1>2. \A d \in ConfirmedButUnprocessed : d \in Deposits /\ (IsTopup(d) => ledger[d] = << >>)
  BY DEF ConfirmedButUnprocessed, GrantInv, GrantedTopupProcessed
<1>3. TodoNotGranted'
  BY <1>0, <1>1, <1>2 DEF GrantInv, TodoNotGranted, IsCurrent
<1> QED
  BY <1>0, <1>3, NothingGranted

LEMMA GrantNext == TypeOK /\ GrantInv /\ OneTopupRun /\ [Next]_vars => Refines
<1> SUFFICES ASSUME TypeOK, GrantInv, OneTopupRun, [Next]_vars PROVE Refines
  OBVIOUS
<1>1. ASSUME UNCHANGED <<credits, v2Credits, remaining, delivery, ledger, processor>>,
             \A d \in Deposits : deposits[d].processed => deposits'[d].processed
      PROVE  Refines
  <2>1. TodoNotGranted'
    BY <1>1 DEF GrantInv, TodoNotGranted, IsCurrent
  <2> QED
    BY <1>1, <2>1, NothingGranted
<1>2. ASSUME NEW d \in Deposits,
             \/ Confirm(d) \/ FindExpired(d) \/ MarkAsExpired(d)
             \/ CheckRelocation(d) \/ UpdateEnergyRecipientAddress(d)
      PROVE  Refines
  <2>1. UNCHANGED <<credits, v2Credits, remaining, delivery, ledger, processor>>
    BY <1>2 DEF Confirm, FindExpired, MarkAsExpired, CheckRelocation,
       UpdateEnergyRecipientAddress
  <2>2. \A e \in Deposits : deposits[e].processed => deposits'[e].processed
    BY <1>2, ProcessedStays DEF FindExpired, MarkAsExpired, CheckRelocation
  <2> QED
    BY <1>1, <2>1, <2>2
<1>3. CASE Crash
  <2>1. UNCHANGED tables /\ \A q \in Processors : processor'[q].todo = {}
    BY <1>3 DEF Crash, IdleProcessor
  <2>2. TodoNotGranted'
    BY <2>1 DEF TodoNotGranted
  <2> QED
    BY <2>1, <2>2, NothingGranted
<1>4. ASSUME NEW p \in Processors, Process(p)
      PROVE  Refines
  <2>1. CASE EndProcessing(p)
    <3>1. processor \in ProcessorTable
      BY DEF TypeOK, ProcessorTable
    <3>2. TodoNotGranted'
      BY <2>1, <3>1, TodoAfterEnd DEF EndProcessing
    <3> QED
      BY <2>1, <3>2, NothingGranted DEF EndProcessing
  <2> QED
    BY <1>4, <2>1, StartRefines, EnergyRefines, TopupRefines, RunRefines DEF Process
<1>5. CASE UNCHANGED vars
  BY <1>1, <1>5 DEF vars
<1> QED
  BY <1>2, <1>3, <1>4, <1>5 DEF Next

\* Whatever fails, restarts or is written in between, no deposit is granted
\* twice or in part: what users own is what DepositGrants says, if one run at
\* a time processes topups, or with any number of runs if there are none.
THEOREM CreditingImplementsGrants ==
  ASSUME OneTopupRun
  PROVE  Spec => ImplementsGrants
<1>1. Init => GrantInv /\ Grants!Init
  <2>1. Init => GrantedDeposits = {}
    BY DEF Init, GrantedDeposits
  <2> QED
    BY <2>1, GrantInit DEF Init, Grants!Init
<1>2. TypeOK /\ GrantInv /\ [Next]_vars => GrantInv' /\ [Grants!Next]_grantVars
  BY GrantNext DEF Refines
<1> QED
  BY <1>1, <1>2, TypeCorrect, PTL DEF Spec, ImplementsGrants, Grants!Spec, grantVars

(***************************************************************************)
(* The books balance, overlapping runs and half-failed rows included.      *)
(***************************************************************************)
\* The deposits delivered on a user's account, and those delivered to an
\* address.
DeliveredFor(u) == {d \in Deposits : UserOf[d] = u /\ delivery[d] # None}
DeliveredTo(r) == {d \in Deposits : delivery[d] = r}

\* What the rows of the ledger bought, deposit by deposit.
DepositsOf(u) == {d \in Deposits : UserOf[d] = u}
LedgerCredits == [d \in Deposits |-> Len(ledger[d]) * CreditsToAdd(d)]

CreditsMatch(u) == credits[u] = SumFunctionOnSet(AmountOf, DeliveredFor(u))
RemainingMatches(r) == remaining[r] = SumFunctionOnSet(PackageOf, DeliveredTo(r))
LedgerMatches(u) == v2Credits[u] = SumFunctionOnSet(LedgerCredits, DepositsOf(u))

\* The two invariants, one balance at a time.
LEMMA BooksByBalance ==
  /\ DeliveriesMatchBalances <=> /\ \A u \in Users : CreditsMatch(u)
                                 /\ \A r \in Recipients : RemainingMatches(r)
  /\ LedgerMatchesBalance <=> \A u \in Users : LedgerMatches(u)
<1>1. DeliveriesMatchBalances <=> /\ \A u \in Users : CreditsMatch(u)
                                  /\ \A r \in Recipients : RemainingMatches(r)
  BY Zenon DEF DeliveriesMatchBalances, CreditsMatch, RemainingMatches,
               DeliveredFor, DeliveredTo
<1>2. LedgerMatchesBalance <=> \A u \in Users : LedgerMatches(u)
  BY Zenon DEF LedgerMatchesBalance, LedgerMatches, LedgerCredits, DepositsOf
<1> QED
  BY <1>1, <1>2

\* There are finitely many deposits.
LEMMA DepositsFinite ==
  ASSUME NEW S, S \subseteq Deposits
  PROVE  IsFiniteSet(S)
<1>1. 1 \in Int /\ NumDeposits \in Int
  OBVIOUS
<1>2. IsFiniteSet(1 .. NumDeposits)
  BY <1>1, FS_Interval, Zenon
<1> QED
  BY <1>2, FS_Subset DEF Deposits

\* What the ledger records of a deposit.
LEMMA LedgerCreditsValue ==
  ASSUME NEW d \in Deposits
  PROVE  LedgerCredits[d] = Len(ledger[d]) * CreditsToAdd(d)
BY DEF LedgerCredits

LEMMA LedgerCreditsType ==
  ASSUME TypeOK, NEW d \in Deposits
  PROVE  /\ LedgerCredits[d] \in Int
         /\ Len(ledger[d]) \in Nat
<1>1. Len(ledger[d]) \in Nat
  BY DEF TypeOK
<1>2. CreditsToAdd(d) \in Nat
  BY WholeCredits
<1> QED
  BY <1>1, <1>2, LedgerCreditsValue

\* All tables are empty at the start.
LEMMA BooksInit == Init => DeliveriesMatchBalances /\ LedgerMatchesBalance
<1> SUFFICES ASSUME Init
             PROVE  DeliveriesMatchBalances /\ LedgerMatchesBalance
  OBVIOUS
<1>1. ASSUME NEW u \in Users
      PROVE  CreditsMatch(u)
  <2>1. DeliveredFor(u) = {} /\ credits[u] = 0
    BY DEF Init, DeliveredFor
  <2> QED
    BY <2>1, SumOfNothing DEF CreditsMatch
<1>2. ASSUME NEW r \in Recipients
      PROVE  RemainingMatches(r)
  <2>1. \A d \in Deposits : delivery[d] = None
    BY DEF Init
  <2>2. DeliveredTo(r) = {}
    BY <2>1 DEF DeliveredTo
  <2>3. remaining[r] = 0
    BY DEF Init
  <2> QED
    BY <2>2, <2>3, SumOfNothing DEF RemainingMatches
<1>3. ASSUME NEW u \in Users
      PROVE  LedgerMatches(u)
  <2>1. IsFiniteSet(DepositsOf(u))
    BY DepositsFinite DEF DepositsOf
  <2>2. ASSUME NEW d \in DepositsOf(u)
        PROVE  LedgerCredits[d] = 0
    <3>1. d \in Deposits /\ ledger[d] = << >>
      BY DEF Init, DepositsOf
    <3>2. CreditsToAdd(d) \in Nat
      BY <3>1, WholeCredits
    <3> QED
      BY <3>1, <3>2, LedgerCreditsValue
  <2>3. SumFunctionOnSet(LedgerCredits, DepositsOf(u)) = 0
    BY <2>1, <2>2, SumOfZeros
  <2>4. v2Credits[u] = 0
    BY DEF Init
  <2> QED
    BY <2>3, <2>4 DEF LedgerMatches
<1> QED
  BY <1>1, <1>2, <1>3, BooksByBalance

\* A delivery adds its amount to one balance of each kind.
LEMMA BooksEnergy ==
  ASSUME TypeOK, DeliveriesMatchBalances, NEW p \in Processors, NEW d \in Deposits,
         CreditEnergyDeposit(p, d), ~UNCHANGED <<credits, delivery, remaining>>
  PROVE  DeliveriesMatchBalances'
<1> DEFINE r == processor[p].recipient[d]
<1>1. /\ ~Delivered(d)
      /\ credits' = [credits EXCEPT ![UserOf[d]] = @ + AmountOf[d]]
      /\ delivery' = [delivery EXCEPT ![d] = r]
      /\ remaining' = [remaining EXCEPT ![r] = @ + PackageOf[d]]
  BY DEF CreditEnergyDeposit
<1>2. /\ credits \in [Users -> Nat] /\ remaining \in [Recipients -> Nat]
      /\ delivery \in [Deposits -> Recipients \cup {None}]
      /\ r \in Recipients
      /\ UserOf[d] \in Users
  BY DEF TypeOK, ProcessorState
<1> HIDE DEF r
<1>3. r # None /\ delivery[d] = None
  BY <1>1, <1>2 DEF Delivered
<1>4. \A e \in Deposits : AmountOf[e] \in Int /\ PackageOf[e] \in Int
  OBVIOUS
<1>5. ASSUME NEW u \in Users
      PROVE  CreditsMatch(u)'
  <2>1. CreditsMatch(u)
    BY BooksByBalance
  <2>2. CASE u = UserOf[d]
    <3>1. DeliveredFor(u)' = DeliveredFor(u) \cup {d} /\ d \notin DeliveredFor(u)
      BY <1>1, <1>2, <1>3, <2>2 DEF DeliveredFor
    <3>2. IsFiniteSet(DeliveredFor(u)) /\ DeliveredFor(u) \cup {d} \subseteq Deposits
      BY DepositsFinite DEF DeliveredFor
    <3>3. SumFunctionOnSet(AmountOf, DeliveredFor(u) \cup {d})
            = AmountOf[d] + SumFunctionOnSet(AmountOf, DeliveredFor(u))
      BY <1>4, <3>1, <3>2, SumAdd
    <3>4. credits'[u] = credits[u] + AmountOf[d] /\ credits[u] \in Nat
      BY <1>1, <1>2, <2>2
    <3> QED
      BY <1>4, <2>1, <3>1, <3>3, <3>4 DEF CreditsMatch
  <2>3. CASE u # UserOf[d]
    <3>1. DeliveredFor(u)' = DeliveredFor(u)
      BY <1>1, <1>2, <2>3 DEF DeliveredFor
    <3>2. credits'[u] = credits[u]
      BY <1>1, <1>2, <2>3
    <3> QED
      BY <2>1, <3>1, <3>2 DEF CreditsMatch
  <2> QED
    BY <2>2, <2>3
<1>6. ASSUME NEW q \in Recipients
      PROVE  RemainingMatches(q)'
  <2>1. RemainingMatches(q)
    BY BooksByBalance
  <2>2. CASE q = r
    <3>1. DeliveredTo(q)' = DeliveredTo(q) \cup {d} /\ d \notin DeliveredTo(q)
      BY <1>1, <1>2, <1>3, <2>2 DEF DeliveredTo
    <3>2. IsFiniteSet(DeliveredTo(q)) /\ DeliveredTo(q) \cup {d} \subseteq Deposits
      BY DepositsFinite DEF DeliveredTo
    <3>3. SumFunctionOnSet(PackageOf, DeliveredTo(q) \cup {d})
            = PackageOf[d] + SumFunctionOnSet(PackageOf, DeliveredTo(q))
      BY <1>4, <3>1, <3>2, SumAdd
    <3>4. remaining'[q] = remaining[q] + PackageOf[d] /\ remaining[q] \in Nat
      BY <1>1, <1>2, <2>2
    <3> QED
      BY <1>4, <2>1, <3>1, <3>3, <3>4 DEF RemainingMatches
  <2>3. CASE q # r
    <3>1. DeliveredTo(q)' = DeliveredTo(q)
      BY <1>1, <1>2, <1>3, <2>3 DEF DeliveredTo
    <3>2. remaining'[q] = remaining[q]
      BY <1>1, <1>2, <2>3
    <3> QED
      BY <2>1, <3>1, <3>2 DEF RemainingMatches
  <2> QED
    BY <2>2, <2>3
<1> QED
  BY <1>5, <1>6, Zenon DEF DeliveriesMatchBalances, CreditsMatch, RemainingMatches,
     DeliveredFor, DeliveredTo

\* A topup writes one ledger row and what it is worth.
LEMMA BooksTopup ==
  ASSUME TypeOK, LedgerMatchesBalance, NEW p \in Processors, NEW d \in Deposits,
         CreditTopup(p, d), ~UNCHANGED <<v2Credits, ledger>>
  PROVE  LedgerMatchesBalance'
<1>1. /\ v2Credits' = [v2Credits EXCEPT ![UserOf[d]] = @ + CreditsToAdd(d)]
      /\ ledger' = [ledger EXCEPT ![d] = Append(@, 0)]
  BY DEF CreditTopup
<1>2. /\ v2Credits \in [Users -> Nat] /\ ledger \in [Deposits -> Seq(Nat)]
      /\ UserOf[d] \in Users
  BY DEF TypeOK
<1>3. CreditsToAdd(d) \in Nat
  BY WholeCredits
<1>4. Len(ledger'[d]) = Len(ledger[d]) + 1 /\ Len(ledger[d]) \in Nat
  BY <1>1, <1>2
<1>5. LedgerCredits'[d] = LedgerCredits[d] + CreditsToAdd(d) /\ LedgerCredits[d] \in Nat
  <2>1. /\ LedgerCredits[d] = Len(ledger[d]) * CreditsToAdd(d)
        /\ LedgerCredits'[d] = Len(ledger'[d]) * CreditsToAdd(d)
    BY DEF LedgerCredits, CreditsToAdd
  <2> QED
    BY <1>3, <1>4, <2>1
<1>6. \A e \in Deposits \ {d} : LedgerCredits'[e] = LedgerCredits[e]
  BY <1>1, <1>2 DEF LedgerCredits, CreditsToAdd
<1>7. \A e \in Deposits : LedgerCredits[e] \in Int /\ LedgerCredits'[e] \in Int
  <2>1. \A e \in Deposits : LedgerCredits[e] \in Int
    BY LedgerCreditsType
  <2>2. LedgerCredits'[d] \in Int
    BY <1>3, <1>5
  <2> QED
    BY <1>6, <2>1, <2>2
<1>8. ASSUME NEW u \in Users
      PROVE  LedgerMatches(u)'
  <2>1. LedgerMatches(u) /\ IsFiniteSet(DepositsOf(u)) /\ DepositsOf(u) \subseteq Deposits
    BY BooksByBalance, DepositsFinite DEF DepositsOf
  <2>2. DepositsOf(u)' = DepositsOf(u)
    BY DEF DepositsOf
  <2>3. CASE u = UserOf[d]
    <3>1. d \in DepositsOf(u)
      BY <2>3 DEF DepositsOf
    <3>2. SumFunctionOnSet(LedgerCredits', DepositsOf(u))
            = SumFunctionOnSet(LedgerCredits, DepositsOf(u)) + LedgerCredits'[d] - LedgerCredits[d]
      BY <1>6, <1>7, <2>1, <3>1, SumUpdate
    <3>3. v2Credits'[u] = v2Credits[u] + CreditsToAdd(d) /\ v2Credits[u] \in Nat
      BY <1>1, <1>2, <2>3
    <3> QED
      BY <1>3, <1>5, <2>1, <2>2, <3>2, <3>3 DEF LedgerMatches
  <2>4. CASE u # UserOf[d]
    <3>1. \A e \in DepositsOf(u) : LedgerCredits[e] = LedgerCredits'[e]
      BY <1>6, <2>4 DEF DepositsOf
    <3>2. SumFunctionOnSet(LedgerCredits, DepositsOf(u))
            = SumFunctionOnSet(LedgerCredits', DepositsOf(u))
      BY <2>1, <3>1, SumSame
    <3>3. v2Credits'[u] = v2Credits[u]
      BY <1>1, <1>2, <2>4
    <3> QED
      BY <2>1, <2>2, <3>2, <3>3 DEF LedgerMatches
  <2> QED
    BY <2>3, <2>4
<1> QED
  BY <1>8, Zenon DEF LedgerMatchesBalance, LedgerMatches, LedgerCredits, DepositsOf

\* Every other step leaves the balances and what explains them alone; the
\* final balance written to the ledger rows adds or removes none.
LEMMA BooksKept ==
  ASSUME TypeOK, DeliveriesMatchBalances, LedgerMatchesBalance,
         UNCHANGED <<credits, v2Credits, delivery, remaining>>,
         \A d \in Deposits : Len(ledger'[d]) = Len(ledger[d])
  PROVE  DeliveriesMatchBalances' /\ LedgerMatchesBalance'
<1>1. DeliveriesMatchBalances'
  BY DEF DeliveriesMatchBalances
<1>2. LedgerCredits' = LedgerCredits
  BY DEF LedgerCredits, CreditsToAdd
<1>3. ASSUME NEW u \in Users
      PROVE  LedgerMatches(u)'
  <2>1. LedgerMatches(u)
    BY BooksByBalance
  <2> QED
    BY <1>2, <2>1 DEF LedgerMatches, DepositsOf
<1>4. LedgerMatchesBalance'
  BY <1>3, Zenon DEF LedgerMatchesBalance, LedgerMatches, LedgerCredits, DepositsOf
<1> QED
  BY <1>1, <1>4

\* Rewriting a balanceAfter adds no line to the ledger.
LEMMA BooksRewritten ==
  ASSUME TypeOK, NEW p \in Processors, NEW d \in Deposits, UpdateBalanceAfter(p, d),
         NEW e \in Deposits
  PROVE  Len(ledger'[e]) = Len(ledger[e])
<1>1. ledger \in [Deposits -> Seq(Nat)] /\ processor[p].balance \in Nat
  BY DEF TypeOK, ProcessorState
<1>2. CASE UNCHANGED ledger
  BY <1>2
<1>3. CASE ledger' = [ledger EXCEPT ![d] = [i \in DOMAIN @ |-> processor[p].balance]]
  <2>1. CASE e # d
    BY <1>1, <1>3, <2>1
  <2>2. CASE e = d
    <3>1. ledger[d] \in Seq(Nat) /\ DOMAIN ledger[d] = 1 .. Len(ledger[d]) /\ Len(ledger[d]) \in Nat
      BY <1>1
    <3>2. ledger'[d] = [i \in 1 .. Len(ledger[d]) |-> processor[p].balance]
      BY <1>1, <1>3, <3>1
    <3> QED
      BY <1>1, <2>2, <3>1, <3>2
  <2> QED
    BY <2>1, <2>2
<1> QED
  BY <1>2, <1>3 DEF UpdateBalanceAfter

\* Every step keeps both sums.
LEMMA BooksNext ==
  ASSUME TypeOK, DeliveriesMatchBalances, LedgerMatchesBalance, [Next]_vars
  PROVE  DeliveriesMatchBalances' /\ LedgerMatchesBalance'
<1> DEFINE Goal == DeliveriesMatchBalances' /\ LedgerMatchesBalance'
<1>1. ASSUME UNCHANGED <<credits, v2Credits, delivery, remaining, ledger>>
      PROVE  Goal
  BY <1>1, BooksKept
<1>2. ASSUME NEW d \in Deposits,
             \/ Confirm(d) \/ FindExpired(d) \/ MarkAsExpired(d)
             \/ CheckRelocation(d) \/ UpdateEnergyRecipientAddress(d)
      PROVE  Goal
  BY <1>1, <1>2 DEF Confirm, FindExpired, MarkAsExpired, CheckRelocation,
     UpdateEnergyRecipientAddress
<1>3. ASSUME NEW p \in Processors, NEW d \in Deposits, CreditEnergyDeposit(p, d)
      PROVE  Goal
  <2>1. CASE UNCHANGED <<credits, delivery, remaining>>
    BY <1>1, <1>3, <2>1 DEF CreditEnergyDeposit
  <2>2. CASE ~UNCHANGED <<credits, delivery, remaining>>
    <3>1. DeliveriesMatchBalances'
      BY <1>3, <2>2, BooksEnergy
    <3>2. LedgerMatchesBalance'
      BY <1>3 DEF CreditEnergyDeposit, LedgerMatchesBalance, CreditsToAdd
    <3> QED
      BY <3>1, <3>2
  <2> QED
    BY <2>1, <2>2
<1>4. ASSUME NEW p \in Processors, NEW d \in Deposits, CreditTopup(p, d)
      PROVE  Goal
  <2>1. CASE UNCHANGED <<v2Credits, ledger>>
    BY <1>1, <1>4, <2>1 DEF CreditTopup
  <2>2. CASE ~UNCHANGED <<v2Credits, ledger>>
    <3>1. LedgerMatchesBalance'
      BY <1>4, <2>2, BooksTopup
    <3>2. DeliveriesMatchBalances'
      BY <1>4 DEF CreditTopup, DeliveriesMatchBalances
    <3> QED
      BY <3>1, <3>2
  <2> QED
    BY <2>1, <2>2
<1>5. ASSUME NEW p \in Processors, NEW d \in Deposits, UpdateBalanceAfter(p, d)
      PROVE  Goal
  <2>1. \A e \in Deposits : Len(ledger'[e]) = Len(ledger[e])
    BY <1>5, BooksRewritten
  <2>2. UNCHANGED <<credits, v2Credits, delivery, remaining>>
    BY <1>5 DEF UpdateBalanceAfter
  <2> QED
    BY <2>1, <2>2, BooksKept
<1>6. ASSUME NEW p \in Processors,
             \/ StartProcessing(p) \/ EndProcessing(p)
             \/ \E d \in Deposits : ReadV2Credits(p, d) \/ MarkAsFailed(p, d)
      PROVE  Goal
  BY <1>1, <1>6 DEF StartProcessing, EndProcessing, ReadV2Credits, MarkAsFailed
<1>7. CASE Crash
  BY <1>1, <1>7 DEF Crash
<1>8. CASE UNCHANGED vars
  BY <1>1, <1>8 DEF vars
<1> QED
  BY <1>2, <1>3, <1>4, <1>5, <1>6, <1>7, <1>8 DEF Next, Process

\* The recorded deliveries explain the credits and the transactions left, with
\* any number of runs in flight and any fault or restart: nothing is granted
\* without its row, no row counts twice.
THEOREM DeliveriesExplainBalances == Spec => []DeliveriesMatchBalances
<1>1. Init => DeliveriesMatchBalances /\ LedgerMatchesBalance
  BY BooksInit
<1>2. TypeOK /\ DeliveriesMatchBalances /\ LedgerMatchesBalance /\ [Next]_vars
        => DeliveriesMatchBalances' /\ LedgerMatchesBalance'
  BY BooksNext
<1> QED
  BY <1>1, <1>2, TypeCorrect, PTL DEF Spec

\* The ledger explains the v2 credits, also of a topup that overlapping runs
\* credited twice or that was marked FAILED after it was credited.
THEOREM LedgerExplainsBalance == Spec => []LedgerMatchesBalance
<1>1. Init => DeliveriesMatchBalances /\ LedgerMatchesBalance
  BY BooksInit
<1>2. TypeOK /\ DeliveriesMatchBalances /\ LedgerMatchesBalance /\ [Next]_vars
        => DeliveriesMatchBalances' /\ LedgerMatchesBalance'
  BY BooksNext
<1> QED
  BY <1>1, <1>2, TypeCorrect, PTL DEF Spec
=============================================================================
