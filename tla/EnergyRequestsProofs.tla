------------------------ MODULE EnergyRequestsProofs ------------------------
(***************************************************************************)
(* Proofs about module EnergyRequests, for any set of calls, keys and      *)
(* wallets, any number of topups, faults and restarts.                     *)
(***************************************************************************)
EXTENDS EnergyRequests, FiniteSetTheorems, TLAPS

(***************************************************************************)
(* The inductive invariant.  A call that created a request owns it until   *)
(* it answers, and while it owns it, the row and the ledger are where the  *)
(* program counter says they are.                                          *)
(***************************************************************************)
Active(c) == caller[c].pc \in {"balance", "deduct", "refuse", "charged",
                               "transfer", "complete", "refund", "fail"}

OneOwner == \A c, e \in Callers : Active(c) /\ Active(e) /\ KeyOf[c] = KeyOf[e] => c = e

\* Row and ledger of key k: status, deductions, refunds, creditsDeducted.
At(k, status, deductions, refunds, creditsDeducted) ==
  /\ requests[k].status = status
  /\ ledger[k].deductions = deductions
  /\ ledger[k].refunds = refunds
  /\ requests[k].creditsDeducted = creditsDeducted

CallInStep(c) ==
  /\ caller[c].pc \in {"balance", "deduct", "refuse"} => At(KeyOf[c], "PENDING", 0, 0, 0)
  /\ caller[c].pc = "charged" => At(KeyOf[c], "PENDING", 1, 0, 0)
  /\ caller[c].pc \in {"transfer", "complete", "refund"}
       => At(KeyOf[c], "PROCESSING", 1, 0, 1)
  /\ caller[c].pc = "fail" => At(KeyOf[c], "PROCESSING", 1, 1, 1)

KeyInStep(k) ==
  /\ ledger[k].deductions \in {0, 1}
  /\ ledger[k].refunds \in {0, 1}
  /\ ledger[k].refunds <= ledger[k].deductions
  /\ requests[k].status = "NONE" => At(k, "NONE", 0, 0, 0)
  /\ requests[k].status = "COMPLETED" => At(k, "COMPLETED", 1, 0, 1)
  /\ requests[k].status = "FAILED" => /\ ledger[k].deductions = ledger[k].refunds
                                      /\ requests[k].creditsDeducted = 0

IInv == /\ TypeOK
        /\ OneOwner
        /\ \A c \in Callers : CallInStep(c)
        /\ \A k \in Keys : KeyInStep(k)

USE RequestsAssumption DEF tables

(***************************************************************************)
(* Types.                                                                  *)
(***************************************************************************)
\* The row a call may write: the record constructors of delegateEnergy stay
\* within RequestRow.
LEMMA RowTypes ==
  ASSUME NEW row \in RequestRow
  PROVE  /\ [row EXCEPT !.status = "FAILED"] \in RequestRow
         /\ [row EXCEPT !.status = "PROCESSING", !.creditsDeducted = 1] \in RequestRow
         /\ [row EXCEPT !.status = "COMPLETED", !.delegatedSun = Sun] \in RequestRow
         /\ [row EXCEPT !.status = "FAILED", !.creditsDeducted = 0] \in RequestRow
         /\ [row EXCEPT !.reclaimed = TRUE] \in RequestRow
BY DEF RequestRow, RequestStatus, Sun

LEMMA NewRowType ==
  ASSUME NEW w \in Wallets
  PROVE  [NoRequest EXCEPT !.status = "PENDING", !.wallet = w] \in RequestRow
BY DEF NoRequest, RequestRow, RequestStatus

LEMMA TypeInit == Init => TypeOK
BY DEF Init, TypeOK, NoRequest, RequestRow, RequestStatus, CallerPc, Response,
       IdleReclaimer, ReclaimerState, Sun

CallerTable == [Callers -> [pc : CallerPc, response : Response]]
LedgerTable == [Keys -> [deductions : Nat, refunds : Nat]]

LEMMA GotoType ==
  ASSUME caller \in CallerTable, NEW c \in Callers, NEW pc \in CallerPc, Goto(c, pc)
  PROVE  caller' \in CallerTable
BY DEF CallerTable, Goto

LEMMA AnswerType ==
  ASSUME caller \in CallerTable, NEW c \in Callers, NEW response \in Response,
         Answer(c, response)
  PROVE  caller' \in CallerTable
<1>1. "answered" \in CallerPc
  BY DEF CallerPc
<1> QED
  BY <1>1 DEF CallerTable, Answer

LEMMA UpdateRowType ==
  ASSUME requests \in [Keys -> RequestRow], NEW c \in Callers,
         NEW row \in RequestRow, UpdateRow(c, row)
  PROVE  requests' \in [Keys -> RequestRow]
BY DEF UpdateRow

LEMMA LedgerType ==
  ASSUME ledger \in LedgerTable, NEW k \in Keys
  PROVE  /\ [ledger EXCEPT ![k].deductions = @ + 1] \in LedgerTable
         /\ [ledger EXCEPT ![k].refunds = @ + 1] \in LedgerTable
BY DEF LedgerTable

LEMMA TypeDelegate ==
  ASSUME TypeOK, NEW c \in Callers, Delegate(c)
  PROVE  TypeOK'
<1>0. /\ KeyOf[c] \in Keys /\ WalletOf[c] \in Wallets
      /\ caller \in CallerTable /\ ledger \in LedgerTable
      /\ requests \in [Keys -> RequestRow] /\ Row(c) \in RequestRow
  BY DEF TypeOK, Row, CallerTable, LedgerTable
<1>P. \A pc \in CallerPc : Goto(c, pc) => caller' \in CallerTable
  BY <1>0, GotoType
<1>R. \A response \in Response : Answer(c, response) => caller' \in CallerTable
  BY <1>0, AnswerType
<1>U. \A row \in RequestRow : UpdateRow(c, row) => requests' \in [Keys -> RequestRow]
  BY <1>0, UpdateRowType
<1>T. ASSUME caller' \in CallerTable, requests' \in [Keys -> RequestRow],
             ledger' \in LedgerTable, v2Credits' \in Int,
             delegated' \in [Wallets -> Nat],
             UNCHANGED <<topups, reclaimer, restarts>>
      PROVE  TypeOK'
  BY <1>T DEF TypeOK, CallerTable, LedgerTable
<1>1. CASE LookupKey(c)
  <2>1. Row(c).status # "NONE" => Row(c).status \in Response
    BY <1>0 DEF RequestRow, RequestStatus, Response
  <2>2. "BadRequest" \in Response /\ "validated" \in CallerPc
    BY DEF Response, CallerPc
  <2> QED
    BY <1>0, <1>1, <1>P, <1>R, <1>T, <2>1, <2>2 DEF LookupKey, TypeOK
<1>2. CASE CreateRequest(c)
  <2>1. "ServerError" \in Response /\ "balance" \in CallerPc
    BY DEF Response, CallerPc
  <2>2. [NoRequest EXCEPT !.status = "PENDING", !.wallet = WalletOf[c]] \in RequestRow
    BY <1>0, NewRowType
  <2> QED
    BY <1>0, <1>2, <1>P, <1>R, <1>U, <1>T, <2>1, <2>2 DEF CreateRequest, TypeOK
<1>3. CASE ReadBalance(c)
  <2>1. "deduct" \in CallerPc /\ "refuse" \in CallerPc
    BY DEF CallerPc
  <2> QED
    BY <1>0, <1>3, <1>P, <1>T, <2>1 DEF ReadBalance, TypeOK
<1>4. CASE DeductCredit(c)
  <2>1. "charged" \in CallerPc /\ "refuse" \in CallerPc
    BY DEF CallerPc
  <2>2. ledger' \in LedgerTable
    BY <1>0, <1>4, LedgerType DEF DeductCredit
  <2>3. caller' \in CallerTable
    BY <1>4, <1>P, <2>1 DEF DeductCredit
  <2>4. v2Credits' \in Int
    BY <1>4 DEF DeductCredit, TypeOK
  <2> QED
    BY <1>0, <1>4, <1>T, <2>2, <2>3, <2>4 DEF DeductCredit, TypeOK
<1>5. CASE RefuseRequest(c)
  <2>1. "ServerError" \in Response /\ "BadRequest" \in Response
    BY DEF Response
  <2>2. [Row(c) EXCEPT !.status = "FAILED"] \in RequestRow
    BY <1>0, RowTypes
  <2> QED
    BY <1>0, <1>5, <1>R, <1>U, <1>T, <2>1, <2>2 DEF RefuseRequest, TypeOK
<1>6. CASE MarkProcessing(c)
  <2>1. "ServerError" \in Response /\ "transfer" \in CallerPc
    BY DEF Response, CallerPc
  <2>2. [Row(c) EXCEPT !.status = "PROCESSING", !.creditsDeducted = 1] \in RequestRow
    BY <1>0, RowTypes
  <2> QED
    BY <1>0, <1>6, <1>P, <1>R, <1>U, <1>T, <2>1, <2>2 DEF MarkProcessing, TypeOK
<1>7. CASE TransferEnergy(c)
  <2>1. "complete" \in CallerPc /\ "refund" \in CallerPc
    BY DEF CallerPc
  <2>2. delegated' \in [Wallets -> Nat]
    BY <1>0, <1>7 DEF TransferEnergy, TypeOK, Sun
  <2> QED
    BY <1>0, <1>7, <1>P, <1>T, <2>1, <2>2 DEF TransferEnergy, TypeOK
<1>8. CASE CompleteRequest(c)
  <2>1. "COMPLETED" \in Response /\ "refund" \in CallerPc
    BY DEF Response, CallerPc
  <2>2. [Row(c) EXCEPT !.status = "COMPLETED", !.delegatedSun = Sun] \in RequestRow
    BY <1>0, RowTypes
  <2> QED
    BY <1>0, <1>8, <1>P, <1>R, <1>U, <1>T, <2>1, <2>2 DEF CompleteRequest, TypeOK
<1>9. CASE RefundCredit(c)
  <2>1. "ServerError" \in Response /\ "fail" \in CallerPc
    BY DEF Response, CallerPc
  <2>2. ledger' \in LedgerTable
    BY <1>0, <1>9, LedgerType DEF RefundCredit
  <2>3. caller' \in CallerTable
    BY <1>9, <1>P, <1>R, <2>1 DEF RefundCredit
  <2>4. v2Credits' \in Int
    BY <1>9 DEF RefundCredit, TypeOK
  <2> QED
    BY <1>0, <1>9, <1>T, <2>2, <2>3, <2>4 DEF RefundCredit, TypeOK
<1>10. CASE FailRequest(c)
  <2>1. "ServerError" \in Response /\ "FAILED" \in Response
    BY DEF Response
  <2>2. [Row(c) EXCEPT !.status = "FAILED", !.creditsDeducted = 0] \in RequestRow
    BY <1>0, RowTypes
  <2> QED
    BY <1>0, <1>10, <1>R, <1>U, <1>T, <2>1, <2>2 DEF FailRequest, TypeOK
<1> QED
  BY <1>1, <1>2, <1>3, <1>4, <1>5, <1>6, <1>7, <1>8, <1>9, <1>10 DEF Delegate

LEMMA TypeReclaim ==
  ASSUME TypeOK, Reclaim
  PROVE  TypeOK'
<1> USE DEF TypeOK, ReclaimerState
<1>1. CASE StartReclaim
  BY <1>1 DEF StartReclaim, Reclaimable
<1>2. CASE ReclaimEnergy
  <2>1. PICK k \in reclaimer.todo :
          \/ /\ \E part \in 0 .. requests[k].delegatedSun :
                  /\ part <= delegated[requests[k].wallet]
                  /\ delegated' = [delegated EXCEPT ![requests[k].wallet] = @ - part]
             /\ reclaimer' = [pc |-> "mark", todo |-> reclaimer.todo \ {k}, key |-> k]
          \/ /\ reclaimer' = [reclaimer EXCEPT !.todo = @ \ {k}]
             /\ UNCHANGED delegated
    BY <1>2 DEF ReclaimEnergy
  <2>2. k \in Keys
    OBVIOUS
  <2>3. delegated' \in [Wallets -> Nat]
    BY <2>1, <2>2 DEF RequestRow, Sun
  <2>4. reclaimer' \in ReclaimerState
    BY <2>1, <2>2
  <2> QED
    BY <1>2, <2>3, <2>4 DEF ReclaimEnergy
<1>3. CASE MarkReclaimed
  <2>1. \A k \in Keys : [requests[k] EXCEPT !.reclaimed = TRUE] \in RequestRow
    BY RowTypes
  <2>2. requests' \in [Keys -> RequestRow]
    <3>1. requests \in [Keys -> RequestRow]
      OBVIOUS
    <3> HIDE DEF TypeOK, ReclaimerState
    <3>2. \A k : [requests EXCEPT ![k].reclaimed = TRUE] \in [Keys -> RequestRow]
      BY <2>1, <3>1
    <3> QED
      BY <1>3, <3>1, <3>2 DEF MarkReclaimed
  <2> QED
    BY <1>3, <2>2 DEF MarkReclaimed
<1>4. CASE EndReclaim
  BY <1>4 DEF EndReclaim, IdleReclaimer
<1> QED
  BY <1>1, <1>2, <1>3, <1>4 DEF Reclaim

LEMMA TypeNext == TypeOK /\ [Next]_vars => TypeOK'
<1> SUFFICES ASSUME TypeOK, [Next]_vars PROVE TypeOK'
  OBVIOUS
<1>1. CASE TopUp
  BY <1>1 DEF TypeOK, TopUp
<1>2. ASSUME NEW c \in Callers, Delegate(c) PROVE TypeOK'
  BY <1>2, TypeDelegate
<1>3. CASE Reclaim
  BY <1>3, TypeReclaim
<1>4. CASE Crash
  BY <1>4 DEF TypeOK, Crash, CallerPc, IdleReclaimer, ReclaimerState
<1>5. CASE UNCHANGED vars
  BY <1>5 DEF TypeOK, vars
<1> QED
  BY <1>1, <1>2, <1>3, <1>4, <1>5 DEF Next

\* Every variable keeps its type, whatever the calls, the reclaim run and the
\* restarts do.
THEOREM TypeCorrect == Spec => []TypeOK
BY TypeInit, TypeNext, PTL DEF Spec

(***************************************************************************)
(* The invariant is inductive.                                             *)
(***************************************************************************)
LEMMA InvInit == Init => IInv
<1> SUFFICES ASSUME Init PROVE IInv
  OBVIOUS
<1>1. TypeOK
  BY TypeInit
<1>2. OneOwner /\ \A c \in Callers : CallInStep(c)
  BY DEF Init, OneOwner, Active, CallInStep
<1>3. \A k \in Keys : KeyInStep(k)
  BY DEF Init, KeyInStep, At, NoRequest
<1> QED
  BY <1>1, <1>2, <1>3 DEF IInv

\* A call writes only the row and the ledger of its own key, and it writes
\* them only while it owns the key: what other calls and keys rely on stays.
LEMMA Frame ==
  ASSUME IInv, NEW c \in Callers,
         \A e \in Callers : e # c => caller'[e].pc = caller[e].pc,
         \A k \in Keys : k # KeyOf[c] => requests'[k] = requests[k] /\ ledger'[k] = ledger[k],
         Active(c) \/ Row(c).status = "NONE"
           \/ (Row(c)' = Row(c) /\ ledger'[KeyOf[c]] = ledger[KeyOf[c]]),
         Active(c)' => Active(c) \/ Row(c).status = "NONE",
         CallInStep(c)', KeyInStep(KeyOf[c])'
  PROVE  OneOwner' /\ (\A e \in Callers : CallInStep(e)') /\ (\A k \in Keys : KeyInStep(k)')
<1>0. KeyOf \in [Callers -> Keys]
  OBVIOUS
<1>1. \A e \in Callers : e # c => (Active(e)' <=> Active(e))
  BY DEF Active
<1>2. \A e \in Callers : Active(e) => requests[KeyOf[e]].status # "NONE"
  BY DEF IInv, Active, CallInStep, At
<1>3. \A e \in Callers : e # c /\ Active(e) /\ KeyOf[e] = KeyOf[c]
                        => ~Active(c) /\ Row(c).status # "NONE"
  BY <1>2 DEF IInv, OneOwner, Row
<1>4. OneOwner'
  BY <1>1, <1>3 DEF IInv, OneOwner
<1>5. ASSUME NEW e \in Callers, e # c PROVE CallInStep(e)'
  <2>1. CASE ~Active(e)
    BY <1>1, <1>5, <2>1 DEF CallInStep, Active
  <2>2. CASE Active(e)
    <3>1. requests'[KeyOf[e]] = requests[KeyOf[e]] /\ ledger'[KeyOf[e]] = ledger[KeyOf[e]]
      BY <1>0, <1>3, <1>5, <2>2 DEF Row
    <3>2. caller'[e].pc = caller[e].pc
      BY <1>5
    <3>3. CallInStep(e)
      BY DEF IInv
    <3> QED
      BY <3>1, <3>2, <3>3 DEF CallInStep, At
  <2> QED
    BY <2>1, <2>2
<1>6. ASSUME NEW k \in Keys, k # KeyOf[c] PROVE KeyInStep(k)'
  <2>1. KeyInStep(k) /\ requests'[k] = requests[k] /\ ledger'[k] = ledger[k]
    BY <1>6 DEF IInv
  <2> QED
    BY <2>1 DEF KeyInStep, At
<1> QED
  BY <1>4, <1>5, <1>6

LEMMA InvDelegate ==
  ASSUME IInv, NEW c \in Callers, Delegate(c)
  PROVE  OneOwner' /\ (\A e \in Callers : CallInStep(e)') /\ (\A k \in Keys : KeyInStep(k)')
<1> USE DEF Goto, Answer, Row, UpdateRow
<1>0. /\ KeyOf[c] \in Keys /\ CallInStep(c) /\ KeyInStep(KeyOf[c])
      /\ caller \in [Callers -> [pc : CallerPc, response : Response]]
      /\ requests \in [Keys -> RequestRow]
      /\ Row(c) \in [status : RequestStatus, wallet : Wallets \cup {"none"},
                      creditsDeducted : {0, 1}, delegatedSun : {0, Sun},
                      reclaimed : BOOLEAN]
      /\ ledger \in [Keys -> [deductions : Nat, refunds : Nat]]
  BY DEF IInv, TypeOK, RequestRow
<1>1. CASE LookupKey(c)
  <2>1. CallInStep(c)' /\ KeyInStep(KeyOf[c])'
    BY <1>0, <1>1 DEF LookupKey, CallInStep, KeyInStep, At
  <2>2. \A e \in Callers : e # c => caller'[e].pc = caller[e].pc
    BY <1>0, <1>1 DEF LookupKey
  <2>3. \A k \in Keys : k # KeyOf[c] => requests'[k] = requests[k] /\ ledger'[k] = ledger[k]
    BY <1>0, <1>1 DEF LookupKey
  <2>4. /\ Active(c) \/ Row(c).status = "NONE"
           \/ (Row(c)' = Row(c) /\ ledger'[KeyOf[c]] = ledger[KeyOf[c]])
        /\ Active(c)' => Active(c) \/ Row(c).status = "NONE"
    BY <1>0, <1>1 DEF LookupKey, Active
  <2> QED
    BY <2>1, <2>2, <2>3, <2>4, Frame
<1>2. CASE CreateRequest(c)
  <2>1. CallInStep(c)' /\ KeyInStep(KeyOf[c])'
    <3>1. CASE /\ ~KeyTaken(c) /\ Goto(c, "balance")
               /\ UpdateRow(c, [NoRequest EXCEPT !.status = "PENDING", !.wallet = WalletOf[c]])
      <4>1. /\ Row(c)'.status = "PENDING" /\ Row(c)'.creditsDeducted = 0
            /\ caller'[c].pc = "balance"
        BY <1>0, <3>1 DEF CreateRequest, NoRequest
      <4>2. ledger'[KeyOf[c]] = ledger[KeyOf[c]]
        BY <1>2 DEF CreateRequest
      <4> QED
        BY <1>0, <1>2, <3>1, <4>1, <4>2 DEF CreateRequest, CallInStep, KeyInStep, At, KeyTaken
    <3>2. CASE Answer(c, "ServerError") /\ UNCHANGED requests
      BY <1>0, <1>2, <3>2 DEF CreateRequest, CallInStep, KeyInStep, At
    <3> QED
      BY <1>2, <3>1, <3>2 DEF CreateRequest
  <2>2. \A e \in Callers : e # c => caller'[e].pc = caller[e].pc
    BY <1>0, <1>2 DEF CreateRequest
  <2>3. \A k \in Keys : k # KeyOf[c] => requests'[k] = requests[k] /\ ledger'[k] = ledger[k]
    BY <1>0, <1>2 DEF CreateRequest
  <2>4. /\ Active(c) \/ Row(c).status = "NONE"
           \/ (Row(c)' = Row(c) /\ ledger'[KeyOf[c]] = ledger[KeyOf[c]])
        /\ Active(c)' => Active(c) \/ Row(c).status = "NONE"
    BY <1>0, <1>2 DEF CreateRequest, Active, KeyTaken
  <2> QED
    BY <2>1, <2>2, <2>3, <2>4, Frame
<1>3. CASE ReadBalance(c)
  <2>1. CallInStep(c)' /\ KeyInStep(KeyOf[c])'
    BY <1>0, <1>3 DEF ReadBalance, CallInStep, KeyInStep, At
  <2>2. \A e \in Callers : e # c => caller'[e].pc = caller[e].pc
    BY <1>0, <1>3 DEF ReadBalance
  <2>3. \A k \in Keys : k # KeyOf[c] => requests'[k] = requests[k] /\ ledger'[k] = ledger[k]
    BY <1>0, <1>3 DEF ReadBalance
  <2>4. /\ Active(c) \/ Row(c).status = "NONE"
           \/ (Row(c)' = Row(c) /\ ledger'[KeyOf[c]] = ledger[KeyOf[c]])
        /\ Active(c)' => Active(c) \/ Row(c).status = "NONE"
    BY <1>0, <1>3 DEF ReadBalance, Active
  <2> QED
    BY <2>1, <2>2, <2>3, <2>4, Frame
<1>4. CASE DeductCredit(c)
  <2>1. CallInStep(c)' /\ KeyInStep(KeyOf[c])'
    BY <1>0, <1>4 DEF DeductCredit, CallInStep, KeyInStep, At
  <2>2. \A e \in Callers : e # c => caller'[e].pc = caller[e].pc
    BY <1>0, <1>4 DEF DeductCredit
  <2>3. \A k \in Keys : k # KeyOf[c] => requests'[k] = requests[k] /\ ledger'[k] = ledger[k]
    BY <1>0, <1>4 DEF DeductCredit
  <2>4. /\ Active(c) \/ Row(c).status = "NONE"
           \/ (Row(c)' = Row(c) /\ ledger'[KeyOf[c]] = ledger[KeyOf[c]])
        /\ Active(c)' => Active(c) \/ Row(c).status = "NONE"
    BY <1>0, <1>4 DEF DeductCredit, Active
  <2> QED
    BY <2>1, <2>2, <2>3, <2>4, Frame
<1>5. CASE RefuseRequest(c)
  <2>1. CallInStep(c)' /\ KeyInStep(KeyOf[c])'
    BY <1>0, <1>5 DEF RefuseRequest, CallInStep, KeyInStep, At
  <2>2. \A e \in Callers : e # c => caller'[e].pc = caller[e].pc
    BY <1>0, <1>5 DEF RefuseRequest
  <2>3. \A k \in Keys : k # KeyOf[c] => requests'[k] = requests[k] /\ ledger'[k] = ledger[k]
    BY <1>0, <1>5 DEF RefuseRequest
  <2>4. /\ Active(c) \/ Row(c).status = "NONE"
           \/ (Row(c)' = Row(c) /\ ledger'[KeyOf[c]] = ledger[KeyOf[c]])
        /\ Active(c)' => Active(c) \/ Row(c).status = "NONE"
    BY <1>0, <1>5 DEF RefuseRequest, Active
  <2> QED
    BY <2>1, <2>2, <2>3, <2>4, Frame
<1>6. CASE MarkProcessing(c)
  <2>1. CallInStep(c)' /\ KeyInStep(KeyOf[c])'
    <3>1. CASE UpdateRow(c, [Row(c) EXCEPT !.status = "PROCESSING", !.creditsDeducted = 1]) /\ Goto(c, "transfer")
      <4>1. /\ Row(c)'.status = "PROCESSING" /\ Row(c)'.creditsDeducted = 1
            /\ caller'[c].pc = "transfer"
        BY <1>0, <3>1 DEF MarkProcessing
      <4>2. ledger'[KeyOf[c]] = ledger[KeyOf[c]]
        BY <1>6 DEF MarkProcessing
      <4> QED
        BY <1>0, <1>6, <4>1, <4>2 DEF MarkProcessing, CallInStep, KeyInStep, At
    <3>2. CASE Answer(c, "ServerError") /\ UNCHANGED requests
      BY <1>0, <1>6, <3>2 DEF MarkProcessing, CallInStep, KeyInStep, At
    <3> QED
      BY <1>6, <3>1, <3>2 DEF MarkProcessing
  <2>2. \A e \in Callers : e # c => caller'[e].pc = caller[e].pc
    BY <1>0, <1>6 DEF MarkProcessing
  <2>3. \A k \in Keys : k # KeyOf[c] => requests'[k] = requests[k] /\ ledger'[k] = ledger[k]
    BY <1>0, <1>6 DEF MarkProcessing
  <2>4. /\ Active(c) \/ Row(c).status = "NONE"
           \/ (Row(c)' = Row(c) /\ ledger'[KeyOf[c]] = ledger[KeyOf[c]])
        /\ Active(c)' => Active(c) \/ Row(c).status = "NONE"
    BY <1>0, <1>6 DEF MarkProcessing, Active
  <2> QED
    BY <2>1, <2>2, <2>3, <2>4, Frame
<1>7. CASE TransferEnergy(c)
  <2>1. CallInStep(c)' /\ KeyInStep(KeyOf[c])'
    BY <1>0, <1>7 DEF TransferEnergy, CallInStep, KeyInStep, At
  <2>2. \A e \in Callers : e # c => caller'[e].pc = caller[e].pc
    BY <1>0, <1>7 DEF TransferEnergy
  <2>3. \A k \in Keys : k # KeyOf[c] => requests'[k] = requests[k] /\ ledger'[k] = ledger[k]
    BY <1>0, <1>7 DEF TransferEnergy
  <2>4. /\ Active(c) \/ Row(c).status = "NONE"
           \/ (Row(c)' = Row(c) /\ ledger'[KeyOf[c]] = ledger[KeyOf[c]])
        /\ Active(c)' => Active(c) \/ Row(c).status = "NONE"
    BY <1>0, <1>7 DEF TransferEnergy, Active
  <2> QED
    BY <2>1, <2>2, <2>3, <2>4, Frame
<1>8. CASE CompleteRequest(c)
  <2>1. CallInStep(c)' /\ KeyInStep(KeyOf[c])'
    <3>1. CASE UpdateRow(c, [Row(c) EXCEPT !.status = "COMPLETED", !.delegatedSun = Sun]) /\ Answer(c, "COMPLETED")
      <4>1. /\ Row(c)'.status = "COMPLETED" /\ Row(c)'.creditsDeducted = Row(c).creditsDeducted
            /\ caller'[c].pc = "answered"
        BY <1>0, <3>1 DEF CompleteRequest
      <4>2. ledger'[KeyOf[c]] = ledger[KeyOf[c]]
        BY <1>8 DEF CompleteRequest
      <4> QED
        BY <1>0, <1>8, <4>1, <4>2 DEF CompleteRequest, CallInStep, KeyInStep, At
    <3>2. CASE UNCHANGED requests
      BY <1>0, <1>8, <3>2 DEF CompleteRequest, CallInStep, KeyInStep, At
    <3> QED
      BY <1>8, <3>1, <3>2 DEF CompleteRequest
  <2>2. \A e \in Callers : e # c => caller'[e].pc = caller[e].pc
    BY <1>0, <1>8 DEF CompleteRequest
  <2>3. \A k \in Keys : k # KeyOf[c] => requests'[k] = requests[k] /\ ledger'[k] = ledger[k]
    BY <1>0, <1>8 DEF CompleteRequest
  <2>4. /\ Active(c) \/ Row(c).status = "NONE"
           \/ (Row(c)' = Row(c) /\ ledger'[KeyOf[c]] = ledger[KeyOf[c]])
        /\ Active(c)' => Active(c) \/ Row(c).status = "NONE"
    BY <1>0, <1>8 DEF CompleteRequest, Active
  <2> QED
    BY <2>1, <2>2, <2>3, <2>4, Frame
<1>9. CASE RefundCredit(c)
  <2>1. CallInStep(c)' /\ KeyInStep(KeyOf[c])'
    BY <1>0, <1>9 DEF RefundCredit, CallInStep, KeyInStep, At
  <2>2. \A e \in Callers : e # c => caller'[e].pc = caller[e].pc
    BY <1>0, <1>9 DEF RefundCredit
  <2>3. \A k \in Keys : k # KeyOf[c] => requests'[k] = requests[k] /\ ledger'[k] = ledger[k]
    BY <1>0, <1>9 DEF RefundCredit
  <2>4. /\ Active(c) \/ Row(c).status = "NONE"
           \/ (Row(c)' = Row(c) /\ ledger'[KeyOf[c]] = ledger[KeyOf[c]])
        /\ Active(c)' => Active(c) \/ Row(c).status = "NONE"
    BY <1>0, <1>9 DEF RefundCredit, Active
  <2> QED
    BY <2>1, <2>2, <2>3, <2>4, Frame
<1>10. CASE FailRequest(c)
  <2>1. CallInStep(c)' /\ KeyInStep(KeyOf[c])'
    <3>1. CASE UpdateRow(c, [Row(c) EXCEPT !.status = "FAILED", !.creditsDeducted = 0]) /\ Answer(c, "FAILED")
      <4>1. /\ Row(c)'.status = "FAILED" /\ Row(c)'.creditsDeducted = 0
            /\ caller'[c].pc = "answered"
        BY <1>0, <3>1 DEF FailRequest
      <4>2. ledger'[KeyOf[c]] = ledger[KeyOf[c]]
        BY <1>10 DEF FailRequest
      <4> QED
        BY <1>0, <1>10, <4>1, <4>2 DEF FailRequest, CallInStep, KeyInStep, At
    <3>2. CASE UNCHANGED requests
      BY <1>0, <1>10, <3>2 DEF FailRequest, CallInStep, KeyInStep, At
    <3> QED
      BY <1>10, <3>1, <3>2 DEF FailRequest
  <2>2. \A e \in Callers : e # c => caller'[e].pc = caller[e].pc
    BY <1>0, <1>10 DEF FailRequest
  <2>3. \A k \in Keys : k # KeyOf[c] => requests'[k] = requests[k] /\ ledger'[k] = ledger[k]
    BY <1>0, <1>10 DEF FailRequest
  <2>4. /\ Active(c) \/ Row(c).status = "NONE"
           \/ (Row(c)' = Row(c) /\ ledger'[KeyOf[c]] = ledger[KeyOf[c]])
        /\ Active(c)' => Active(c) \/ Row(c).status = "NONE"
    BY <1>0, <1>10 DEF FailRequest, Active
  <2> QED
    BY <2>1, <2>2, <2>3, <2>4, Frame
<1> QED
  BY <1>1, <1>2, <1>3, <1>4, <1>5, <1>6, <1>7, <1>8, <1>9, <1>10 DEF Delegate

LEMMA InvNext == IInv /\ [Next]_vars => IInv'
<1> SUFFICES ASSUME IInv, [Next]_vars PROVE IInv'
  OBVIOUS
<1>0. TypeOK'
  BY TypeNext DEF IInv
<1>1. ASSUME NEW c \in Callers, Delegate(c) PROVE IInv'
  BY <1>0, <1>1, InvDelegate DEF IInv
<1>2. ASSUME UNCHANGED <<requests, ledger, caller>> PROVE IInv'
  <2>1. OneOwner'
    BY <1>2 DEF IInv, OneOwner, Active
  <2>2. \A c \in Callers : CallInStep(c)'
    BY <1>2 DEF IInv, CallInStep, At
  <2>3. \A k \in Keys : KeyInStep(k)'
    BY <1>2 DEF IInv, KeyInStep, At
  <2> QED
    BY <1>0, <2>1, <2>2, <2>3 DEF IInv
<1>3. CASE TopUp \/ UNCHANGED vars
  BY <1>2, <1>3 DEF TopUp, vars
<1>4. CASE StartReclaim \/ ReclaimEnergy \/ EndReclaim
  BY <1>2, <1>4 DEF StartReclaim, ReclaimEnergy, EndReclaim
<1>5. CASE MarkReclaimed
  <2>1. /\ UNCHANGED <<ledger, caller>>
        /\ \A k \in Keys : /\ requests'[k].status = requests[k].status
                          /\ requests'[k].creditsDeducted = requests[k].creditsDeducted
    BY <1>5 DEF MarkReclaimed, IInv, TypeOK, RequestRow
  <2>2. OneOwner'
    BY <2>1 DEF IInv, OneOwner, Active
  <2>3. \A c \in Callers : CallInStep(c)'
    BY <2>1 DEF IInv, CallInStep, At
  <2>4. \A k \in Keys : KeyInStep(k)'
    BY <2>1 DEF IInv, KeyInStep, At
  <2> QED
    BY <1>0, <2>2, <2>3, <2>4 DEF IInv
<1>6. CASE Crash
  <2>1. /\ UNCHANGED <<requests, ledger>>
        /\ \A c \in Callers : caller'[c].pc = IF caller[c].pc \in {"new", "answered"}
                                            THEN caller[c].pc ELSE "lost"
    BY <1>6 DEF Crash, IInv, TypeOK
  <2>2. OneOwner'
    BY <2>1 DEF IInv, OneOwner, Active
  <2>3. \A c \in Callers : CallInStep(c)'
    BY <2>1 DEF IInv, CallInStep, At
  <2>4. \A k \in Keys : KeyInStep(k)'
    BY <2>1 DEF IInv, KeyInStep, At
  <2> QED
    BY <1>0, <2>2, <2>3, <2>4 DEF IInv
<1> QED
  BY <1>1, <1>3, <1>4, <1>5, <1>6 DEF Next, Reclaim

\* The invariant of the requests holds in every reachable state: for every
\* `pc` of a call, what the row and the ledger of its key look like.
THEOREM Invariance == Spec => []IInv
BY InvInit, InvNext, PTL DEF Spec

(***************************************************************************)
(* Safety.                                                                 *)
(***************************************************************************)
\* One idempotency key is charged at most once and refunded at most what it
\* was charged, for any number of simultaneous calls.
THEOREM NoDoubleCharge == Spec => []ChargedOncePerKey
<1>1. IInv => ChargedOncePerKey
  BY DEF IInv, KeyInStep, ChargedOncePerKey
<1> QED
  BY <1>1, Invariance, PTL

\* A COMPLETED request kept exactly one credit, a FAILED one none, and the row
\* reports what the ledger shows.
THEOREM FinalStatusTruthful == Spec => []FinalStatusMatchesCharge
<1>1. IInv => FinalStatusMatchesCharge
  BY DEF IInv, KeyInStep, At, TypeOK, RequestRow, FinalStatusMatchesCharge
<1> QED
  BY <1>1, Invariance, PTL

(***************************************************************************)
(* Refinement of the prepaid account.                                      *)
(***************************************************************************)
\* Where at most key k is written, the account moves at most at k.
LEMMA AccountFrame ==
  ASSUME NEW k \in Keys,
         \A j \in Keys : j # k => /\ requests'[j].status = requests[j].status
                                 /\ ledger'[j] = ledger[j]
  PROVE  accountOf' = [accountOf EXCEPT ![k] = accountOf'[k]]
BY DEF accountOf

\* Which keys a call can write, without the detail of the rows.
LEMMA OwnKeyOnly ==
  ASSUME IInv, NEW c \in Callers, Delegate(c), NEW k \in Keys, k # KeyOf[c]
  PROVE  requests'[k] = requests[k] /\ ledger'[k] = ledger[k]
<1>0. /\ requests \in [Keys -> RequestRow] /\ KeyOf[c] \in Keys
      /\ ledger \in [Keys -> [deductions : Nat, refunds : Nat]]
  BY DEF IInv, TypeOK
<1> QED
  BY <1>0 DEF Delegate, LookupKey, CreateRequest, ReadBalance, DeductCredit,
     RefuseRequest, MarkProcessing, TransferEnergy, CompleteRequest,
     RefundCredit, FailRequest, UpdateRow, Row

LEMMA DelegateRefines ==
  ASSUME IInv, NEW c \in Callers, Delegate(c)
  PROVE  Account!Next \/ UNCHANGED <<v2Credits, accountOf>>
<1> DEFINE k == KeyOf[c]
<1>0. /\ k \in Keys /\ CallInStep(c) /\ KeyInStep(k)
      /\ requests \in [Keys -> RequestRow]
      /\ ledger \in [Keys -> [deductions : Nat, refunds : Nat]]
      /\ v2Credits \in Int
  BY DEF IInv, TypeOK
<1>1. accountOf' = [accountOf EXCEPT ![k] = accountOf'[k]]
  BY <1>0, OwnKeyOnly, AccountFrame
<1>2. ASSUME accountOf'[k] = accountOf[k]
      PROVE  accountOf' = accountOf
  <2>1. [accountOf EXCEPT ![k] = accountOf[k]] = accountOf
    BY DEF accountOf
  <2> QED
    BY <1>1, <1>2, <2>1
<1>3. CASE LookupKey(c) \/ ReadBalance(c) \/ TransferEnergy(c)
  BY <1>2, <1>3 DEF LookupKey, ReadBalance, TransferEnergy, accountOf
<1>4. CASE CreateRequest(c) \/ RefuseRequest(c) \/ MarkProcessing(c) \/ FailRequest(c)
  <2>1. UNCHANGED <<v2Credits, ledger>>
    BY <1>4 DEF CreateRequest, RefuseRequest, MarkProcessing, FailRequest
  <2>2. \/ requests' = requests
        \/ ledger[k].deductions = 0
        \/ ledger[k].refunds # 0
        \/ requests[k].status # "COMPLETED" /\ requests'[k].status # "COMPLETED"
    <3>1. CASE CreateRequest(c)
      BY <1>0, <3>1 DEF CreateRequest, KeyInStep, KeyTaken, Row, At
    <3>2. CASE RefuseRequest(c)
      BY <1>0, <3>2 DEF RefuseRequest, CallInStep, At
    <3>3. CASE MarkProcessing(c)
      BY <1>0, <3>3 DEF MarkProcessing, CallInStep, Row, UpdateRow, RequestRow, At
    <3>4. CASE FailRequest(c)
      BY <1>0, <3>4 DEF FailRequest, CallInStep, At
    <3> QED
      BY <1>4, <3>1, <3>2, <3>3, <3>4
  <2>3. accountOf'[k] = accountOf[k]
    BY <1>0, <2>1, <2>2 DEF accountOf
  <2> QED
    BY <1>2, <2>1, <2>3
<1>5. CASE DeductCredit(c)
  <2>1. CASE UNCHANGED <<v2Credits, ledger>>
    BY <1>2, <1>5, <2>1 DEF DeductCredit, accountOf
  <2>2. CASE /\ v2Credits' = v2Credits - 1
             /\ ledger' = [ledger EXCEPT ![KeyOf[c]].deductions = @ + 1]
    <3>1. ledger[k].deductions = 0 /\ ledger'[k].deductions = 1 /\ ledger'[k].refunds = 0
      BY <1>0, <1>5, <2>2 DEF DeductCredit, CallInStep, At
    <3>2. requests'[k].status # "COMPLETED"
      BY <1>0, <1>5 DEF DeductCredit, CallInStep, At
    <3>3. accountOf[k] = "none" /\ accountOf'[k] = "held"
      BY <1>0, <3>1, <3>2 DEF accountOf
    <3>4. Account!Hold(k)
      BY <1>1, <2>2, <3>3 DEF Account!Hold, Account!Move
    <3> QED
      BY <1>0, <3>4 DEF Account!Next
  <2> QED
    BY <1>5, <2>1, <2>2 DEF DeductCredit
<1>6. CASE CompleteRequest(c)
  <2>0. UNCHANGED <<v2Credits, ledger>>
    BY <1>6 DEF CompleteRequest
  <2>1. CASE UNCHANGED requests
    BY <1>2, <2>0, <2>1 DEF accountOf
  <2>2. CASE UpdateRow(c, [Row(c) EXCEPT !.status = "COMPLETED", !.delegatedSun = Sun])
    <3>1. requests'[k].status = "COMPLETED"
      BY <1>0, <2>2 DEF UpdateRow, Row, RequestRow
    <3>2. /\ ledger[k].deductions = 1 /\ ledger[k].refunds = 0
          /\ requests[k].status = "PROCESSING"
      BY <1>0, <1>6 DEF CompleteRequest, CallInStep, At
    <3>3. accountOf[k] = "held" /\ accountOf'[k] = "spent"
      BY <1>0, <2>0, <3>1, <3>2 DEF accountOf
    <3>4. Account!Spend(k)
      BY <1>1, <2>0, <3>3 DEF Account!Spend, Account!Move
    <3> QED
      BY <1>0, <3>4 DEF Account!Next
  <2> QED
    BY <1>6, <2>1, <2>2 DEF CompleteRequest
<1>7. CASE RefundCredit(c)
  <2>1. CASE UNCHANGED <<v2Credits, ledger>>
    BY <1>2, <1>7, <2>1 DEF RefundCredit, accountOf
  <2>2. CASE /\ v2Credits' = v2Credits + 1
             /\ ledger' = [ledger EXCEPT ![KeyOf[c]].refunds = @ + 1]
    <3>1. /\ ledger[k].deductions = 1 /\ ledger[k].refunds = 0
          /\ requests[k].status = "PROCESSING"
      BY <1>0, <1>7 DEF RefundCredit, CallInStep, At
    <3>2. ledger'[k].deductions = 1 /\ ledger'[k].refunds = 1
      BY <1>0, <2>2, <3>1
    <3>3. accountOf[k] = "held" /\ accountOf'[k] = "returned"
      BY <1>0, <3>1, <3>2 DEF accountOf
    <3>4. Account!Return(k)
      BY <1>1, <2>2, <3>3 DEF Account!Return, Account!Move
    <3> QED
      BY <1>0, <3>4 DEF Account!Next
  <2> QED
    BY <1>7, <2>1, <2>2 DEF RefundCredit
<1> QED
  BY <1>3, <1>4, <1>5, <1>6, <1>7 DEF Delegate

LEMMA NextRefines ==
  ASSUME IInv, [Next]_vars
  PROVE  [Account!Next]_<<v2Credits, accountOf>>
<1>1. ASSUME NEW c \in Callers, Delegate(c)
      PROVE  Account!Next \/ UNCHANGED <<v2Credits, accountOf>>
  BY <1>1, DelegateRefines
<1>2. CASE TopUp
  <2>1. accountOf' = accountOf
    BY <1>2 DEF TopUp, accountOf
  <2> QED
    BY <1>2, <2>1 DEF TopUp, Account!Next, Account!Buy
<1>3. CASE Reclaim \/ Crash \/ UNCHANGED vars
  <2>1. UNCHANGED <<v2Credits, ledger>>
    BY <1>3 DEF Reclaim, StartReclaim, ReclaimEnergy, MarkReclaimed, EndReclaim, Crash, vars
  <2>2. \A k \in Keys : requests'[k].status = requests[k].status
    BY <1>3 DEF Reclaim, StartReclaim, ReclaimEnergy, MarkReclaimed, EndReclaim,
       Crash, vars, IInv, TypeOK, RequestRow
  <2>3. accountOf' = accountOf
    BY <2>1, <2>2 DEF accountOf
  <2> QED
    BY <2>1, <2>3
<1> QED
  BY <1>1, <1>2, <1>3 DEF Next

\* delegateEnergy implements the prepaid account: whatever calls, faults and
\* restarts do, a key's credit is held once and then spent or returned once.
THEOREM RequestsImplementAccount == Spec => ImplementsAccount
<1>1. Init => Account!Init
  BY DEF Init, Account!Init, accountOf
<1> QED
  BY <1>1, Invariance, NextRefines, PTL DEF Spec, ImplementsAccount, Account!Spec

(***************************************************************************)
(* The balance and the ledger.  Finitely many keys have been charged and   *)
(* refunded so far, whether or not there are finitely many keys: this is   *)
(* part of the invariant, and the balance counts them.                     *)
(***************************************************************************)
Charged == {k \in Keys : ledger[k].deductions = 1}
Refunded == {k \in Keys : ledger[k].refunds = 1}

BookedFinitely == IsFiniteSet(Charged) /\ IsFiniteSet(Refunded)

\* BalanceMatchesLedger, with the two sets named.
LEMMA BalanceByCharges ==
  BalanceMatchesLedger <=> v2Credits = topups - Cardinality(Charged) + Cardinality(Refunded)
BY DEF BalanceMatchesLedger, Charged, Refunded

\* Nothing is booked at the start.
LEMMA BalanceInit == Init => BookedFinitely /\ BalanceMatchesLedger
<1> SUFFICES ASSUME Init PROVE BookedFinitely /\ BalanceMatchesLedger
  OBVIOUS
<1>1. Charged = {} /\ Refunded = {}
  BY DEF Init, Charged, Refunded
<1>2. IsFiniteSet({}) /\ Cardinality({}) = 0
  BY FS_EmptySet
<1>3. v2Credits = topups - Cardinality(Charged) + Cardinality(Refunded)
  BY <1>1, <1>2 DEF Init
<1> QED
  BY <1>1, <1>2, <1>3, BalanceByCharges DEF BookedFinitely

\* A step that leaves the balance, the topups and every ledger row alone.
LEMMA BalanceFrame ==
  ASSUME BookedFinitely, BalanceMatchesLedger, UNCHANGED <<v2Credits, topups, ledger>>
  PROVE  BookedFinitely' /\ BalanceMatchesLedger'
<1>1. Charged' = Charged /\ Refunded' = Refunded
  BY DEF Charged, Refunded
<1>2. BookedFinitely'
  BY <1>1 DEF BookedFinitely
<1>3. BalanceMatchesLedger'
  BY Zenon DEF BalanceMatchesLedger
<1> QED
  BY <1>2, <1>3

\* Taking the credit charges a key that had not been charged.
LEMMA BalanceDeduct ==
  ASSUME IInv, BookedFinitely, BalanceMatchesLedger, NEW c \in Callers, DeductCredit(c)
  PROVE  BookedFinitely' /\ BalanceMatchesLedger'
<1> DEFINE k == KeyOf[c]
<1>0. /\ k \in Keys /\ CallInStep(c)
      /\ ledger \in [Keys -> [deductions : Nat, refunds : Nat]]
      /\ v2Credits \in Int /\ topups \in Int
  BY DEF IInv, TypeOK
<1>1. CASE UNCHANGED <<v2Credits, ledger>>
  BY <1>1, BalanceFrame DEF DeductCredit
<1>2. CASE /\ v2Credits' = v2Credits - 1
           /\ ledger' = [ledger EXCEPT ![KeyOf[c]].deductions = @ + 1]
  <2>1. ledger[k].deductions = 0
    BY <1>0 DEF DeductCredit, CallInStep, At
  <2>2. /\ ledger'[k].deductions = 1 /\ ledger'[k].refunds = ledger[k].refunds
        /\ \A j \in Keys : j # k => ledger'[j] = ledger[j]
    BY <1>0, <1>2, <2>1
  <2>3. Refunded' = Refunded /\ Charged' = Charged \cup {k} /\ k \notin Charged
    BY <1>0, <2>1, <2>2 DEF Charged, Refunded
  <2>4. /\ IsFiniteSet(Charged \cup {k})
        /\ Cardinality(Charged \cup {k}) = Cardinality(Charged) + 1
    BY <2>3, FS_AddElement DEF BookedFinitely
  <2>5. Cardinality(Charged) \in Nat /\ Cardinality(Refunded) \in Nat
    BY FS_CardinalityType DEF BookedFinitely
  <2>6. v2Credits = topups - Cardinality(Charged) + Cardinality(Refunded)
    BY BalanceByCharges
  <2>7. v2Credits' = topups' - Cardinality(Charged') + Cardinality(Refunded')
    BY <1>0, <1>2, <2>3, <2>4, <2>5, <2>6 DEF DeductCredit
  <2>8. BalanceMatchesLedger'
    BY <2>7, Zenon DEF BalanceMatchesLedger, Charged, Refunded
  <2> QED
    BY <2>3, <2>4, <2>8 DEF BookedFinitely
<1> QED
  BY <1>1, <1>2 DEF DeductCredit

\* Giving the credit back refunds a key that had not been refunded.
LEMMA BalanceRefund ==
  ASSUME IInv, BookedFinitely, BalanceMatchesLedger, NEW c \in Callers, RefundCredit(c)
  PROVE  BookedFinitely' /\ BalanceMatchesLedger'
<1> DEFINE k == KeyOf[c]
<1>0. /\ k \in Keys /\ CallInStep(c)
      /\ ledger \in [Keys -> [deductions : Nat, refunds : Nat]]
      /\ v2Credits \in Int /\ topups \in Int
  BY DEF IInv, TypeOK
<1>1. CASE UNCHANGED <<v2Credits, ledger>>
  BY <1>1, BalanceFrame DEF RefundCredit
<1>2. CASE /\ v2Credits' = v2Credits + 1
           /\ ledger' = [ledger EXCEPT ![KeyOf[c]].refunds = @ + 1]
  <2>1. ledger[k].refunds = 0
    BY <1>0 DEF RefundCredit, CallInStep, At
  <2>2. /\ ledger'[k].refunds = 1 /\ ledger'[k].deductions = ledger[k].deductions
        /\ \A j \in Keys : j # k => ledger'[j] = ledger[j]
    BY <1>0, <1>2, <2>1
  <2>3. Charged' = Charged /\ Refunded' = Refunded \cup {k} /\ k \notin Refunded
    BY <1>0, <2>1, <2>2 DEF Charged, Refunded
  <2>4. /\ IsFiniteSet(Refunded \cup {k})
        /\ Cardinality(Refunded \cup {k}) = Cardinality(Refunded) + 1
    BY <2>3, FS_AddElement DEF BookedFinitely
  <2>5. Cardinality(Charged) \in Nat /\ Cardinality(Refunded) \in Nat
    BY FS_CardinalityType DEF BookedFinitely
  <2>6. v2Credits = topups - Cardinality(Charged) + Cardinality(Refunded)
    BY BalanceByCharges
  <2>7. v2Credits' = topups' - Cardinality(Charged') + Cardinality(Refunded')
    BY <1>0, <1>2, <2>3, <2>4, <2>5, <2>6 DEF RefundCredit
  <2>8. BalanceMatchesLedger'
    BY <2>7, Zenon DEF BalanceMatchesLedger, Charged, Refunded
  <2> QED
    BY <2>3, <2>4, <2>8 DEF BookedFinitely
<1> QED
  BY <1>1, <1>2 DEF RefundCredit

\* Every other step writes neither the balance nor the ledger, or buys one.
LEMMA BalanceNext ==
  ASSUME IInv, BookedFinitely, BalanceMatchesLedger, [Next]_vars
  PROVE  BookedFinitely' /\ BalanceMatchesLedger'
<1>1. ASSUME NEW c \in Callers, Delegate(c)
      PROVE  BookedFinitely' /\ BalanceMatchesLedger'
  <2>1. CASE DeductCredit(c)
    BY <2>1, BalanceDeduct
  <2>2. CASE RefundCredit(c)
    BY <2>2, BalanceRefund
  <2>3. CASE /\ ~DeductCredit(c) /\ ~RefundCredit(c)
    BY <1>1, <2>3, BalanceFrame DEF Delegate, LookupKey, CreateRequest, ReadBalance,
       RefuseRequest, MarkProcessing, TransferEnergy, CompleteRequest, FailRequest
  <2> QED
    BY <2>1, <2>2, <2>3
<1>2. CASE TopUp
  <2>1. /\ Charged' = Charged /\ Refunded' = Refunded
        /\ v2Credits' = v2Credits + 1 /\ topups' = topups + 1
        /\ v2Credits \in Int /\ topups \in Int
    BY <1>2 DEF TopUp, Charged, Refunded, IInv, TypeOK
  <2>2. Cardinality(Charged) \in Nat /\ Cardinality(Refunded) \in Nat
    BY FS_CardinalityType DEF BookedFinitely
  <2>3. v2Credits = topups - Cardinality(Charged) + Cardinality(Refunded)
    BY BalanceByCharges
  <2>4. v2Credits' = topups' - Cardinality(Charged') + Cardinality(Refunded')
    BY <2>1, <2>2, <2>3
  <2>5. BalanceMatchesLedger'
    BY <2>4, Zenon DEF BalanceMatchesLedger, Charged, Refunded
  <2> QED
    BY <2>1, <2>5 DEF BookedFinitely
<1>3. CASE Reclaim \/ Crash \/ UNCHANGED vars
  BY <1>3, BalanceFrame DEF Reclaim, StartReclaim, ReclaimEnergy, MarkReclaimed,
     EndReclaim, Crash, vars
<1> QED
  BY <1>1, <1>2, <1>3 DEF Next

\* The balance of a customer is what was bought, less one for each key that
\* was charged, plus one for each that was refunded, after any crash.
THEOREM BalanceExplained == Spec => []BalanceMatchesLedger
<1>1. Init => BookedFinitely /\ BalanceMatchesLedger
  BY BalanceInit
<1>2. IInv /\ (BookedFinitely /\ BalanceMatchesLedger) /\ [Next]_vars
        => (BookedFinitely /\ BalanceMatchesLedger)'
  BY BalanceNext
<1> QED
  BY <1>1, <1>2, Invariance, PTL DEF Spec

(***************************************************************************)
(* Energy.  While no statement fails and nothing restarts, each wallet     *)
(* holds at least what the requests that count on it asked for.  A request *)
(* counts from the moment its delegation is on TRON, before its row says   *)
(* COMPLETED, until the reclaim run takes its energy back, before its row  *)
(* says so; and the run takes each request at most once.                   *)
(***************************************************************************)
Completing(k) == \E c \in Callers : caller[c].pc = "complete" /\ KeyOf[c] = k

Held(k) == /\ requests[k].status = "COMPLETED" \/ Completing(k)
           /\ ~requests[k].reclaimed
           /\ ~(reclaimer.pc = "mark" /\ reclaimer.key = k)

Holding(w) == {k \in Keys : requests[k].wallet = w /\ Held(k)}

Covered(w) == /\ IsFiniteSet(Holding(w))
              /\ delegated[w] >= Sun * Cardinality(Holding(w))

OwnWallet == \A c \in Callers : Active(c) => requests[KeyOf[c]].wallet = WalletOf[c]

RunInStep == \A k \in reclaimer.todo :
               /\ requests[k].status = "COMPLETED"
               /\ ~requests[k].reclaimed
               /\ ~(reclaimer.pc = "mark" /\ reclaimer.key = k)

EnergyInv == OwnWallet /\ RunInStep /\ \A w \in Wallets : Covered(w)

\* No energy is delegated at the start, and none is owed.
LEMMA EnergyInit == Init => EnergyInv
<1> SUFFICES ASSUME Init PROVE EnergyInv
  OBVIOUS
<1>1. OwnWallet /\ RunInStep
  BY DEF Init, OwnWallet, Active, RunInStep, IdleReclaimer
<1>2. ASSUME NEW w \in Wallets PROVE Covered(w)
  <2>1. \A k \in Keys : ~Held(k)
    BY DEF Init, Held, Completing, NoRequest
  <2>2. Holding(w) = {}
    BY <2>1 DEF Holding
  <2>3. IsFiniteSet({}) /\ Cardinality({}) = 0
    BY FS_EmptySet
  <2>4. delegated[w] = 0
    BY DEF Init
  <2> QED
    BY <2>2, <2>3, <2>4 DEF Covered, Sun
<1> QED
  BY <1>1, <1>2 DEF EnergyInv

\* Where the same requests hold energy in the same wallets.
LEMMA CoveredFrame ==
  ASSUME \A k \in Keys : Held(k)' <=> Held(k),
         \A k \in Keys : Held(k) => requests'[k].wallet = requests[k].wallet,
         NEW w \in Wallets, Covered(w), delegated'[w] = delegated[w]
  PROVE  Covered(w)'
<1>1. Holding(w)' = Holding(w)
  BY DEF Holding
<1> QED
  BY <1>1 DEF Covered

\* A call moves only its own program counter.
LEMMA OtherCalls ==
  ASSUME IInv, NEW c \in Callers, Delegate(c)
  PROVE  /\ \A e \in Callers : e # c => caller'[e] = caller[e]
         /\ reclaimer' = reclaimer
<1>1. caller \in [Callers -> [pc : CallerPc, response : Response]]
  BY DEF IInv, TypeOK
<1>2. \A pc : Goto(c, pc) => \A e \in Callers : e # c => caller'[e] = caller[e]
  BY <1>1 DEF Goto
<1>3. \A r : Answer(c, r) => \A e \in Callers : e # c => caller'[e] = caller[e]
  BY <1>1 DEF Answer
<1> QED
  BY <1>2, <1>3 DEF Delegate, LookupKey, CreateRequest, ReadBalance, DeductCredit,
     RefuseRequest, MarkProcessing, TransferEnergy, CompleteRequest,
     RefundCredit, FailRequest

\* The requests of other keys hold what they held.
LEMMA OtherKeys ==
  ASSUME IInv, NEW c \in Callers, Delegate(c), NEW k \in Keys, k # KeyOf[c]
  PROVE  /\ requests'[k] = requests[k]
         /\ Held(k)' <=> Held(k)
<1>1. requests'[k] = requests[k]
  BY OwnKeyOnly
<1>2. Completing(k)' <=> Completing(k)
  BY OtherCalls DEF Completing
<1>3. reclaimer' = reclaimer
  BY OtherCalls
<1> QED
  BY <1>1, <1>2, <1>3 DEF Held

\* A row that says COMPLETED is not written by a call any more.
LEMMA CompletedStays ==
  ASSUME IInv, NEW c \in Callers, Delegate(c), NEW k \in Keys,
         requests[k].status = "COMPLETED"
  PROVE  requests'[k] = requests[k]
<1>1. CASE k # KeyOf[c]
  BY <1>1, OwnKeyOnly
<1>2. CASE k = KeyOf[c]
  <2>1. ~Active(c)
    BY <1>2 DEF IInv, CallInStep, Active, At
  <2>2. requests' = requests
    BY <1>2, <2>1 DEF Active, Delegate, LookupKey, CreateRequest, ReadBalance,
       DeductCredit, RefuseRequest, MarkProcessing, TransferEnergy,
       CompleteRequest, RefundCredit, FailRequest, KeyTaken, Row
  <2> QED
    BY <2>2
<1> QED
  BY <1>1, <1>2

\* The only call that can be about to complete the request of its key.
LEMMA OwnCompleting ==
  ASSUME IInv, NEW c \in Callers, Active(c) \/ Row(c).status = "NONE"
  PROVE  Completing(KeyOf[c]) <=> caller[c].pc = "complete"
<1>1. \A e \in Callers : caller[e].pc = "complete" => Active(e) /\ Row(e).status = "PROCESSING"
  BY DEF IInv, CallInStep, Active, At, Row
<1>2. \A e \in Callers : caller[e].pc = "complete" /\ KeyOf[e] = KeyOf[c] => e = c
  BY <1>1 DEF IInv, OneOwner, Row
<1> QED
  BY <1>2 DEF Completing

\* What a call writes to a row that exists: never its wallet, nor reclaimed.
LEMMA RowKept ==
  ASSUME IInv, NEW c \in Callers, Delegate(c), ~CreateRequest(c)
  PROVE  /\ requests'[KeyOf[c]].wallet = requests[KeyOf[c]].wallet
         /\ requests'[KeyOf[c]].reclaimed = requests[KeyOf[c]].reclaimed
         /\ ~CompleteRequest(c) /\ requests' # requests
              => requests'[KeyOf[c]].status # "COMPLETED"
<1>0. /\ KeyOf[c] \in Keys /\ requests \in [Keys -> RequestRow]
      /\ Row(c) \in [status : RequestStatus, wallet : Wallets \cup {"none"},
                      creditsDeducted : {0, 1}, delegatedSun : {0, Sun},
                      reclaimed : BOOLEAN]
  BY DEF IInv, TypeOK, RequestRow, Row
<1>1. \/ requests' = requests
      \/ UpdateRow(c, [Row(c) EXCEPT !.status = "FAILED"])
      \/ UpdateRow(c, [Row(c) EXCEPT !.status = "PROCESSING", !.creditsDeducted = 1])
      \/ UpdateRow(c, [Row(c) EXCEPT !.status = "FAILED", !.creditsDeducted = 0])
      \/ /\ CompleteRequest(c)
         /\ UpdateRow(c, [Row(c) EXCEPT !.status = "COMPLETED", !.delegatedSun = Sun])
  BY DEF Delegate, LookupKey, ReadBalance, DeductCredit, RefuseRequest, MarkProcessing,
     TransferEnergy, CompleteRequest, RefundCredit, FailRequest
<1>2. \A row : UpdateRow(c, row) => requests'[KeyOf[c]] = row
  BY <1>0 DEF UpdateRow
<1>3. CASE requests' = requests
  BY <1>3
<1>4. CASE \/ UpdateRow(c, [Row(c) EXCEPT !.status = "FAILED"])
           \/ UpdateRow(c, [Row(c) EXCEPT !.status = "PROCESSING", !.creditsDeducted = 1])
           \/ UpdateRow(c, [Row(c) EXCEPT !.status = "FAILED", !.creditsDeducted = 0])
  <2>1. \/ requests'[KeyOf[c]] = [Row(c) EXCEPT !.status = "FAILED"]
        \/ requests'[KeyOf[c]] = [Row(c) EXCEPT !.status = "PROCESSING", !.creditsDeducted = 1]
        \/ requests'[KeyOf[c]] = [Row(c) EXCEPT !.status = "FAILED", !.creditsDeducted = 0]
    BY <1>2, <1>4
  <2>2. /\ requests'[KeyOf[c]].wallet = Row(c).wallet
        /\ requests'[KeyOf[c]].reclaimed = Row(c).reclaimed
        /\ requests'[KeyOf[c]].status # "COMPLETED"
    BY <1>0, <2>1
  <2> QED
    BY <2>2 DEF Row
<1>5. CASE /\ CompleteRequest(c)
           /\ UpdateRow(c, [Row(c) EXCEPT !.status = "COMPLETED", !.delegatedSun = Sun])
  <2>1. requests'[KeyOf[c]] = [Row(c) EXCEPT !.status = "COMPLETED", !.delegatedSun = Sun]
    BY <1>2, <1>5
  <2>2. /\ requests'[KeyOf[c]].wallet = Row(c).wallet
        /\ requests'[KeyOf[c]].reclaimed = Row(c).reclaimed
    BY <1>0, <2>1
  <2> QED
    BY <1>5, <2>2 DEF Row
<1> QED
  BY <1>1, <1>3, <1>4, <1>5

\* The wallet of the row a call owns is the wallet it was asked for.
LEMMA OwnWalletKept ==
  ASSUME IInv, IInv', OwnWallet, NEW c \in Callers, Delegate(c)
  PROVE  OwnWallet'
<1>0. /\ KeyOf \in [Callers -> Keys] /\ requests \in [Keys -> RequestRow]
      /\ caller \in [Callers -> [pc : CallerPc, response : Response]]
      /\ requests[KeyOf[c]] \in [status : RequestStatus, wallet : Wallets \cup {"none"},
                      creditsDeducted : {0, 1}, delegatedSun : {0, Sun},
                      reclaimed : BOOLEAN]
  BY DEF IInv, TypeOK, RequestRow
<1>1. ASSUME NEW e \in Callers, Active(e)', e # c
      PROVE  requests'[KeyOf[e]].wallet = WalletOf[e]
  <2>1. Active(e)
    BY <1>1, OtherCalls DEF Active
  <2>2. CASE KeyOf[e] # KeyOf[c]
    BY <1>0, <2>1, <2>2, OwnKeyOnly DEF OwnWallet
  <2>3. CASE KeyOf[e] = KeyOf[c]
    <3>1. ~Active(c) /\ requests[KeyOf[c]].status # "NONE"
      BY <1>1, <2>1, <2>3 DEF IInv, OneOwner, CallInStep, Active, At
    <3>2. requests' = requests
      BY <3>1 DEF Active, Delegate, LookupKey, CreateRequest, ReadBalance,
         DeductCredit, RefuseRequest, MarkProcessing, TransferEnergy,
         CompleteRequest, RefundCredit, FailRequest, KeyTaken, Row
    <3> QED
      BY <2>1, <3>2 DEF OwnWallet
  <2> QED
    BY <2>2, <2>3
<1>2. ASSUME Active(c)' PROVE requests'[KeyOf[c]].wallet = WalletOf[c]
  <2>1. CASE CreateRequest(c)
    <3>1. UpdateRow(c, [NoRequest EXCEPT !.status = "PENDING", !.wallet = WalletOf[c]])
      BY <1>0, <1>2, <2>1 DEF CreateRequest, Active, Answer
    <3> QED
      BY <1>0, <3>1 DEF UpdateRow, NoRequest
  <2>2. CASE LookupKey(c)
    BY <1>0, <1>2, <2>2 DEF LookupKey, Active, Answer, Goto
  <2>3. CASE ~CreateRequest(c) /\ ~LookupKey(c)
    <3>1. Active(c)
      BY <2>3 DEF Active, Delegate, ReadBalance, DeductCredit, RefuseRequest,
         MarkProcessing, TransferEnergy, CompleteRequest, RefundCredit, FailRequest
    <3>2. requests'[KeyOf[c]].wallet = requests[KeyOf[c]].wallet
      BY <2>3, RowKept
    <3> QED
      BY <3>1, <3>2 DEF OwnWallet
  <2> QED
    BY <2>1, <2>2, <2>3
<1> QED
  BY <1>1, <1>2 DEF OwnWallet

\* A delegation that reaches TRON adds its request to those that hold energy.
LEMMA EnergyDelegated ==
  ASSUME IInv, IInv', EnergyInv, NEW c \in Callers, TransferEnergy(c),
         Goto(c, "complete"), NEW w \in Wallets,
         delegated' = [delegated EXCEPT ![WalletOf[c]] = @ + Sun]
  PROVE  Covered(w)'
<1> DEFINE k == KeyOf[c]
<1>0. /\ k \in Keys /\ Active(c) /\ WalletOf[c] \in Wallets
      /\ requests' = requests /\ reclaimer' = reclaimer
      /\ delegated \in [Wallets -> Nat]
      /\ caller \in [Callers -> [pc : CallerPc, response : Response]]
      /\ Delegate(c)
  BY DEF IInv, TypeOK, TransferEnergy, Active, Delegate
<1>1. requests[k].wallet = WalletOf[c]
  BY <1>0 DEF EnergyInv, OwnWallet
<1>2. \A j \in Keys : j # k => (Held(j)' <=> Held(j))
  BY <1>0, OtherKeys
<1>3. ~Held(k)
  BY <1>0, OwnCompleting DEF Held, IInv, CallInStep, At, TransferEnergy
<1>4. CASE w # WalletOf[c]
  <2>1. Holding(w)' = Holding(w)
    BY <1>0, <1>1, <1>2, <1>4 DEF Holding
  <2>2. delegated'[w] = delegated[w]
    BY <1>0, <1>4
  <2> QED
    BY <2>1, <2>2 DEF Covered, EnergyInv
<1>5. CASE w = WalletOf[c] /\ ~Held(k)'
  <2>1. Holding(w)' = Holding(w)
    BY <1>0, <1>2, <1>3, <1>5 DEF Holding
  <2>2. delegated'[w] = delegated[w] + Sun /\ delegated[w] \in Nat
    BY <1>0, <1>5
  <2>3. Covered(w)
    BY DEF EnergyInv
  <2>4. Cardinality(Holding(w)) \in Nat
    BY <2>3, FS_CardinalityType DEF Covered
  <2> QED
    BY <2>1, <2>2, <2>3, <2>4 DEF Covered, Sun
<1>6. CASE w = WalletOf[c] /\ Held(k)'
  <2>1. Holding(w)' = Holding(w) \cup {k} /\ k \notin Holding(w)
    BY <1>0, <1>1, <1>2, <1>3, <1>6 DEF Holding
  <2>2. delegated'[w] = delegated[w] + Sun /\ delegated[w] \in Nat
    BY <1>0, <1>6
  <2>3. Covered(w)
    BY DEF EnergyInv
  <2>4. Cardinality(Holding(w)) \in Nat
    BY <2>3, FS_CardinalityType DEF Covered
  <2>5. /\ IsFiniteSet(Holding(w) \cup {k})
        /\ Cardinality(Holding(w) \cup {k}) = Cardinality(Holding(w)) + 1
    BY <2>1, <2>3, FS_AddElement DEF Covered
  <2> QED
    BY <2>1, <2>2, <2>3, <2>4, <2>5 DEF Covered, Sun
<1> QED
  BY <1>4, <1>5, <1>6

\* The other steps of a call leave alone what its key holds.
LEMMA OwnHeld ==
  ASSUME IInv, IInv', ~DbFaults, NEW c \in Callers, Delegate(c),
         ~(TransferEnergy(c) /\ Goto(c, "complete"))
  PROVE  /\ delegated' = delegated
         /\ Held(KeyOf[c])' <=> Held(KeyOf[c])
         /\ Held(KeyOf[c]) => requests'[KeyOf[c]].wallet = requests[KeyOf[c]].wallet
<1> DEFINE k == KeyOf[c]
<1>0. /\ k \in Keys /\ reclaimer' = reclaimer
      /\ requests \in [Keys -> RequestRow]
      /\ caller \in [Callers -> [pc : CallerPc, response : Response]]
      /\ requests[k] \in [status : RequestStatus, wallet : Wallets \cup {"none"},
                      creditsDeducted : {0, 1}, delegatedSun : {0, Sun},
                      reclaimed : BOOLEAN]
  BY OtherCalls DEF IInv, TypeOK, RequestRow
<1>1. delegated' = delegated
  BY DEF Delegate, LookupKey, CreateRequest, ReadBalance, DeductCredit,
     RefuseRequest, MarkProcessing, TransferEnergy, CompleteRequest,
     RefundCredit, FailRequest
<1>2. CASE CompleteRequest(c)
  <2>1. UpdateRow(c, [Row(c) EXCEPT !.status = "COMPLETED", !.delegatedSun = Sun])
    BY <1>2 DEF CompleteRequest
  <2>2. /\ requests'[k].status = "COMPLETED"
        /\ requests'[k].wallet = requests[k].wallet
        /\ requests'[k].reclaimed = requests[k].reclaimed
    BY <1>0, <2>1 DEF UpdateRow, Row
  <2>3. Completing(k)
    BY <1>2 DEF Completing, CompleteRequest
  <2> QED
    BY <1>0, <1>1, <2>2, <2>3 DEF Held
<1>3. ASSUME ~CompleteRequest(c) PROVE Completing(k)' <=> Completing(k)
  <2>1. caller[c].pc # "complete"
    BY <1>3 DEF Delegate, LookupKey, CreateRequest, ReadBalance, DeductCredit,
       RefuseRequest, MarkProcessing, TransferEnergy, RefundCredit, FailRequest
  <2>2. caller'[c].pc # "complete"
    BY <1>0, <1>3 DEF Delegate, LookupKey, CreateRequest, ReadBalance, DeductCredit,
       RefuseRequest, MarkProcessing, TransferEnergy, RefundCredit, FailRequest,
       Goto, Answer
  <2> QED
    BY <2>1, <2>2, OtherCalls DEF Completing
<1>4. CASE CreateRequest(c)
  <2>1. CASE requests' = requests
    BY <1>0, <1>1, <1>3, <1>4, <2>1 DEF Held, CreateRequest, CompleteRequest
  <2>2. CASE ~KeyTaken(c) /\ UpdateRow(c, [NoRequest EXCEPT !.status = "PENDING",
                                                            !.wallet = WalletOf[c]])
    <3>1. requests[k].status = "NONE" /\ requests'[k].status = "PENDING"
      BY <1>0, <2>2 DEF KeyTaken, UpdateRow, NoRequest, Row
    <3>2. ~Completing(k)
      BY <1>4, <3>1, OwnCompleting DEF Row, CreateRequest
    <3>3. ~Completing(k)'
      BY <1>3, <1>4, <3>2 DEF CreateRequest, CompleteRequest
    <3> QED
      BY <1>1, <3>1, <3>2, <3>3 DEF Held
  <2> QED
    BY <1>4, <2>1, <2>2 DEF CreateRequest
<1>5. CASE RefuseRequest(c) \/ MarkProcessing(c) \/ FailRequest(c)
  <2>1. requests[k].status # "COMPLETED"
    BY <1>0, <1>5 DEF RefuseRequest, MarkProcessing, FailRequest, IInv, CallInStep, At
  <2>2. /\ requests'[k].status # "COMPLETED"
        /\ requests'[k].wallet = requests[k].wallet
        /\ requests'[k].reclaimed = requests[k].reclaimed
    <3>1. ~CreateRequest(c) /\ ~CompleteRequest(c)
      BY <1>5 DEF RefuseRequest, MarkProcessing, FailRequest, CreateRequest, CompleteRequest
    <3> QED
      BY <2>1, <3>1, RowKept
  <2>3. Completing(k)' <=> Completing(k)
    BY <1>3, <1>5 DEF RefuseRequest, MarkProcessing, FailRequest, CompleteRequest
  <2> QED
    BY <1>0, <1>1, <2>1, <2>2, <2>3 DEF Held
<1>6. CASE ~CompleteRequest(c) /\ requests' = requests
  BY <1>0, <1>1, <1>3, <1>6 DEF Held
<1> QED
  BY <1>2, <1>4, <1>5, <1>6 DEF Delegate, LookupKey, ReadBalance, DeductCredit,
     TransferEnergy, RefundCredit

\* A call only moves the energy of its own wallet.
LEMMA EnergyDelegate ==
  ASSUME IInv, IInv', ~DbFaults, EnergyInv, NEW c \in Callers, Delegate(c)
  PROVE  EnergyInv'
<1>1. OwnWallet'
  BY OwnWalletKept DEF EnergyInv
<1>2. RunInStep'
  <2>1. reclaimer' = reclaimer /\ \A k \in reclaimer.todo : k \in Keys
    BY OtherCalls DEF IInv, TypeOK, ReclaimerState
  <2>2. \A k \in reclaimer.todo : requests'[k] = requests[k]
    BY <2>1, CompletedStays DEF EnergyInv, RunInStep
  <2> QED
    BY <2>1, <2>2 DEF EnergyInv, RunInStep
<1>3. ASSUME NEW w \in Wallets PROVE Covered(w)'
  <2>1. CASE TransferEnergy(c) /\ Goto(c, "complete")
    <3>1. delegated' = [delegated EXCEPT ![WalletOf[c]] = @ + Sun]
      <4>1. caller'[c].pc = "complete"
        BY <2>1 DEF Goto, IInv, TypeOK
      <4>2. ~Goto(c, "refund")
        BY <4>1 DEF Goto, IInv, TypeOK
      <4> QED
        BY <2>1, <4>2 DEF TransferEnergy
    <3> QED
      BY <2>1, <3>1, EnergyDelegated
  <2>2. CASE ~(TransferEnergy(c) /\ Goto(c, "complete"))
    <3>1. \A k \in Keys : /\ Held(k)' <=> Held(k)
                          /\ Held(k) => requests'[k].wallet = requests[k].wallet
      BY <2>2, OtherKeys, OwnHeld
    <3>2. delegated' = delegated
      BY <2>2, OwnHeld
    <3> QED
      BY <3>1, <3>2, CoveredFrame DEF EnergyInv
  <2> QED
    BY <2>1, <2>2
<1> QED
  BY <1>1, <1>2, <1>3 DEF EnergyInv

\* What a step other than a call's does to OwnWallet and to Completing: nothing.
LEMMA CallsUntouched ==
  ASSUME IInv, caller' = caller,
         \A k \in Keys : requests'[k].wallet = requests[k].wallet
  PROVE  /\ OwnWallet => OwnWallet'
         /\ \A k \in Keys : Completing(k)' <=> Completing(k)
<1>1. OwnWallet => OwnWallet'
  BY DEF OwnWallet, Active
<1>2. \A k \in Keys : Completing(k)' <=> Completing(k)
  BY DEF Completing
<1> QED
  BY <1>1, <1>2

\* The run takes back at most what the request asked for, and the request
\* does not count any more.
LEMMA EnergyReclaimed ==
  ASSUME IInv, IInv', EnergyInv, reclaimer.pc = "reclaim",
         UNCHANGED <<requests, caller>>,
         NEW k \in reclaimer.todo,
         NEW part \in 0 .. requests[k].delegatedSun,
         delegated' = [delegated EXCEPT ![requests[k].wallet] = @ - part],
         reclaimer' = [pc |-> "mark", todo |-> reclaimer.todo \ {k}, key |-> k]
  PROVE  EnergyInv'
<1>0. /\ k \in Keys /\ delegated \in [Wallets -> Nat]
      /\ requests[k].delegatedSun \in {0, Sun}
      /\ requests[k].status = "COMPLETED" /\ ~requests[k].reclaimed
  BY DEF IInv, TypeOK, ReclaimerState, RequestRow, EnergyInv, RunInStep
<1>1. OwnWallet' /\ \A j \in Keys : Completing(j)' <=> Completing(j)
  BY CallsUntouched DEF EnergyInv
<1>2. RunInStep'
  BY DEF EnergyInv, RunInStep
<1>3. Held(k) /\ ~Held(k)' /\ \A j \in Keys : j # k => (Held(j)' <=> Held(j))
  BY <1>0, <1>1 DEF Held
<1>4. ASSUME NEW w \in Wallets PROVE Covered(w)'
  <2>1. Covered(w)
    BY DEF EnergyInv
  <2>2. CASE w # requests[k].wallet
    <3>1. Holding(w)' = Holding(w)
      BY <1>3, <2>2 DEF Holding
    <3>2. delegated'[w] = delegated[w]
      BY <1>0, <2>2
    <3> QED
      BY <2>1, <3>1, <3>2 DEF Covered
  <2>3. CASE w = requests[k].wallet
    <3>1. Holding(w)' = Holding(w) \ {k} /\ k \in Holding(w)
      BY <1>0, <1>3, <2>3 DEF Holding
    <3>2. /\ IsFiniteSet(Holding(w) \ {k})
          /\ Cardinality(Holding(w) \ {k}) = Cardinality(Holding(w)) - 1
      BY <2>1, <3>1, FS_RemoveElement DEF Covered
    <3>3. delegated'[w] = delegated[w] - part /\ delegated[w] \in Nat /\ part \in Nat /\ part <= Sun
      BY <1>0, <2>3 DEF Sun
    <3>4. Cardinality(Holding(w)) \in Nat
      BY <2>1, FS_CardinalityType DEF Covered
    <3> QED
      BY <2>1, <3>1, <3>2, <3>3, <3>4 DEF Covered, Sun
  <2> QED
    BY <2>2, <2>3
<1> QED
  BY <1>1, <1>2, <1>4 DEF EnergyInv

\* A reclaim run only gives back the energy of the request in its hands.
LEMMA EnergyReclaim ==
  ASSUME IInv, IInv', ~DbFaults, EnergyInv, Reclaim
  PROVE  EnergyInv'
<1>1. CASE StartReclaim \/ EndReclaim
  <2>1. /\ requests' = requests /\ caller' = caller /\ delegated' = delegated
        /\ reclaimer.pc # "mark" /\ reclaimer'.pc # "mark"
        /\ reclaimer'.todo \in {Reclaimable, {}}
    <3>1. reclaimer \in [pc : {"idle", "reclaim", "mark"}, todo : SUBSET Keys,
                         key : Keys \cup {"none"}]
      BY DEF IInv, TypeOK, ReclaimerState
    <3>2. CASE StartReclaim
      <4>1. reclaimer'.pc = "reclaim" /\ reclaimer'.todo = Reclaimable
        BY <3>1, <3>2, Zenon DEF StartReclaim
      <4> QED
        BY <3>2, <4>1 DEF StartReclaim
    <3>3. CASE EndReclaim
      BY <3>3 DEF EndReclaim, IdleReclaimer
    <3> QED
      BY <1>1, <3>2, <3>3
  <2>2. OwnWallet' /\ \A k \in Keys : Completing(k)' <=> Completing(k)
    BY <2>1, CallsUntouched DEF EnergyInv
  <2>3. RunInStep'
    BY <2>1 DEF RunInStep, Reclaimable
  <2>4. \A k \in Keys : Held(k)' <=> Held(k)
    BY <2>1, <2>2 DEF Held
  <2>5. \A w \in Wallets : Covered(w)'
    BY <2>1, <2>4, CoveredFrame DEF EnergyInv
  <2> QED
    BY <2>2, <2>3, <2>5 DEF EnergyInv
<1>2. CASE ReclaimEnergy
  <2>1. PICK k \in reclaimer.todo :
          \/ /\ \E part \in 0 .. requests[k].delegatedSun :
                  /\ part <= delegated[requests[k].wallet]
                  /\ delegated' = [delegated EXCEPT ![requests[k].wallet] = @ - part]
             /\ reclaimer' = [pc |-> "mark", todo |-> reclaimer.todo \ {k}, key |-> k]
          \/ /\ reclaimer' = [reclaimer EXCEPT !.todo = @ \ {k}]
             /\ UNCHANGED delegated
    BY <1>2 DEF ReclaimEnergy
  <2>2. reclaimer.pc = "reclaim" /\ UNCHANGED <<requests, caller>>
    BY <1>2 DEF ReclaimEnergy
  <2>3. CASE /\ \E part \in 0 .. requests[k].delegatedSun :
                  delegated' = [delegated EXCEPT ![requests[k].wallet] = @ - part]
             /\ reclaimer' = [pc |-> "mark", todo |-> reclaimer.todo \ {k}, key |-> k]
    BY <2>2, <2>3, EnergyReclaimed
  <2>4. CASE /\ reclaimer' = [reclaimer EXCEPT !.todo = @ \ {k}]
             /\ UNCHANGED delegated
    <3>1. reclaimer'.pc = reclaimer.pc /\ reclaimer'.todo = reclaimer.todo \ {k}
      BY <2>4 DEF IInv, TypeOK, ReclaimerState
    <3>2. OwnWallet' /\ \A j \in Keys : Completing(j)' <=> Completing(j)
      BY <2>2, CallsUntouched DEF EnergyInv
    <3>3. RunInStep'
      BY <2>2, <3>1 DEF RunInStep, EnergyInv
    <3>4. \A j \in Keys : Held(j)' <=> Held(j)
      BY <2>2, <3>1, <3>2 DEF Held
    <3>5. \A w \in Wallets : Covered(w)'
      BY <2>2, <2>4, <3>4, CoveredFrame DEF EnergyInv
    <3> QED
      BY <3>2, <3>3, <3>5 DEF EnergyInv
  <2> QED
    BY <2>1, <2>3, <2>4
<1>3. CASE MarkReclaimed
  <2>0. /\ requests \in [Keys -> RequestRow]
        /\ \A k \in Keys : requests[k] \in [status : RequestStatus,
               wallet : Wallets \cup {"none"}, creditsDeducted : {0, 1},
               delegatedSun : {0, Sun}, reclaimed : BOOLEAN]
        /\ reclaimer \in [pc : {"idle", "reclaim", "mark"}, todo : SUBSET Keys,
                          key : Keys \cup {"none"}]
    BY DEF IInv, TypeOK, ReclaimerState, RequestRow
  <2>1. /\ requests' = [requests EXCEPT ![reclaimer.key].reclaimed = TRUE]
        /\ reclaimer.pc = "mark" /\ reclaimer'.pc = "reclaim"
        /\ reclaimer'.todo = reclaimer.todo
        /\ caller' = caller /\ delegated' = delegated
    BY <1>3, <2>0 DEF MarkReclaimed
  <2>2. \A k \in Keys : k # reclaimer.key => requests'[k] = requests[k]
    BY <2>0, <2>1
  <2>3. reclaimer.key \in Keys =>
          /\ requests'[reclaimer.key].reclaimed
          /\ requests'[reclaimer.key].wallet = requests[reclaimer.key].wallet
    BY <2>0, <2>1
  <2>4. \A k \in Keys : requests'[k].wallet = requests[k].wallet
    BY <2>2, <2>3
  <2>5. OwnWallet' /\ \A k \in Keys : Completing(k)' <=> Completing(k)
    BY <2>1, <2>4, CallsUntouched DEF EnergyInv
  <2>6. RunInStep'
    <3>1. \A k \in reclaimer.todo : k \in Keys /\ k # reclaimer.key
      BY <2>0, <2>1 DEF EnergyInv, RunInStep
    <3> QED
      BY <2>1, <2>2, <3>1 DEF EnergyInv, RunInStep
  <2>7. \A k \in Keys : Held(k)' <=> Held(k)
    BY <2>1, <2>2, <2>3, <2>5 DEF Held
  <2>8. \A w \in Wallets : Covered(w)'
    BY <2>1, <2>4, <2>7, CoveredFrame DEF EnergyInv
  <2> QED
    BY <2>5, <2>6, <2>8 DEF EnergyInv
<1> QED
  BY <1>1, <1>2, <1>3 DEF Reclaim

\* Every step keeps the energy of the wallets covered.
LEMMA EnergyNext ==
  ASSUME IInv, IInv', ~DbFaults, Crashes = 0, EnergyInv, [Next]_vars
  PROVE  EnergyInv'
<1>1. ASSUME NEW c \in Callers, Delegate(c) PROVE EnergyInv'
  BY <1>1, EnergyDelegate
<1>2. CASE Reclaim
  BY <1>2, EnergyReclaim
<1>3. CASE TopUp \/ UNCHANGED vars
  <2>1. UNCHANGED <<requests, caller, delegated, reclaimer>>
    BY <1>3 DEF TopUp, vars
  <2>2. OwnWallet' /\ \A k \in Keys : Completing(k)' <=> Completing(k)
    BY <2>1, CallsUntouched DEF EnergyInv
  <2>3. RunInStep'
    BY <2>1 DEF EnergyInv, RunInStep
  <2>4. \A k \in Keys : Held(k)' <=> Held(k)
    BY <2>1, <2>2 DEF Held
  <2>5. \A w \in Wallets : Covered(w)'
    BY <2>1, <2>4, CoveredFrame DEF EnergyInv
  <2> QED
    BY <2>2, <2>3, <2>5 DEF EnergyInv
<1>4. ~Crash
  BY DEF Crash, IInv, TypeOK
<1> QED
  BY <1>1, <1>2, <1>3, <1>4 DEF Next

\* Where no statement fails and nothing restarts, a wallet keeps the energy of
\* every request whose turn to be reclaimed has not come, for any number of
\* requests for the same wallet: the run takes back what one request asked for.
THEOREM WalletsKeepEnergy == ~DbFaults /\ Crashes = 0 /\ Spec => []EnergyKept
<1> SUFFICES ASSUME ~DbFaults, Crashes = 0 PROVE Spec => []EnergyKept
  OBVIOUS
<1>1. IInv /\ IInv' /\ EnergyInv /\ [Next]_vars => EnergyInv'
  BY EnergyNext
<1>2. IInv /\ EnergyInv => EnergyKept
  <2> SUFFICES ASSUME IInv, EnergyInv, NEW w \in Wallets
               PROVE  delegated[w] >= Sun * Cardinality(Unreclaimed(w))
    BY DEF EnergyKept
  <2>1. IsFiniteSet(Holding(w)) /\ delegated[w] >= Sun * Cardinality(Holding(w))
    BY DEF EnergyInv, Covered
  <2>2. Unreclaimed(w) \in SUBSET Holding(w)
    BY DEF Unreclaimed, Reclaimable, Holding, Held
  <2>3. Cardinality(Unreclaimed(w)) <= Cardinality(Holding(w)) /\ IsFiniteSet(Unreclaimed(w))
    BY <2>1, <2>2, FS_Subset
  <2>4. Cardinality(Unreclaimed(w)) \in Nat /\ Cardinality(Holding(w)) \in Nat
    BY <2>1, <2>3, FS_CardinalityType
  <2>5. delegated[w] \in Nat
    BY DEF IInv, TypeOK
  <2> QED
    BY <2>1, <2>3, <2>4, <2>5 DEF Sun
<1> QED
  BY <1>1, <1>2, EnergyInit, Invariance, PTL DEF Spec
=============================================================================
