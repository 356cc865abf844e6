-------------------------- MODULE EnergyRatesProofs --------------------------
(***************************************************************************)
(* What holds of EnergyRates for every number of requests, readers, writes *)
(* and minutes.  A transaction only deactivates rows older than its own,   *)
(* so the newest row is active; what an entry may still be used for and    *)
(* how old its rate is never add up to more than the time allowed.         *)
(***************************************************************************)
EXTENDS EnergyRates, WellFoundedInduction, TLAPS

\* What a request carries at each statement, after n writes.
Shape(q, n) ==
  /\ q \in Request
  /\ q.pc \in {"locks", "commit"} => q.held \subseteq 1..n
  /\ q.pc = "commit" => q.row \in 1..n /\ \A i \in q.held : i < q.row
  /\ q.pc = "deactivate" => q.row \in 1..n

Shaped ==
  /\ TypeOK
  /\ Rows \subseteq 1..written
  /\ \A r \in Requests : Shape(req[r], written)

-----------------------------------------------------------------------------
(* The newest active row.                                                  *)

LEMMA Greatest ==
  ASSUME NEW N \in Nat, NEW S \in SUBSET (1..N), S # {}
  PROVE  \E i \in S : \A j \in S : j <= i
  <1> DEFINE R == OpToRel(<, Nat)
  <1> DEFINE T == {N - i : i \in S}
  <1>1. \A i \in S : i \in Nat /\ i <= N  OBVIOUS
  <1>2. T \subseteq Nat  BY <1>1
  <1>3. T # {}  OBVIOUS
  <1>4. IsWellFoundedOn(R, Nat)  BY NatLessThanWellFounded
  <1>5. PICK x \in T : \A y \in T : ~ (<<y, x>> \in R)  BY <1>2, <1>3, <1>4, WFMin
  <1>6. \A y \in T : ~ (y < x)  BY <1>2, <1>5 DEF OpToRel
  <1>7. PICK i \in S : x = N - i  OBVIOUS
  <1>8. ASSUME NEW j \in S PROVE j <= i
    <2>1. N - j \in T  OBVIOUS
    <2>2. ~ (N - j < N - i)  BY <1>6, <1>7, <2>1
    <2> QED  BY <1>1, <2>2
  <1> QED  BY <1>8

LEMMA NewestIsActive ==
  ASSUME TypeOK, active # {}
  PROVE  Newest \in active /\ \A j \in active : j <= Newest
  <1>1. active \in SUBSET (1..MaxWrites)  BY DEF TypeOK, Rows, Row
  <1>2. \E i \in active : \A j \in active : j <= i  BY <1>1, RatesAssumption, Greatest
  <1> QED  BY <1>2 DEF Newest

LEMMA CurrentIsRate == ASSUME TypeOK PROVE Current \in Rates
  <1>1. CASE active = {}  BY <1>1, RatesAssumption DEF Current, Fallback, Rates
  <1>2. CASE active # {}
    <2>1. Newest \in Row  BY <1>2, NewestIsActive DEF TypeOK, Rows
    <2> QED  BY <1>2, <2>1 DEF Current, TypeOK
  <1> QED  BY <1>1, <1>2

-----------------------------------------------------------------------------
(* Types.                                                                  *)

LEMMA ShapeGrows ==
  ASSUME NEW q, NEW n \in Nat, NEW m \in Nat, n <= m, Shape(q, n)
  PROVE  Shape(q, m)
  BY DEF Shape

LEMMA IdleShaped ==
  ASSUME NEW n \in Nat
  PROVE  Shape(Idle, n) /\ \A pc \in {"idle", "clear"} : Shape([Idle EXCEPT !.pc = pc], n)
  BY DEF Shape, Request, Idle, NoRow

LEMMA InitShaped == ASSUME Init PROVE Shaped
  <1> USE RatesAssumption
  <1>1. PICK seed \in 0..1 :
          /\ content = [i \in Row |-> IF i = seed THEN seed ELSE Fallback]
          /\ active = {i \in Row : i = seed}
          /\ written = seed
    BY DEF Init
  <1>2. content \in [Row -> Rates] /\ active \subseteq Rows /\ written \in 0..MaxWrites
        /\ Rows \subseteq 1..written
    BY <1>1 DEF Rows, Row, Rates, Fallback
  <1>3. req \in [Requests -> Request] /\ \A r \in Requests : Shape(req[r], written)
    BY <1>1, IdleShaped DEF Init, Shape
  <1>4. cache \in [rate : Rates, left : 0..TTL, age : Nat] /\ reader \in [Readers -> Reader]
    BY DEF Init, Empty, Ready, Reader, Rates, Fallback
  <1> QED  BY <1>2, <1>3, <1>4 DEF Init, Shaped, TypeOK

\* A request that begins, and a change of one request, keep every shape.
LEMMA BeginShaped ==
  ASSUME Shaped, NEW r \in Requests, NEW q, Shape(q, written), Begin(r, q)
  PROVE  /\ req' \in [Requests -> Request] /\ met' \in BOOLEAN
         /\ \A s \in Requests : Shape(req'[s], written)
  <1>1. ASSUME NEW p, Shape(p, written), NEW b \in BOOLEAN
        PROVE  Shape([p EXCEPT !.alone = b], written)
    BY <1>1 DEF Shape, Request
  <1>2. \A s \in Requests : Shape(req[s], written)  BY DEF Shaped
  <1>3. (Changing = {}) \in BOOLEAN  OBVIOUS
  <1>4. Shape([q EXCEPT !.alone = Changing = {}], written)  BY <1>1, <1>3
  <1>5. ASSUME NEW s \in Requests
        PROVE  Shape([req[s] EXCEPT !.alone = req[s].alone /\ s \notin Changing], written)
    <2>1. (req[s].alone /\ s \notin Changing) \in BOOLEAN  OBVIOUS
    <2> QED  BY <1>1, <1>2, <2>1
  <1>6. \A s \in Requests : Shape(req'[s], written)  BY <1>4, <1>5 DEF Begin
  <1>7. req' \in [Requests -> Request]  BY <1>6 DEF Begin, Shape
  <1>8. met' \in BOOLEAN  BY DEF Begin, Shaped, TypeOK
  <1> QED  BY <1>6, <1>7, <1>8

LEMMA MoveShaped ==
  ASSUME Shaped, NEW r \in Requests, NEW q, NEW n \in Nat, written <= n, Shape(q, n), Move(r, q)
  PROVE  /\ req' \in [Requests -> Request]
         /\ \A s \in Requests : Shape(req'[s], n)
  <1>1. \A s \in Requests : Shape(req[s], n)
    BY RatesAssumption, ShapeGrows DEF Shaped, TypeOK
  <1>2. \A s \in Requests : req'[s] = IF s = r THEN q ELSE req[s]
    BY DEF Move, Shaped, TypeOK
  <1> QED  BY <1>1, <1>2 DEF Move, Shape, Shaped, TypeOK

\* Rows whose contents are set to a write: none disappears.
LEMMA RowsAfterWrite ==
  ASSUME Shaped, NEW i \in Row, NEW x \in Row, content' = [content EXCEPT ![i] = x]
  PROVE  content' \in [Row -> Rates] /\ Rows' = Rows \cup {i}
  BY RatesAssumption DEF Shaped, TypeOK, Rows, Row, Rates, Fallback

LEMMA InForceType == ASSUME Shaped, InForce PROVE outdated' \subseteq Rates
  BY DEF InForce, Shaped, TypeOK

\* Every step keeps the rows, ...
LEMMA NextRows ==
  ASSUME Shaped, [Next]_vars
  PROVE  /\ content' \in [Row -> Rates] /\ active' \subseteq Rows' /\ written' \in 0..MaxWrites
         /\ Rows' \subseteq 1..written'
  <1> USE RatesAssumption
  <1> DEFINE Goal == /\ content' \in [Row -> Rates] /\ active' \subseteq Rows'
                     /\ written' \in 0..MaxWrites /\ Rows' \subseteq 1..written'
  <1>1. CASE UNCHANGED rows
    BY <1>1 DEF rows, Shaped, TypeOK, Rows
  <1>2. ASSUME NEW r \in Requests, CreateInsert(r) PROVE Goal
    BY <1>2 DEF CreateInsert, Shaped, TypeOK, Rows
  <1>3. ASSUME NEW r \in Requests, CreateCommit(r) PROVE Goal
    <2>1. Shape(req[r], written) /\ req[r].pc = "commit"  BY <1>3 DEF CreateCommit, Shaped
    <2>2. req[r].row \in 1..written  BY <2>1 DEF Shape
    <2>3. req[r].row \in Row  BY <2>2 DEF Row, Shaped, TypeOK
    <2>4. content' \in [Row -> Rates] /\ Rows' = Rows \cup {req[r].row}
      BY <1>3, <2>3, RowsAfterWrite DEF CreateCommit
    <2>5. active' \subseteq active \cup {req[r].row} /\ written' = written
      BY <1>3 DEF CreateCommit
    <2> QED  BY <2>2, <2>4, <2>5 DEF Shaped, TypeOK
  <1>4. ASSUME NEW r \in Requests, NEW i \in Row, UpdateRate(r, i) PROVE Goal
    <2>1. i \in Rows /\ written + 1 \in Row /\ written' = written + 1 /\ active' = active
      BY <1>4 DEF UpdateRate, Shaped, TypeOK, Row
    <2>2. content' \in [Row -> Rates] /\ Rows' = Rows \cup {i}
      BY <1>4, <2>1, RowsAfterWrite DEF UpdateRate
    <2> QED  BY <2>1, <2>2 DEF Shaped, TypeOK, Row
  <1>5. ASSUME NEW r \in Requests, AdminDeactivate(r) PROVE Goal
    BY <1>5 DEF AdminDeactivate, Shaped, TypeOK, Rows
  <1>6. ASSUME NEW r \in Requests, AdminAdd(r) PROVE Goal
    <2>1. written + 1 \in Row /\ written' = written + 1 /\ active' = active \cup {written + 1}
      BY <1>6 DEF AdminAdd, Shaped, TypeOK, Row
    <2>2. content' \in [Row -> Rates] /\ Rows' = Rows \cup {written + 1}
      BY <1>6, <2>1, RowsAfterWrite DEF AdminAdd
    <2> QED  BY <2>1, <2>2 DEF Shaped, TypeOK, Row
  <1> QED
    BY <1>1, <1>2, <1>3, <1>4, <1>5, <1>6
    DEF Next, vars, CreateStart, Clear, AdminLook, Fail, Refresh, Restart, Minute, Miss, Query,
        Store, QueryFails

\* ... what requests carry, ...
LEMMA NextRequests ==
  ASSUME Shaped, [Next]_vars
  PROVE  /\ req' \in [Requests -> Request] /\ met' \in BOOLEAN /\ halved' \in BOOLEAN
         /\ \A r \in Requests : Shape(req'[r], written')
  <1> USE RatesAssumption
  <1> DEFINE Goal == /\ req' \in [Requests -> Request] /\ met' \in BOOLEAN /\ halved' \in BOOLEAN
                     /\ \A r \in Requests : Shape(req'[r], written')
  <1>1. written \in Nat /\ written <= MaxWrites /\ met \in BOOLEAN /\ halved \in BOOLEAN
        /\ Rows \subseteq 1..written /\ active \subseteq Rows
    BY DEF Shaped, TypeOK
  <1>2. CASE UNCHANGED <<written, req, met, halved>>
    BY <1>2 DEF Shaped, TypeOK
  <1>3. ASSUME NEW r \in Requests, CreateStart(r) PROVE Goal
    <2> DEFINE q == [Idle EXCEPT !.pc = "locks", !.held = active]
    <2>1. active \subseteq 1..written /\ active \in SUBSET Row  BY <1>1 DEF Row, Rows
    <2>2. Shape(q, written)
      BY <2>1 DEF Shape, Request, Idle, NoRow
    <2>3. Begin(r, q) /\ written' = written /\ halved' = halved
      BY <1>3 DEF CreateStart, rows
    <2> HIDE DEF q
    <2> QED  BY <1>1, <2>2, <2>3, BeginShaped
  <1>4. ASSUME NEW r \in Requests, CreateInsert(r) PROVE Goal
    <2> DEFINE q == [req[r] EXCEPT !.pc = "commit", !.row = written + 1, !.held = @ \cap active]
    <2>1. written + 1 \in Nat /\ written' = written + 1 /\ written + 1 \in Row
      BY <1>1, <1>4 DEF CreateInsert, Row
    <2>2. req[r] \in Request /\ req[r].held \subseteq 1..written
      BY <1>4 DEF CreateInsert, Shaped, Shape
    <2>3. req[r].held \cap active \in SUBSET Row  BY <2>2 DEF Request
    <2>4. Shape(q, written + 1)
      <3>1. q \in Request  BY <2>1, <2>2, <2>3 DEF Request
      <3>2. q.held \subseteq req[r].held /\ q.row = written + 1 /\ q.pc = "commit"
        BY <2>2 DEF Request
      <3> HIDE DEF q
      <3> QED  BY <1>1, <2>2, <3>1, <3>2 DEF Shape
    <2>5. Move(r, q) /\ met' = met /\ halved' = halved  BY <1>4 DEF CreateInsert, history
    <2> HIDE DEF q
    <2> QED  BY <1>1, <2>1, <2>4, <2>5, MoveShaped
  <1>5. ASSUME NEW r \in Requests, NEW pc \in {"idle", "clear"}, Ends(r, pc),
               written' \in Nat, written <= written'
        PROVE  req' \in [Requests -> Request] /\ \A s \in Requests : Shape(req'[s], written')
    <2> DEFINE q == [Idle EXCEPT !.pc = pc]
    <2> DEFINE n == written'
    <2>1. Shape(q, n)  BY <1>5, IdleShaped
    <2>2. Move(r, q)  BY <1>5 DEF Ends
    <2>3. n \in Nat /\ written <= n  BY <1>5
    <2> HIDE DEF q, n
    <2>4. req' \in [Requests -> Request] /\ \A s \in Requests : Shape(req'[s], n)
      BY <2>1, <2>2, <2>3, MoveShaped
    <2> QED  BY <2>4 DEF n
  <1>6. ASSUME NEW r \in Requests, CreateCommit(r) PROVE Goal
    <2>1. Ends(r, "clear") /\ written' = written  BY <1>6 DEF CreateCommit, AfterWrite
    <2>2. met' \in BOOLEAN /\ halved' \in BOOLEAN  BY <1>1, <1>6 DEF CreateCommit
    <2> QED  BY <1>1, <1>5, <2>1, <2>2
  <1>7. ASSUME NEW r \in Requests, NEW i \in Row, UpdateRate(r, i) PROVE Goal
    <2>1. written' = written + 1 /\ met' = met /\ halved' = halved
          /\ (Ends(r, "clear") \/ Ends(r, "idle"))
      BY <1>7 DEF UpdateRate, AfterWrite
    <2> QED  BY <1>1, <1>5, <2>1
  <1>8. ASSUME NEW r \in Requests, Move(r, Idle), written' \in Nat, written <= written'
        PROVE  req' \in [Requests -> Request] /\ \A s \in Requests : Shape(req'[s], written')
    <2>1. Ends(r, "idle")  BY <1>8 DEF Ends, Idle, Move
    <2> QED  BY <1>5, <1>8, <2>1
  <1>9. ASSUME NEW r \in Requests, Clear(r) PROVE Goal
    <2>1. Move(r, Idle) /\ written' = written /\ met' = met /\ halved' = halved
      BY <1>9 DEF Clear, rows
    <2> QED  BY <1>1, <1>8, <2>1
  <1>10. ASSUME NEW r \in Requests, AdminLook(r) PROVE Goal
    <2>1. written' = written /\ halved' = halved  BY <1>10 DEF AdminLook, rows
    <2>2. CASE active = {}
      <3> DEFINE q == [Idle EXCEPT !.pc = "addFirst"]
      <3>1. Shape(q, written)  BY DEF Shape, Request, Idle, NoRow
      <3>2. Begin(r, q)  BY <1>10, <2>2 DEF AdminLook
      <3> HIDE DEF q
      <3> QED  BY <1>1, <2>1, <3>1, <3>2, BeginShaped
    <2>3. CASE active # {}
      <3> DEFINE q == [Idle EXCEPT !.pc = "deactivate", !.row = Newest]
      <3>1. Newest \in 1..written /\ Newest \in Row
        BY <1>1, <2>3, NewestIsActive DEF Shaped, Rows
      <3>2. Shape(q, written)  BY <3>1 DEF Shape, Request, Idle
      <3>3. Begin(r, q)  BY <1>10, <2>3 DEF AdminLook
      <3> HIDE DEF q
      <3> QED  BY <1>1, <2>1, <3>2, <3>3, BeginShaped
    <2> QED  BY <2>2, <2>3
  <1>11. ASSUME NEW r \in Requests, AdminDeactivate(r) PROVE Goal
    <2> DEFINE q == [req[r] EXCEPT !.pc = "add", !.row = NoRow]
    <2>1. req[r] \in Request  BY DEF Shaped, TypeOK
    <2>2. Shape(q, written)  BY <2>1 DEF Shape, Request
    <2>3. Move(r, q) /\ written' = written /\ met' = met /\ halved' = halved
      BY <1>11 DEF AdminDeactivate
    <2> HIDE DEF q
    <2> QED  BY <1>1, <2>2, <2>3, MoveShaped
  <1>12. ASSUME NEW r \in Requests, AdminAdd(r) PROVE Goal
    <2>1. Move(r, Idle) /\ written' = written + 1  BY <1>12 DEF AdminAdd
    <2>2. met' \in BOOLEAN /\ halved' \in BOOLEAN  BY <1>1, <1>12 DEF AdminAdd
    <2>3. written' \in Nat /\ written <= written'  BY <1>1, <2>1
    <2> QED  BY <1>8, <2>1, <2>2, <2>3
  <1>13. ASSUME NEW r \in Requests, Fail(r) PROVE Goal
    <2>1. Move(r, Idle) /\ written' = written /\ met' = met /\ halved' \in BOOLEAN
      BY <1>1, <1>13 DEF Fail, rows
    <2> QED  BY <1>1, <1>8, <2>1
  <1>14. CASE Restart
    <2>1. written' = written /\ met' = met /\ halved' \in BOOLEAN
      BY <1>1, <1>14 DEF Restart, rows
    <2>2. \A r \in Requests : Shape(req'[r], written)  BY <1>1, <1>14, IdleShaped DEF Restart
    <2>3. req' \in [Requests -> Request]  BY <1>14, <2>2 DEF Restart, Shape
    <2> QED  BY <1>1, <2>1, <2>2, <2>3
  <1>15. CASE Refresh \/ Minute \/ \E d \in Readers : Miss(d) \/ Query(d) \/ Store(d) \/ QueryFails(d)
    <2>1. UNCHANGED <<written, req, met, halved>>
      BY <1>15 DEF rows, history, Refresh, Minute, Miss, Query, Store, QueryFails
    <2> QED  BY <1>2, <2>1
  <1>16. CASE UNCHANGED vars  BY <1>2, <1>16 DEF vars, rows, history
  <1>17. ASSUME NEW r \in Requests,
                \/ CreateStart(r) \/ CreateInsert(r) \/ CreateCommit(r) \/ Clear(r)
                \/ \E i \in Row : UpdateRate(r, i)
                \/ AdminLook(r) \/ AdminDeactivate(r) \/ AdminAdd(r) \/ Fail(r)
         PROVE  Goal
    BY <1>3, <1>4, <1>6, <1>7, <1>9, <1>10, <1>11, <1>12, <1>13, <1>17
  <1>18. CASE Next
    <2>1. CASE \E r \in Requests :
                 \/ CreateStart(r) \/ CreateInsert(r) \/ CreateCommit(r) \/ Clear(r)
                 \/ \E i \in Row : UpdateRate(r, i)
                 \/ AdminLook(r) \/ AdminDeactivate(r) \/ AdminAdd(r) \/ Fail(r)
      BY <1>17, <2>1
    <2> QED  BY <1>14, <1>15, <1>18, <2>1 DEF Next
  <1> QED  BY <1>16, <1>18

\* ... and the cache and its readers.
LEMMA NextFront ==
  ASSUME Shaped, [Next]_vars
  PROVE  /\ service' \in Services /\ outdated' \subseteq Rates
         /\ cache' \in [rate : Rates, left : 0..TTL, age : Nat]
         /\ reader' \in [Readers -> Reader]
  <1> USE RatesAssumption
  <1>1. service' \in Services
    BY DEF Shaped, TypeOK, Next, vars, front, CreateStart, CreateInsert, CreateCommit, Clear,
           UpdateRate, AdminLook, AdminDeactivate, AdminAdd, Fail, Refresh, Restart, Minute, Miss,
           Query, Store, QueryFails
  <1>2. outdated' \subseteq Rates
    BY InForceType
    DEF Shaped, TypeOK, Next, vars, history, CreateStart, CreateInsert, CreateCommit, Clear,
        UpdateRate, AdminLook, AdminDeactivate, AdminAdd, Fail, Refresh, Restart, Minute, Miss,
        Query, Store, QueryFails, Forget
  <1>3. Empty \in [rate : Rates, left : 0..TTL, age : Nat] /\ Ready \in Reader
    BY DEF Empty, Ready, Reader, Rates, Fallback
  <1>4. \A x, n : n \in Nat => Older(x, n) \in Nat  BY DEF Older
  <1>5. cache' \in [rate : Rates, left : 0..TTL, age : Nat]
    <2>1. CASE cache' = cache \/ cache' = Empty  BY <1>3, <2>1 DEF Shaped, TypeOK
    <2>2. ASSUME NEW d \in Readers, Store(d)
          PROVE  cache' \in [rate : Rates, left : 0..TTL, age : Nat]
      BY <2>2 DEF Store, Shaped, TypeOK, Reader
    <2>3. CASE Minute
      <3>1. cache.rate \in Rates /\ cache.left \in 0..TTL /\ cache.age \in Nat
        BY DEF Shaped, TypeOK
      <3>2. Older(cache.rate, cache.age) \in Nat  BY <1>4, <3>1
      <3>3. CASE cache.left <= 1  BY <1>3, <2>3, <3>3 DEF Minute, Elapsed
      <3>4. CASE ~ (cache.left <= 1)
        <4>1. cache.left - 1 \in 0..TTL  BY <3>1, <3>4
        <4>2. cache' = [rate |-> cache.rate, left |-> cache.left - 1,
                        age |-> Older(cache.rate, cache.age)]
          BY <2>3, <3>4 DEF Minute, Elapsed
        <4> QED  BY <3>1, <3>2, <4>1, <4>2
      <3> QED  BY <3>3, <3>4
    <2> QED
      BY <2>1, <2>2, <2>3
      DEF Next, vars, front, CreateStart, CreateInsert, CreateCommit, Clear, UpdateRate, AdminLook,
          AdminDeactivate, AdminAdd, Fail, Refresh, Restart, Miss, Query, QueryFails
  <1>6. reader' \in [Readers -> Reader]
    <2>1. CASE reader' = reader  BY <2>1 DEF Shaped, TypeOK
    <2>2. CASE Restart  BY <1>3, <2>2 DEF Restart
    <2>3. ASSUME NEW d \in Readers, NEW x, x \in Reader, reader' = [reader EXCEPT ![d] = x]
          PROVE  reader' \in [Readers -> Reader]
      BY <2>3 DEF Shaped, TypeOK
    <2>4. ASSUME NEW d \in Readers, Miss(d) PROVE reader' \in [Readers -> Reader]
      BY <2>4 DEF Miss, Shaped, TypeOK, Reader
    <2>5. ASSUME NEW d \in Readers, Query(d) PROVE reader' \in [Readers -> Reader]
      BY <2>5, CurrentIsRate DEF Query, Shaped, TypeOK, Reader
    <2>6. ASSUME NEW d \in Readers, Store(d) \/ QueryFails(d) PROVE reader' \in [Readers -> Reader]
      BY <1>3, <2>3, <2>6 DEF Store, QueryFails
    <2>7. CASE Minute
      <3>1. ASSUME NEW d \in Readers PROVE reader'[d] \in Reader
        <4>1. reader[d] \in Reader  BY DEF Shaped, TypeOK
        <4>2. CASE reader[d].pc # "store"  BY <2>7, <4>1, <4>2 DEF Minute
        <4>3. CASE reader[d].pc = "store"
          <5>1. reader[d].waited + 1 \in 0..Delay
            <6>1. reader[d].waited < Delay  BY <2>7, <4>3 DEF Minute
            <6>2. reader[d].waited \in 0..Delay  BY <4>1 DEF Reader
            <6> QED  BY <6>1, <6>2
          <5>2. Older(reader[d].rate, reader[d].age) \in Nat  BY <1>4, <4>1 DEF Reader
          <5>3. reader'[d] = [reader[d] EXCEPT !.waited = @ + 1, !.age = Older(reader[d].rate, @)]
            BY <2>7, <4>3 DEF Minute
          <5> QED  BY <4>1, <5>1, <5>2, <5>3 DEF Reader
        <4> QED  BY <4>2, <4>3
      <3> QED  BY <2>7, <3>1 DEF Minute
    <2> QED
      BY <2>1, <2>2, <2>4, <2>5, <2>6, <2>7
      DEF Next, vars, front, CreateStart, CreateInsert, CreateCommit, Clear, UpdateRate, AdminLook,
          AdminDeactivate, AdminAdd, Fail, Refresh
  <1> QED  BY <1>1, <1>2, <1>5, <1>6

LEMMA NextShaped == ASSUME Shaped, [Next]_vars PROVE Shaped'
  BY NextRows, NextRequests, NextFront DEF Shaped, TypeOK

\* Every variable has its type, for every number of requests, readers and writes.
THEOREM TypeCorrect == Spec => []TypeOK
  <1>1. Shaped => TypeOK  BY DEF Shaped
  <1> QED  BY InitShaped, NextShaped, <1>1, PTL DEF Spec

-----------------------------------------------------------------------------
(* The age of what is answered.                                            *)

\* An entry that still lasts `left` minutes holds a rate that much younger than
\* the age allowed, and a reader's rate is no older than its query's answer.
Aging ==
  /\ Valid => cache.age + cache.left <= TTL + Delay
  /\ \A d \in Readers : reader[d].age <= reader[d].waited

LEMMA NextAging == ASSUME Shaped, Aging, [Next]_vars PROVE Aging'
  <1> USE RatesAssumption
  <1>1. /\ cache.left \in 0..TTL /\ cache.age \in Nat
        /\ \A d \in Readers : reader[d] \in Reader
    BY DEF Shaped, TypeOK
  <1>2. \A x, n : n \in Nat => Older(x, n) \in Nat /\ Older(x, n) <= n + 1  BY DEF Older
  <1>3. Empty.left = 0 /\ Ready.age = 0 /\ Ready.waited = 0  BY DEF Empty, Ready
  <1>4. Valid' => cache'.age + cache'.left <= TTL + Delay
    <2>1. CASE cache' = cache \/ cache' = Empty  BY <1>3, <2>1 DEF Aging, Valid
    <2>2. ASSUME NEW d \in Readers, Store(d)
          PROVE  cache'.age + cache'.left <= TTL + Delay
      <3>1. reader[d].age \in Nat /\ reader[d].age <= reader[d].waited
            /\ reader[d].waited \in 0..Delay
        BY <1>1 DEF Aging, Reader
      <3>2. cache' = [rate |-> reader[d].rate, left |-> TTL, age |-> reader[d].age]
        BY <2>2 DEF Store
      <3> QED  BY <3>1, <3>2
    <2>3. CASE Minute /\ cache' # Empty
      <3>1. cache' = Elapsed(cache)  BY <2>3 DEF Minute
      <3>2. ~ (cache.left <= 1)  BY <2>3, <3>1 DEF Elapsed
      <3>3. cache' = [rate |-> cache.rate, left |-> cache.left - 1,
                      age |-> Older(cache.rate, cache.age)]
        BY <3>1, <3>2 DEF Elapsed
      <3>4. Older(cache.rate, cache.age) <= cache.age + 1 /\ Older(cache.rate, cache.age) \in Nat
        BY <1>1, <1>2
      <3>5. cache.age + cache.left <= TTL + Delay  BY <1>1, <3>2 DEF Aging, Valid
      <3> QED  BY <1>1, <3>3, <3>4, <3>5
    <2> QED
      BY <2>1, <2>2, <2>3
      DEF Next, vars, front, CreateStart, CreateInsert, CreateCommit, Clear, UpdateRate, AdminLook,
          AdminDeactivate, AdminAdd, Fail, Refresh, Restart, Miss, Query, QueryFails
  <1>5. \A d \in Readers : reader'[d].age <= reader'[d].waited
    <2>1. CASE reader' = reader \/ Restart  BY <1>3, <2>1 DEF Aging, Restart
    <2>2. ASSUME NEW d \in Readers, Miss(d) \/ Query(d) \/ Store(d) \/ QueryFails(d)
          PROVE  \A e \in Readers : reader'[e].age <= reader'[e].waited
      <3>1. \A e \in Readers : \/ reader'[e] = Ready
                               \/ /\ reader'[e].age = reader[e].age
                                  /\ reader'[e].waited = reader[e].waited
        BY <1>1, <2>2 DEF Miss, Query, Store, QueryFails, Shaped, TypeOK, Reader
      <3> QED  BY <1>3, <3>1 DEF Aging
    <2>3. ASSUME Minute, NEW d \in Readers PROVE reader'[d].age <= reader'[d].waited
      <3>1. CASE reader[d].pc # "store"  BY <2>3, <3>1 DEF Minute, Aging
      <3>2. CASE reader[d].pc = "store"
        <4>1. reader'[d] = [reader[d] EXCEPT !.waited = @ + 1, !.age = Older(reader[d].rate, @)]
          BY <2>3, <3>2 DEF Minute
        <4>2. reader'[d].waited = reader[d].waited + 1
              /\ reader'[d].age = Older(reader[d].rate, reader[d].age)
          BY <1>1, <4>1 DEF Reader
        <4>3. reader[d].age \in Nat /\ reader[d].waited \in Nat  BY <1>1 DEF Reader
        <4>4. Older(reader[d].rate, reader[d].age) <= reader[d].age + 1
              /\ Older(reader[d].rate, reader[d].age) \in Nat
          BY <1>2, <4>3
        <4>5. reader[d].age <= reader[d].waited  BY DEF Aging
        <4> QED  BY <4>2, <4>3, <4>4, <4>5
      <3> QED  BY <3>1, <3>2
    <2> QED
      BY <2>1, <2>2, <2>3
      DEF Next, vars, front, CreateStart, CreateInsert, CreateCommit, Clear, UpdateRate, AdminLook,
          AdminDeactivate, AdminAdd, Fail, Refresh
  <1> QED  BY <1>4, <1>5 DEF Aging

\* What getCurrentRate answers was in force at most TTL minutes and the time of its
\* query ago, however readers and changes of the rates overlap.
THEOREM FreshAnswers == Spec => []AnswersFresh
  <1>1. Init => Aging  BY RatesAssumption DEF Init, Aging, Valid, Empty, Ready
  <1>2. Shaped /\ Aging => AnswersFresh
    <2> SUFFICES ASSUME Shaped, Aging PROVE AnswersFresh  OBVIOUS
    <2>1. /\ cache.left \in 0..TTL /\ cache.age \in Nat
          /\ \A d \in Readers : reader[d] \in Reader
      BY DEF Shaped, TypeOK
    <2>2. \A d \in Readers : reader[d].age <= Delay
      BY <2>1, RatesAssumption DEF Aging, Reader
    <2>3. Valid => cache.age <= TTL + Delay  BY <2>1, RatesAssumption DEF Aging, Valid
    <2> QED  BY <2>2, <2>3 DEF AnswersFresh
  <1> QED  BY InitShaped, NextShaped, NextAging, <1>1, <1>2, PTL DEF Spec

-----------------------------------------------------------------------------
(* What is not answered any more.                                          *)

\* No rate that a reader or an entry brings is one that was replaced before the
\* last clearCache.
Cleared ==
  /\ Current \notin outdated
  /\ Valid => cache.rate \notin outdated
  /\ \A d \in Readers : reader[d].pc = "store" => reader[d].rate \notin outdated

LEMMA NextCleared == ASSUME Shaped, Cleared, [Next]_vars PROVE Cleared'
  <1> USE RatesAssumption
  <1>1. Empty.left = 0 /\ Ready.pc = "ready"  BY DEF Empty, Ready
  <1>2. ASSUME InForce, UNCHANGED front PROVE Cleared'
    BY <1>2 DEF InForce, Cleared, front, Valid
  <1>3. ASSUME UNCHANGED <<rows, cache, outdated>> \/ (UNCHANGED <<rows, outdated>> /\ cache' = Empty)
        PROVE  Current' \notin outdated' /\ (Valid' => cache'.rate \notin outdated')
    <2>1. content' = content /\ active' = active /\ outdated' = outdated  BY <1>3 DEF rows
    <2>2. Current' = Current  BY <2>1 DEF Current, Newest
    <2>3. Valid' => Valid /\ cache' = cache  BY <1>1, <1>3 DEF Valid
    <2> QED  BY <2>1, <2>2, <2>3 DEF Cleared
  <1>4. ASSUME UNCHANGED <<content, active, outdated, cache, reader>> PROVE Cleared'
    BY <1>4 DEF Cleared, Valid, Current, Newest
  <1>5. ASSUME Forget, UNCHANGED <<rows, reader>>, cache' = Empty PROVE Cleared'
    BY <1>1, <1>5 DEF Cleared, Forget, rows, Valid, Current, Newest
  <1>6. ASSUME NEW r \in Requests, Clear(r) PROVE Cleared'
    <2>1. CASE service = "routes"  BY <1>5, <1>6, <2>1 DEF Clear, Clears
    <2>2. CASE service # "routes"
      BY <1>4, <1>6, <2>2 DEF Clear, Clears, rows
    <2> QED  BY <2>1, <2>2
  <1>7. CASE Refresh  BY <1>5, <1>7 DEF Refresh
  <1>8. CASE Restart  BY <1>1, <1>3, <1>8 DEF Restart, Cleared
  <1>9. ASSUME NEW d \in Readers, Miss(d) \/ Query(d) \/ QueryFails(d) PROVE Cleared'
    <2>1. \A e \in Readers : reader'[e].pc = "store" =>
            reader'[e].rate = Current \/ (reader[e].pc = "store" /\ reader'[e].rate = reader[e].rate)
      BY <1>1, <1>9 DEF Miss, Query, QueryFails, Shaped, TypeOK, Reader
    <2> QED  BY <1>3, <1>9, <2>1 DEF Miss, Query, QueryFails, history, Cleared
  <1>10. ASSUME NEW d \in Readers, Store(d) PROVE Cleared'
    <2>1. \A e \in Readers : reader'[e].pc = "store" =>
            reader[e].pc = "store" /\ reader'[e].rate = reader[e].rate
      BY <1>1, <1>10 DEF Store, Shaped, TypeOK
    <2>2. cache'.rate = reader[d].rate /\ reader[d].pc = "store" /\ UNCHANGED <<rows, outdated>>
      BY <1>10 DEF Store, history
    <2>3. Current' = Current  BY <2>2 DEF rows, Current, Newest
    <2> QED  BY <2>1, <2>2, <2>3 DEF Cleared
  <1>11. CASE Minute
    <2>1. \A e \in Readers : reader'[e].pc = reader[e].pc /\ reader'[e].rate = reader[e].rate
      BY <1>11 DEF Minute, Shaped, TypeOK, Reader
    <2>2. UNCHANGED <<rows, outdated>>  BY <1>11 DEF Minute, history
    <2>3. Current' = Current  BY <2>2 DEF rows, Current, Newest
    <2>4. cache' = Empty \/ (cache.left > 1 /\ cache'.rate = cache.rate)
      <3>1. cache' = Elapsed(cache) /\ cache.left \in 0..TTL
        BY <1>11 DEF Minute, Shaped, TypeOK
      <3>2. CASE cache.left <= 1  BY <3>1, <3>2 DEF Elapsed
      <3>3. CASE cache.left > 1
        <4>1. cache' = [rate |-> cache.rate, left |-> cache.left - 1,
                        age |-> Older(cache.rate, cache.age)]
          BY <3>1, <3>3 DEF Elapsed
        <4> QED  BY <3>3, <4>1
      <3> QED  BY <3>1, <3>2, <3>3
    <2>5. Valid' => Valid /\ cache'.rate = cache.rate
      BY <1>1, <2>4 DEF Valid, Shaped, TypeOK
    <2> QED  BY <2>1, <2>2, <2>3, <2>5 DEF Cleared
  <1>12. ASSUME NEW r \in Requests, CreateStart(r) \/ CreateInsert(r) \/ AdminLook(r) \/ Fail(r)
         PROVE  Cleared'
    BY <1>4, <1>12 DEF CreateStart, CreateInsert, AdminLook, Fail, rows, front, history
  <1>13. ASSUME NEW r \in Requests,
                CreateCommit(r) \/ (\E i \in Row : UpdateRate(r, i)) \/ AdminDeactivate(r) \/ AdminAdd(r)
         PROVE  Cleared'
    BY <1>2, <1>13 DEF CreateCommit, UpdateRate, AdminDeactivate, AdminAdd, front
  <1>14. CASE UNCHANGED vars  BY <1>4, <1>14 DEF vars, rows, front, history
  <1>15. CASE Next
    <2>1. ASSUME NEW r \in Requests,
                 \/ CreateStart(r) \/ CreateInsert(r) \/ CreateCommit(r) \/ Clear(r)
                 \/ \E i \in Row : UpdateRate(r, i)
                 \/ AdminLook(r) \/ AdminDeactivate(r) \/ AdminAdd(r) \/ Fail(r)
          PROVE  Cleared'
      BY <1>6, <1>12, <1>13, <2>1
    <2> QED  BY <1>7, <1>8, <1>9, <1>10, <1>11, <1>15, <2>1 DEF Next
  <1> QED  BY <1>14, <1>15

\* A service whose cache was cleared never answers a rate replaced before that,
\* unless a query had read it by then.
THEOREM ClearingHolds == Spec => []ClearTakesHold
  <1>1. Init => Cleared  BY DEF Init, Cleared
  <1>2. Cleared => ClearTakesHold  BY DEF Cleared, ClearTakesHold
  <1> QED  BY InitShaped, NextShaped, NextCleared, <1>1, <1>2, PTL DEF Spec

-----------------------------------------------------------------------------
(* The newest row.                                                         *)

LEMMA NextNewest == ASSUME Shaped, NewestInForce, [Next]_vars PROVE NewestInForce'
  <1> USE RatesAssumption
  <1>1. /\ req \in [Requests -> Request] /\ active \subseteq Rows /\ Rows \subseteq 1..written
        /\ written \in Nat /\ \A r \in Requests : Shape(req[r], written)
    BY DEF Shaped, TypeOK
  <1>2. ASSUME UNCHANGED <<content, active>>, halved' = halved, Halfway' = Halfway
        PROVE  NewestInForce'
    BY <1>2 DEF NewestInForce, Rows
  <1>3. ASSUME NEW r \in Requests, NEW q, Begin(r, q), q.pc # "add", q \in Request
        PROVE  Halfway' = Halfway
    <2>1. \A s \in Requests : req'[s].pc = "add" <=> req[s].pc = "add"
      BY <1>1, <1>3 DEF Begin, Request
    <2> QED  BY <2>1 DEF Halfway
  <1>4. ASSUME NEW r \in Requests, NEW q, Move(r, q), req[r].pc # "add", q.pc # "add"
        PROVE  Halfway' = Halfway
    BY <1>1, <1>4 DEF Move, Halfway
  <1>5. ASSUME NEW r \in Requests, CreateStart(r) PROVE NewestInForce'
    <2> DEFINE q == [Idle EXCEPT !.pc = "locks", !.held = active]
    <2>1. q \in Request /\ q.pc # "add"  BY <1>1 DEF Request, Idle, NoRow, Rows
    <2>2. Begin(r, q) /\ UNCHANGED <<content, active>> /\ halved' = halved
      BY <1>5 DEF CreateStart, rows
    <2> HIDE DEF q
    <2> QED  BY <1>2, <1>3, <2>1, <2>2
  <1>6. ASSUME NEW r \in Requests, CreateInsert(r) PROVE NewestInForce'
    <2> DEFINE q == [req[r] EXCEPT !.pc = "commit", !.row = written + 1, !.held = @ \cap active]
    <2>1. q.pc # "add" /\ req[r].pc # "add"  BY <1>1, <1>6 DEF CreateInsert, Request
    <2>2. Move(r, q) /\ UNCHANGED <<content, active>> /\ halved' = halved
      BY <1>6 DEF CreateInsert, history
    <2> HIDE DEF q
    <2> QED  BY <1>2, <1>4, <2>1, <2>2
  <1>7. ASSUME NEW r \in Requests, NEW pc \in {"idle", "clear"}, Ends(r, pc), req[r].pc # "add"
        PROVE  Halfway' = Halfway
    <2> DEFINE q == [Idle EXCEPT !.pc = pc]
    <2>1. q.pc # "add"  BY DEF Idle
    <2>2. Move(r, q)  BY <1>7 DEF Ends
    <2> HIDE DEF q
    <2> QED  BY <1>4, <1>7, <2>1, <2>2
  <1>8. ASSUME NEW r \in Requests, CreateCommit(r) PROVE NewestInForce'
    <2>1. req[r].row \in 1..written /\ \A i \in req[r].held : i < req[r].row
      BY <1>1, <1>8 DEF CreateCommit, Shape
    <2>2. Halfway' = Halfway  BY <1>7, <1>8 DEF CreateCommit, AfterWrite
    <2>3. Rows' = Rows \cup {req[r].row}
      <3>1. req[r].row \in Row  BY <2>1 DEF Row, Shaped, TypeOK
      <3> QED  BY <1>8, <3>1, RowsAfterWrite DEF CreateCommit
    <2>4. active' = (active \ req[r].held) \cup {req[r].row}
      BY <1>8 DEF CreateCommit, Deactivated
    <2>5. halved' = (halved /\ \E i \in Rows : i > req[r].row)  BY <1>8 DEF CreateCommit
    <2>6. ASSUME ~halved', Halfway' = {}, NEW i \in Rows', \A j \in Rows' : j <= i
          PROVE  i \in active'
      <3>1. CASE i = req[r].row  BY <2>4, <3>1
      <3>2. CASE i # req[r].row
        <4>1. i \in Rows /\ req[r].row <= i  BY <2>3, <2>6, <3>2
        <4>2. i > req[r].row
          <5>1. i \in Nat /\ req[r].row \in Nat  BY <1>1, <2>1, <4>1
          <5> QED  BY <3>2, <4>1, <5>1
        <4>3. ~halved  BY <2>5, <2>6, <4>1, <4>2
        <4>4. i \in active  BY <2>2, <2>3, <2>6, <4>1, <4>3 DEF NewestInForce
        <4>5. i \notin req[r].held  BY <1>1, <2>1, <4>1, <4>2
        <4> QED  BY <2>4, <4>4, <4>5
      <3> QED  BY <3>1, <3>2
    <2> QED  BY <2>6 DEF NewestInForce
  <1>9. ASSUME NEW r \in Requests, NEW i \in Row, UpdateRate(r, i) PROVE NewestInForce'
    <2>1. i \in Rows /\ written + 1 \in Row /\ active' = active /\ halved' = halved
      BY <1>1, <1>9 DEF UpdateRate, Row
    <2>2. Rows' = Rows
      <3>1. Rows' = Rows \cup {i}  BY <1>9, <2>1, RowsAfterWrite DEF UpdateRate
      <3> QED  BY <2>1, <3>1
    <2>3. Halfway' = Halfway  BY <1>7, <1>9 DEF UpdateRate, AfterWrite
    <2> QED  BY <2>1, <2>2, <2>3 DEF NewestInForce
  <1>10. ASSUME NEW r \in Requests, Move(r, Idle), req[r].pc # "add" PROVE Halfway' = Halfway
    <2>1. Idle.pc # "add"  BY DEF Idle
    <2> QED  BY <1>4, <1>10, <2>1
  <1>11. ASSUME NEW r \in Requests, Clear(r) PROVE NewestInForce'
    BY <1>2, <1>10, <1>11 DEF Clear, rows
  <1>12. ASSUME NEW r \in Requests, AdminLook(r) PROVE NewestInForce'
    <2>1. UNCHANGED <<content, active>> /\ halved' = halved  BY <1>12 DEF AdminLook, rows
    <2>2. CASE active = {}
      <3> DEFINE q == [Idle EXCEPT !.pc = "addFirst"]
      <3>1. q \in Request /\ q.pc # "add"  BY DEF Request, Idle, NoRow
      <3>2. Begin(r, q)  BY <1>12, <2>2 DEF AdminLook
      <3> HIDE DEF q
      <3> QED  BY <1>2, <1>3, <2>1, <3>1, <3>2
    <2>3. CASE active # {}
      <3> DEFINE q == [Idle EXCEPT !.pc = "deactivate", !.row = Newest]
      <3>1. Newest \in Row  BY <1>1, <2>3, NewestIsActive DEF Shaped, Rows
      <3>2. q \in Request /\ q.pc # "add"  BY <3>1 DEF Request, Idle
      <3>3. Begin(r, q)  BY <1>12, <2>3 DEF AdminLook
      <3> HIDE DEF q
      <3> QED  BY <1>2, <1>3, <2>1, <3>2, <3>3
    <2> QED  BY <2>2, <2>3
  <1>13. ASSUME NEW r \in Requests, AdminDeactivate(r) PROVE NewestInForce'
    <2>1. req'[r].pc = "add"  BY <1>1, <1>13 DEF AdminDeactivate, Move, Request
    <2>2. r \in Halfway'  BY <2>1 DEF Halfway
    <2> QED  BY <2>2 DEF NewestInForce
  <1>14. ASSUME NEW r \in Requests, AdminAdd(r) PROVE NewestInForce'
    <2>1. written + 1 \in Row /\ active' = active \cup {written + 1}
      BY <1>1, <1>14 DEF AdminAdd, Row
    <2>2. Rows' = Rows \cup {written + 1}
      BY <1>14, <2>1, RowsAfterWrite DEF AdminAdd
    <2>3. ASSUME NEW i \in Rows', \A j \in Rows' : j <= i PROVE i \in active'
      <3>1. written + 1 <= i  BY <2>2, <2>3
      <3>2. i = written + 1  BY <1>1, <2>2, <3>1
      <3> QED  BY <2>1, <3>2
    <2> QED  BY <2>3 DEF NewestInForce
  <1>15. ASSUME NEW r \in Requests, Fail(r) PROVE NewestInForce'
    <2>1. Move(r, Idle) /\ UNCHANGED <<content, active>> /\ halved' = (halved \/ r \in Halfway)
      BY <1>15 DEF Fail, rows
    <2>2. CASE r \in Halfway  BY <2>1, <2>2 DEF NewestInForce
    <2>3. CASE r \notin Halfway
      <3>1. halved' = halved  BY <2>1, <2>3 DEF Shaped, TypeOK
      <3> QED  BY <1>2, <1>10, <2>1, <2>3, <3>1 DEF Halfway
    <2> QED  BY <2>2, <2>3
  <1>16. CASE Restart
    <2>1. UNCHANGED <<content, active>> /\ halved' = (halved \/ Halfway # {})
      BY <1>16 DEF Restart, rows
    <2>2. Rows' = Rows  BY <2>1 DEF Rows
    <2>3. ~halved' => ~halved /\ Halfway = {}  BY <2>1
    <2> QED  BY <2>1, <2>2, <2>3 DEF NewestInForce
  <1>17. CASE Refresh \/ Minute \/ \E d \in Readers : Miss(d) \/ Query(d) \/ Store(d) \/ QueryFails(d)
    <2>1. UNCHANGED <<content, active, req>> /\ halved' = halved
      BY <1>17 DEF rows, history, Refresh, Minute, Miss, Query, Store, QueryFails
    <2> QED  BY <1>2, <2>1 DEF Halfway
  <1>18. CASE UNCHANGED vars  BY <1>2, <1>18 DEF vars, rows, history, Halfway
  <1>19. CASE Next
    <2>1. ASSUME NEW r \in Requests,
                 \/ CreateStart(r) \/ CreateInsert(r) \/ CreateCommit(r) \/ Clear(r)
                 \/ \E i \in Row : UpdateRate(r, i)
                 \/ AdminLook(r) \/ AdminDeactivate(r) \/ AdminAdd(r) \/ Fail(r)
          PROVE  NewestInForce'
      BY <1>5, <1>6, <1>8, <1>9, <1>11, <1>12, <1>13, <1>14, <1>15, <2>1
    <2> QED  BY <1>16, <1>17, <1>19, <2>1 DEF Next
  <1> QED  BY <1>18, <1>19

\* The row inserted last is the one in force, unless an admin update stopped, or
\* stands, between deactivating a row and inserting its own.
THEOREM NewestCounts == Spec => []NewestInForce
  <1>1. Init => NewestInForce  BY DEF Init, NewestInForce, Rows, Row, Fallback
  <1> QED  BY InitShaped, NextShaped, NextNewest, <1>1, PTL DEF Spec

-----------------------------------------------------------------------------
(* One active row.                                                         *)

\* A request that has met no other is the only one changing rows, and knows
\* which are active.
Knows(r) == req[r].pc \in {"locks", "commit"} => req[r].held = active

Lonely ==
  /\ \A r \in Changing : req[r].alone => Changing = {r} /\ Knows(r)
  /\ ~met =>
       /\ \A i, j \in active : i = j
       /\ \A r \in Changing : /\ req[r].alone
                              /\ req[r].pc = "deactivate" => req[r].row \in active
                              /\ req[r].pc \in {"add", "addFirst"} => active = {}

LEMMA BeginLonely ==
  ASSUME Shaped, Lonely, NEW r \in Requests, NEW q \in Request, Begin(r, q), active' = active,
         q.pc \in {"locks", "deactivate", "addFirst"},
         q.pc = "locks" => q.held = active,
         q.pc = "deactivate" => q.row \in active,
         q.pc = "addFirst" => active = {}
  PROVE  Lonely'
  <1>1. req \in [Requests -> Request] /\ req[r].pc = "idle"  BY DEF Shaped, TypeOK, Begin
  <1>2. /\ req'[r].pc = q.pc /\ req'[r].held = q.held /\ req'[r].row = q.row
        /\ req'[r].alone <=> Changing = {}
    BY DEF Begin, Request
  <1>3. \A s \in Requests \ {r} :
          /\ req'[s].pc = req[s].pc
          /\ s \in Changing => ~req'[s].alone
    BY <1>1 DEF Begin, Request
  <1>4. Changing' = Changing \cup {r}  BY <1>2, <1>3 DEF Changing
  <1>5. r \notin Changing  BY <1>1 DEF Changing
  <1>6. ASSUME NEW s \in Changing', req'[s].alone
        PROVE  s = r /\ Changing = {}
    <2>1. s = r  BY <1>3, <1>4, <1>6 DEF Changing
    <2> QED  BY <1>2, <1>6, <2>1
  <1>7. \A s \in Changing' : req'[s].alone => Changing' = {s} /\ Knows(s)'
    BY <1>2, <1>4, <1>6 DEF Knows
  <1>8. ASSUME ~met'
        PROVE  /\ \A i, j \in active' : i = j
               /\ \A s \in Changing' : /\ req'[s].alone
                                       /\ req'[s].pc = "deactivate" => req'[s].row \in active'
                                       /\ req'[s].pc \in {"add", "addFirst"} => active' = {}
    <2>1. ~met /\ Changing = {}  BY <1>8 DEF Begin
    <2>2. Changing' = {r}  BY <1>4, <2>1
    <2> QED  BY <1>2, <2>1, <2>2 DEF Lonely
  <1> QED  BY <1>7, <1>8 DEF Lonely

\* A request that ends, whatever it did to the rows while it was alone.
LEMMA EndLonely ==
  ASSUME Shaped, Lonely, NEW r \in Changing, NEW pc \in {"idle", "clear"}, Ends(r, pc),
         ~met' => (\A i, j \in active' : i = j) /\ req[r].alone
  PROVE  Lonely'
  <1>1. req \in [Requests -> Request] /\ r \in Requests  BY DEF Shaped, TypeOK, Changing
  <1>2. req'[r].pc = pc /\ \A s \in Requests \ {r} : req'[s] = req[s]
    BY <1>1 DEF Ends, Move, Idle
  <1>3. Changing' = Changing \ {r}  BY <1>1, <1>2 DEF Changing
  <1>4. \A s \in Changing' : ~req'[s].alone
    <2> SUFFICES ASSUME NEW s \in Changing', req'[s].alone PROVE FALSE  OBVIOUS
    <2>1. s \in Changing /\ s # r /\ req[s].alone  BY <1>2, <1>3 DEF Changing
    <2> QED  BY <2>1 DEF Lonely
  <1>5. ASSUME ~met' PROVE Changing' = {}
    BY <1>3, <1>5 DEF Lonely
  <1> QED  BY <1>4, <1>5 DEF Lonely

\* A request that goes on.
LEMMA MoveLonely ==
  ASSUME Shaped, Lonely, NEW r \in Changing, NEW q \in Request, Move(r, q), met' = met,
         q.pc \notin {"idle", "clear"}, q.alone = req[r].alone,
         req[r].alone /\ q.pc \in {"locks", "commit"} => q.held = active',
         ~met => (\A i, j \in active' : i = j),
         ~met /\ q.pc = "deactivate" => q.row \in active',
         ~met /\ q.pc \in {"add", "addFirst"} => active' = {}
  PROVE  Lonely'
  <1>1. req \in [Requests -> Request] /\ r \in Requests  BY DEF Shaped, TypeOK, Changing
  <1>2. req'[r] = q /\ \A s \in Requests \ {r} : req'[s] = req[s]
    BY <1>1 DEF Move
  <1>3. Changing' = Changing  BY <1>1, <1>2 DEF Changing
  <1>4. ASSUME NEW s \in Changing', req'[s].alone PROVE s = r /\ Changing' = {s} /\ Knows(s)'
    <2>1. s \in Changing /\ req[s].alone  BY <1>2, <1>3, <1>4 DEF Changing
    <2>2. Changing = {s}  BY <2>1 DEF Lonely
    <2>3. s = r  BY <2>2
    <2> QED  BY <1>2, <1>3, <2>1, <2>2, <2>3 DEF Knows
  <1>5. ASSUME ~met'
        PROVE  /\ \A i, j \in active' : i = j
               /\ \A s \in Changing' : /\ req'[s].alone
                                       /\ req'[s].pc = "deactivate" => req'[s].row \in active'
                                       /\ req'[s].pc \in {"add", "addFirst"} => active' = {}
    <2>1. ~met /\ req[r].alone  BY <1>5 DEF Lonely
    <2>2. Changing' = {r}  BY <1>3, <2>1 DEF Lonely
    <2>3. req'[r].alone  BY <1>2, <2>1
    <2> QED  BY <1>2, <2>1, <2>2, <2>3
  <1> QED  BY <1>4, <1>5 DEF Lonely

LEMMA NextLonely == ASSUME Shaped, Lonely, [Next]_vars PROVE Lonely'
  <1> USE RatesAssumption
  <1>1. /\ req \in [Requests -> Request] /\ active \subseteq Rows /\ active \in SUBSET Row
        /\ written \in 0..MaxWrites /\ met \in BOOLEAN
    BY DEF Shaped, TypeOK, Rows
  <1>2. CASE UNCHANGED <<active, req, met>>
    BY <1>2 DEF Lonely, Knows, Changing
  <1>3. ASSUME NEW r \in Requests, CreateStart(r) PROVE Lonely'
    <2> DEFINE q == [Idle EXCEPT !.pc = "locks", !.held = active]
    <2>1. q \in Request /\ q.pc = "locks" /\ q.held = active  BY <1>1 DEF Request, Idle, NoRow
    <2>2. Begin(r, q) /\ active' = active  BY <1>3 DEF CreateStart, rows
    <2> HIDE DEF q
    <2> QED  BY <2>1, <2>2, BeginLonely
  <1>4. ASSUME NEW r \in Requests, CreateInsert(r) PROVE Lonely'
    <2> DEFINE q == [req[r] EXCEPT !.pc = "commit", !.row = written + 1, !.held = @ \cap active]
    <2>1. r \in Changing /\ req[r] \in Request /\ req[r].pc = "locks" /\ written + 1 \in Row
          /\ active' = active /\ met' = met
      BY <1>1, <1>4 DEF CreateInsert, Changing, history, Row
    <2>2. req[r].held \cap active \in SUBSET Row  BY <1>1
    <2>3. q \in Request  BY <2>1, <2>2 DEF Request
    <2>4. q.pc = "commit" /\ q.held = req[r].held \cap active /\ q.alone = req[r].alone
      BY <2>1 DEF Request
    <2>5. req[r].alone => req[r].held = active  BY <2>1 DEF Lonely, Knows
    <2>6. Move(r, q)  BY <1>4 DEF CreateInsert
    <2>7. ~met => \A i, j \in active' : i = j  BY <2>1 DEF Lonely
    <2> HIDE DEF q
    <2> QED  BY <2>1, <2>3, <2>4, <2>5, <2>6, <2>7, MoveLonely
  <1>5. ASSUME NEW r \in Requests, CreateCommit(r) PROVE Lonely'
    <2>1. r \in Changing /\ Ends(r, "clear") /\ req[r].pc = "commit"
      BY <1>5 DEF CreateCommit, AfterWrite, Changing
    <2>2. ASSUME ~met' PROVE (\A i, j \in active' : i = j) /\ req[r].alone
      <3>1. req[r].alone
        <4>1. CASE met  BY <1>5, <2>2, <4>1 DEF CreateCommit
        <4>2. CASE ~met  BY <2>1, <4>2 DEF Lonely
        <4> QED  BY <4>1, <4>2
      <3>2. req[r].held = active  BY <2>1, <3>1 DEF Lonely, Knows
      <3>3. active' = {req[r].row}  BY <1>5, <3>2 DEF CreateCommit, Deactivated
      <3> QED  BY <3>1, <3>3
    <2> QED  BY <2>1, <2>2, EndLonely
  <1>6. ASSUME NEW r \in Requests, req[r].pc \in {"idle", "clear"}, UNCHANGED <<active, met>>,
               Ends(r, "idle") \/ Ends(r, "clear")
        PROVE  Lonely'
    <2>1. \A s \in Requests \ {r} : req'[s] = req[s]  BY <1>1, <1>6 DEF Ends, Move
    <2>2. req'[r].pc \in {"idle", "clear"}  BY <1>1, <1>6 DEF Ends, Move, Idle
    <2>3. Changing' = Changing /\ r \notin Changing  BY <1>6, <2>1, <2>2 DEF Changing
    <2>4. \A s \in Changing : req'[s] = req[s]  BY <2>1, <2>3 DEF Changing
    <2> QED  BY <1>6, <2>3, <2>4 DEF Lonely, Knows
  <1>7. ASSUME NEW r \in Requests, NEW i \in Row, UpdateRate(r, i) PROVE Lonely'
    <2>1. req[r].pc = "idle" /\ UNCHANGED <<active, met>> /\ (Ends(r, "idle") \/ Ends(r, "clear"))
      BY <1>7 DEF UpdateRate, AfterWrite
    <2> QED  BY <1>6, <2>1
  <1>8. ASSUME NEW r \in Requests, Move(r, Idle) PROVE Ends(r, "idle")
    BY <1>8 DEF Ends, Idle, Move
  <1>9. ASSUME NEW r \in Requests, Clear(r) PROVE Lonely'
    <2>1. req[r].pc = "clear" /\ UNCHANGED <<active, met>> /\ Move(r, Idle)
      BY <1>9 DEF Clear, rows
    <2> QED  BY <1>6, <1>8, <2>1
  <1>10. ASSUME NEW r \in Requests, AdminLook(r) PROVE Lonely'
    <2>1. active' = active  BY <1>10 DEF AdminLook, rows
    <2>2. CASE active = {}
      <3> DEFINE q == [Idle EXCEPT !.pc = "addFirst"]
      <3>1. q \in Request /\ q.pc = "addFirst"  BY DEF Request, Idle, NoRow
      <3>2. Begin(r, q)  BY <1>10, <2>2 DEF AdminLook
      <3> HIDE DEF q
      <3> QED  BY <2>1, <2>2, <3>1, <3>2, BeginLonely
    <2>3. CASE active # {}
      <3> DEFINE q == [Idle EXCEPT !.pc = "deactivate", !.row = Newest]
      <3>1. Newest \in Row /\ Newest \in active
        BY <1>1, <2>3, NewestIsActive DEF Shaped
      <3>2. q \in Request /\ q.pc = "deactivate" /\ q.row = Newest  BY <3>1 DEF Request, Idle
      <3>3. Begin(r, q)  BY <1>10, <2>3 DEF AdminLook
      <3> HIDE DEF q
      <3> QED  BY <2>1, <3>1, <3>2, <3>3, BeginLonely
    <2> QED  BY <2>2, <2>3
  <1>11. ASSUME NEW r \in Requests, AdminDeactivate(r) PROVE Lonely'
    <2> DEFINE q == [req[r] EXCEPT !.pc = "add", !.row = NoRow]
    <2>1. r \in Changing /\ req[r] \in Request /\ req[r].pc = "deactivate" /\ met' = met
          /\ active' = active \ {req[r].row}
      BY <1>1, <1>11 DEF AdminDeactivate, Changing
    <2>2. q \in Request  BY <2>1 DEF Request
    <2>3. q.pc = "add" /\ q.alone = req[r].alone  BY <2>1 DEF Request
    <2>4. ~met => active' = {}
      <3> SUFFICES ASSUME ~met PROVE active' = {}  OBVIOUS
      <3>1. req[r].row \in active /\ \A i, j \in active : i = j  BY <2>1 DEF Lonely
      <3> QED  BY <2>1, <3>1
    <2>5. Move(r, q)  BY <1>11 DEF AdminDeactivate
    <2> HIDE DEF q
    <2> QED  BY <2>1, <2>2, <2>3, <2>4, <2>5, MoveLonely
  <1>12. ASSUME NEW r \in Requests, AdminAdd(r) PROVE Lonely'
    <2>1. r \in Changing /\ Ends(r, "idle") /\ met' = met /\ active' = active \cup {written + 1}
      BY <1>8, <1>12 DEF AdminAdd, Changing
    <2>2. ASSUME ~met' PROVE (\A i, j \in active' : i = j) /\ req[r].alone
      <3>1. ~met /\ req[r].pc \in {"add", "addFirst"}  BY <1>12, <2>1, <2>2 DEF AdminAdd
      <3>2. active = {} /\ req[r].alone  BY <2>1, <3>1 DEF Lonely
      <3> QED  BY <2>1, <3>2
    <2> QED  BY <2>1, <2>2, EndLonely
  <1>13. ASSUME NEW r \in Requests, Fail(r) PROVE Lonely'
    <2>1. r \in Changing /\ Ends(r, "idle") /\ met' = met /\ active' = active
      BY <1>8, <1>13 DEF Fail, Changing, rows
    <2>2. ~met' => (\A i, j \in active' : i = j) /\ req[r].alone  BY <2>1 DEF Lonely
    <2> QED  BY <2>1, <2>2, EndLonely
  <1>14. CASE Restart
    <2>1. Changing' = {}  BY <1>14 DEF Restart, Changing, Idle
    <2>2. active' = active /\ met' = met  BY <1>14 DEF Restart, rows
    <2> QED  BY <2>1, <2>2 DEF Lonely
  <1>15. CASE Refresh \/ Minute \/ \E d \in Readers : Miss(d) \/ Query(d) \/ Store(d) \/ QueryFails(d)
    <2>1. UNCHANGED <<active, req, met>>
      BY <1>15 DEF rows, history, Refresh, Minute, Miss, Query, Store, QueryFails
    <2> QED  BY <1>2, <2>1
  <1>16. CASE UNCHANGED vars  BY <1>2, <1>16 DEF vars, rows, history
  <1>17. CASE Next
    <2>1. ASSUME NEW r \in Requests,
                 \/ CreateStart(r) \/ CreateInsert(r) \/ CreateCommit(r) \/ Clear(r)
                 \/ \E i \in Row : UpdateRate(r, i)
                 \/ AdminLook(r) \/ AdminDeactivate(r) \/ AdminAdd(r) \/ Fail(r)
          PROVE  Lonely'
      BY <1>3, <1>4, <1>5, <1>7, <1>9, <1>10, <1>11, <1>12, <1>13, <2>1
    <2> QED  BY <1>14, <1>15, <1>17, <2>1 DEF Next
  <1> QED  BY <1>16, <1>17

\* Two active rows come only from requests that met, and end with the next
\* createRate that meets none.
THEOREM OneActiveRate == Spec => []OneActive
  <1>1. Init => Lonely
    BY DEF Init, Lonely, Changing, Idle
  <1>2. Lonely => OneActive  BY DEF Lonely, OneActive
  <1> QED  BY InitShaped, NextShaped, NextLonely, <1>1, <1>2, PTL DEF Spec
=============================================================================
