------------------------- MODULE AddressBookProofs -------------------------
(***************************************************************************)
(* What holds of AddressBook for every number of rows, addresses and       *)
(* requests.  Both bounds count the requests that have passed their check  *)
(* and have not written yet; the two promises to a user whose requests     *)
(* come one by one follow what such a request knows at each statement.     *)
(***************************************************************************)
EXTENDS AddressBook, FiniteSetTheorems, TLAPS

\* What a request carries at each statement.
Shape(q) ==
  /\ q \in Request
  /\ q.pc \in {"count", "countFirst", "create"} => q.id = NoRow /\ q.removes = NoRow /\ q.address \in Addresses
  /\ q.pc = "unset" => q.primary /\ (q.id = NoRow => q.address \in Addresses)
  /\ q.pc = "set" => q.id \in Ids
  /\ q.pc \in {"countRest", "choose", "delete"} => q.removes \in Ids
  /\ q.pc \in {"unset", "set"} /\ q.removes # NoRow =>
       q.primary /\ q.id \in Ids /\ q.id # q.removes

Shaped == TypeOK /\ \A r \in Requests : Shape(req[r])

Live(r) == req[r].pc # "idle"

-----------------------------------------------------------------------------
(* Types.                                                                  *)

LEMMA InitShaped == ASSUME Init PROVE Shaped
  BY BookAssumption DEF Init, Shaped, Shape, TypeOK, Rows, Request, Idle

\* A request that begins, and a change of one request, keep every shape.
LEMMA BeginShaped ==
  ASSUME Shaped, NEW r \in Requests, NEW q, Shape(q), Begin(r, q)
  PROVE  /\ req' \in [Requests -> Request] /\ owed' \in BOOLEAN
         /\ \A s \in Requests : Shape(req'[s])
  <1>1. ASSUME NEW p, Shape(p), NEW b \in BOOLEAN PROVE Shape([p EXCEPT !.alone = b])
    BY <1>1 DEF Shape, Request
  <1>2. \A s \in Requests : Shape(req[s])  BY DEF Shaped
  <1>3. (UnderWay = {}) \in BOOLEAN  OBVIOUS
  <1>4. Shape([q EXCEPT !.alone = UnderWay = {}])  BY <1>1, <1>3
  <1>5. ASSUME NEW s \in Requests PROVE Shape([req[s] EXCEPT !.alone = FALSE])  BY <1>1, <1>2
  <1>6. \A s \in Requests : Shape(req'[s])  BY <1>2, <1>4, <1>5 DEF Begin
  <1>7. req' \in [Requests -> Request]  BY <1>6 DEF Begin, Shape
  <1>8. owed' \in BOOLEAN  BY DEF Begin, Shaped, TypeOK
  <1> QED  BY <1>6, <1>7, <1>8

LEMMA MoveShaped ==
  ASSUME Shaped, NEW r \in Requests, NEW q, Shape(q), Move(r, q)
  PROVE  /\ req' \in [Requests -> Request]
         /\ \A s \in Requests : Shape(req'[s])
  BY DEF Shaped, TypeOK, Move, Shape

LEMMA IdleShaped == Shape(Idle)
  BY BookAssumption DEF Shape, Request, Idle

LEMMA NextShaped == ASSUME Shaped, [Next]_vars PROVE Shaped'
  <1> USE BookAssumption
  <1>1. CASE UNCHANGED vars
    BY <1>1 DEF vars, Shaped, TypeOK, Rows
  <1>2. CASE Next
    <2>1. PICK r \in Requests :
            \/ \E a \in Addresses : \E wish \in {{}, {TRUE}, {FALSE}} : AddLook(r, a, wish)
            \/ \E i \in Ids : \/ SetPrimaryLook(r, i) \/ DeleteLook(r, i)
                              \/ \E p \in BOOLEAN : UpdateLook(r, i, p)
            \/ AddCount(r) \/ Create(r) \/ Unset(r) \/ Set(r)
            \/ DeleteCount(r) \/ Choose(r) \/ Delete(r) \/ Fail(r)
      BY <1>2 DEF Next
    <2>r. /\ Shape(req[r]) /\ req[r] \in Request /\ owed \in BOOLEAN
          /\ book \in [Ids -> Addresses \cup {NoAddress}] /\ primaries \subseteq Rows
      BY DEF Shaped, TypeOK, Shape
    <2>s. ASSUME req' \in [Requests -> Request], \A s \in Requests : Shape(req'[s]),
                 owed' \in BOOLEAN, book' \in [Ids -> Addresses \cup {NoAddress}],
                 primaries' \subseteq Rows'
          PROVE  Shaped'
      BY <2>s DEF Shaped, TypeOK, Shape
    <2>u. book' = book => Rows' = Rows  BY DEF Rows
    <2>2. ASSUME NEW a \in Addresses, NEW wish \in {{}, {TRUE}, {FALSE}}, AddLook(r, a, wish)
          PROVE  Shaped'
      <3> DEFINE q == [Idle EXCEPT !.pc = IF wish = {} THEN "countFirst" ELSE "count",
                                   !.address = a, !.primary = TRUE \in wish]
      <3>0. ASSUME NEW p \in BOOLEAN
            PROVE  Shape([Idle EXCEPT !.pc = IF wish = {} THEN "countFirst" ELSE "count",
                                      !.address = a, !.primary = p])
        BY DEF Shape, Request, Idle
      <3>b. (TRUE \in wish) \in BOOLEAN  OBVIOUS
      <3>1. Shape(q)  BY <3>0, <3>b
      <3>2. Begin(r, q)  BY <2>2 DEF AddLook
      <3> HIDE DEF q
      <3> QED  BY <3>1, <3>2, <2>2, <2>r, <2>s, <2>u, BeginShaped DEF AddLook
    <2>3. ASSUME NEW i \in Ids, SetPrimaryLook(r, i) PROVE Shaped'
      <3> DEFINE q == [Idle EXCEPT !.pc = "unset", !.id = i, !.primary = TRUE]
      <3>1. Shape(q)  BY DEF Shape, Request, Idle
      <3>2. Begin(r, q)  BY <2>3 DEF SetPrimaryLook
      <3> HIDE DEF q
      <3> QED  BY <3>1, <3>2, <2>3, <2>r, <2>s, <2>u, BeginShaped DEF SetPrimaryLook
    <2>4. ASSUME NEW i \in Ids, DeleteLook(r, i) PROVE Shaped'
      <3> DEFINE q == [Idle EXCEPT !.pc = "countRest", !.removes = i, !.primary = i \in primaries]
      <3>0. ASSUME NEW p \in BOOLEAN
            PROVE  Shape([Idle EXCEPT !.pc = "countRest", !.removes = i, !.primary = p])
        BY DEF Shape, Request, Idle
      <3>b. (i \in primaries) \in BOOLEAN  OBVIOUS
      <3>1. Shape(q)  BY <3>0, <3>b
      <3>2. Begin(r, q)  BY <2>4 DEF DeleteLook
      <3> HIDE DEF q
      <3> QED  BY <3>1, <3>2, <2>4, <2>r, <2>s, <2>u, BeginShaped DEF DeleteLook
    <2>5. ASSUME NEW i \in Ids, NEW p \in BOOLEAN, UpdateLook(r, i, p) PROVE Shaped'
      <3> DEFINE q == [Idle EXCEPT !.pc = IF p THEN "unset" ELSE "set", !.id = i, !.primary = p]
      <3>1. Shape(q)  BY DEF Shape, Request, Idle
      <3>2. Begin(r, q)  BY <2>5 DEF UpdateLook
      <3> HIDE DEF q
      <3> QED  BY <3>1, <3>2, <2>5, <2>r, <2>s, <2>u, BeginShaped DEF UpdateLook
    <2>6. CASE AddCount(r)
      <3> DEFINE q(p) == [req[r] EXCEPT !.pc = AfterCount(p), !.primary = p]
      <3>1. ASSUME NEW p \in BOOLEAN PROVE Shape(q(p))
        BY <2>6, <2>r DEF AddCount, AfterCount, Shape, Request
      <3>b. /\ (Cardinality(Rows) = 0) \in BOOLEAN
            /\ req[r].primary \in BOOLEAN
        BY <2>r DEF Request
      <3>2. \/ Move(r, Idle)
            \/ Move(r, q(Cardinality(Rows) = 0))
            \/ Move(r, q(req[r].primary))
        <4>1. CASE req[r].pc = "countFirst"  BY <2>6, <4>1 DEF AddCount
        <4>2. CASE req[r].pc # "countFirst"  BY <2>6, <4>2 DEF AddCount
        <4> QED  BY <4>1, <4>2
      <3> HIDE DEF q
      <3>3. PICK x : Shape(x) /\ Move(r, x)  BY <3>1, <3>b, <3>2, IdleShaped
      <3> QED  BY <3>3, <2>6, <2>r, <2>s, <2>u, MoveShaped DEF AddCount
    <2>7. CASE Create(r)
      <3>1. req[r].address \in Addresses  BY <2>7, <2>r DEF Create, Shape
      <3>2. book' \in [Ids -> Addresses \cup {NoAddress}]  BY <2>7, <2>r, <3>1 DEF Create, Unused
      <3>3. primaries' \subseteq Rows'
        BY <2>7, <2>r, <3>1 DEF Create, Unused, Rows
      <3>4. owed' \in BOOLEAN  BY <2>7, <2>r DEF Create, Request
      <3> QED  BY <3>2, <3>3, <3>4, <2>7, <2>s, MoveShaped, IdleShaped DEF Create
    <2>8. CASE Unset(r)
      <3> DEFINE q == [req[r] EXCEPT !.pc = IF req[r].id = NoRow THEN "create" ELSE "set"]
      <3>1. Shape(q)  BY <2>8, <2>r DEF Unset, Shape, Request
      <3>2. Move(r, q)  BY <2>8 DEF Unset, Goto
      <3>3. primaries' \subseteq Rows  BY <2>8, <2>r DEF Unset
      <3> HIDE DEF q
      <3> QED  BY <3>1, <3>2, <3>3, <2>8, <2>r, <2>s, <2>u, MoveShaped DEF Unset
    <2>9. CASE Set(r)
      <3> DEFINE q == [req[r] EXCEPT !.pc = "delete"]
      <3>1. req[r].removes # NoRow => Shape(q)  BY <2>9, <2>r DEF Set, Shape, Request
      <3>2. Move(r, Idle) \/ (req[r].removes # NoRow /\ Move(r, q))  BY <2>9 DEF Set, Goto
      <3>3. primaries' \subseteq Rows  BY <2>9, <2>r DEF Set, WithFlag
      <3>4. owed' \in BOOLEAN  BY <2>9, <2>r DEF Set, Request
      <3> HIDE DEF q
      <3> QED  BY <3>1, <3>2, <3>3, <3>4, <2>9, <2>r, <2>s, <2>u, MoveShaped, IdleShaped DEF Set
    <2>10. CASE DeleteCount(r)
      <3> DEFINE q == [req[r] EXCEPT !.pc = AfterRest(req[r].primary)]
      <3>1. Shape(q)  BY <2>10, <2>r DEF DeleteCount, AfterRest, Shape, Request
      <3>2. Move(r, Idle) \/ Move(r, q)  BY <2>10 DEF DeleteCount, Goto
      <3> HIDE DEF q
      <3> QED  BY <3>1, <3>2, <2>10, <2>r, <2>s, <2>u, MoveShaped, IdleShaped DEF DeleteCount
    <2>11. CASE Choose(r)
      <3>1. CASE \E i \in Rows \ {req[r].removes} :
                   Move(r, [req[r] EXCEPT !.pc = "unset", !.id = i, !.primary = TRUE])
        <4>1. PICK i \in Rows \ {req[r].removes} :
                     Move(r, [req[r] EXCEPT !.pc = "unset", !.id = i, !.primary = TRUE])
          BY <3>1
        <4> DEFINE q == [req[r] EXCEPT !.pc = "unset", !.id = i, !.primary = TRUE]
        <4>2. i \in Ids /\ i # NoRow  BY DEF Rows
        <4>3. Shape(q)  BY <2>11, <2>r, <4>2 DEF Choose, Shape, Request
        <4>4. Move(r, q)  BY <4>1
        <4> HIDE DEF q
        <4> QED  BY <4>3, <4>4, <2>11, <2>r, <2>s, <2>u, MoveShaped DEF Choose
      <3>2. CASE Move(r, [req[r] EXCEPT !.pc = "delete"])
        <4> DEFINE q == [req[r] EXCEPT !.pc = "delete"]
        <4>1. Shape(q)  BY <2>11, <2>r DEF Choose, Shape, Request
        <4>2. Move(r, q)  BY <3>2
        <4> HIDE DEF q
        <4> QED  BY <4>1, <4>2, <2>11, <2>r, <2>s, <2>u, MoveShaped DEF Choose
      <3> QED  BY <3>1, <3>2, <2>11 DEF Choose, Goto
    <2>12. CASE Delete(r)
      <3>1. book' \in [Ids -> Addresses \cup {NoAddress}]  BY <2>12, <2>r DEF Delete
      <3>2. primaries' \subseteq Rows'  BY <2>12, <2>r DEF Delete, Rows
      <3> QED  BY <3>1, <3>2, <2>12, <2>r, <2>s, MoveShaped, IdleShaped DEF Delete
    <2>13. CASE Fail(r)
      BY <2>13, <2>r, <2>s, <2>u, MoveShaped, IdleShaped DEF Fail
    <2> QED  BY <2>1, <2>2, <2>3, <2>4, <2>5, <2>6, <2>7, <2>8, <2>9, <2>10, <2>11, <2>12, <2>13
  <1> QED  BY <1>1, <1>2

\* Every row of the book and every request is well formed, whatever meets and
\* fails (tron-address.service.ts): a primary id is a row, and a request carries
\* what its next statement needs.
THEOREM TypeCorrect == Spec => []TypeOK
  <1>1. Init => Shaped  BY InitShaped
  <1>2. Shaped /\ [Next]_vars => Shaped'  BY NextShaped
  <1>3. Shaped => TypeOK  BY DEF Shaped
  <1> QED  BY <1>1, <1>2, <1>3, PTL DEF Spec

-----------------------------------------------------------------------------
(* The number of primary addresses.                                        *)

Marking(q) == q.pc \in {"create", "set"} /\ q.primary
Pending    == {r \in Requests : Marking(req[r])}
Reserved   == {req[r].id : r \in Pending}
Loose      == primaries \ Reserved

PrimaryBudget == Cardinality(Loose) + Cardinality(Pending) <= Cardinality(Requests)

\* No step takes more than one request out of Pending, and only for one flag.
Spends(r) ==
  /\ r \in Pending
  /\ Pending' = Pending \ {r}
  /\ \E j : Loose' \subseteq Loose \cup {j}

LEMMA Finite ==
  ASSUME Shaped
  PROVE  /\ IsFiniteSet(Pending) /\ IsFiniteSet(Loose)
         /\ IsFiniteSet(primaries) /\ IsFiniteSet(Rows)
  <1>1. Rows \in SUBSET Ids /\ primaries \in SUBSET Ids /\ Loose \in SUBSET Ids
    BY DEF Shaped, TypeOK, Rows, Loose
  <1>2. Pending \in SUBSET Requests  BY DEF Pending
  <1> QED  BY <1>1, <1>2, FS_Subset, BookAssumption

\* A request that begins marks nothing.
LEMMA BeginMarksNothing ==
  ASSUME Shaped, NEW r \in Requests, NEW q, Shape(q), ~Marking(q), Begin(r, q)
  PROVE  Pending' = Pending /\ Reserved' = Reserved
  <1>1. ASSUME NEW p, Shape(p), NEW b \in BOOLEAN
        PROVE  Marking([p EXCEPT !.alone = b]) = Marking(p) /\ [p EXCEPT !.alone = b].id = p.id
    BY <1>1 DEF Marking, Shape, Request
  <1>2. \A s \in Requests : Shape(req[s])  BY DEF Shaped
  <1>3. (UnderWay = {}) \in BOOLEAN  OBVIOUS
  <1>4. ~Marking(req[r])  BY DEF Begin, Marking
  <1>5. ~Marking(req'[r])  BY <1>1, <1>3 DEF Begin
  <1>6. ASSUME NEW s \in Requests, s # r
        PROVE  Marking(req'[s]) = Marking(req[s]) /\ req'[s].id = req[s].id
    BY <1>1, <1>2, <1>6 DEF Begin
  <1>7. Pending' = {s \in Requests : Marking(req'[s])}  BY DEF Pending, Marking
  <1>8. Pending' = Pending  BY <1>4, <1>5, <1>6, <1>7 DEF Pending
  <1>9. \A s \in Pending : req'[s].id = req[s].id  BY <1>4, <1>6 DEF Pending
  <1> QED  BY <1>8, <1>9 DEF Reserved

\* A request that moves to a statement that marks nothing.
LEMMA MoveMarksNothing ==
  ASSUME Shaped, NEW r \in Requests, NEW q, ~Marking(q), Move(r, q),
         NEW j, primaries' \subseteq primaries \cup {j}, r \in Pending \/ primaries' \subseteq primaries,
         j = req[r].id \/ req[r].id \notin primaries
  PROVE  (Pending' = Pending /\ Loose' \subseteq Loose) \/ Spends(r)
  <1>1. req' = [req EXCEPT ![r] = q] /\ req' = [s \in Requests |-> req'[s]]
    BY DEF Move, Shaped, TypeOK
  <1>2. Pending' = {s \in Requests : Marking(req'[s])}  BY DEF Pending, Marking
  <1>3. Pending' = Pending \ {r}  BY <1>1, <1>2 DEF Pending, Shaped, TypeOK
  <1>4. \A s \in Pending : s # r => req'[s].id = req[s].id
    BY <1>1 DEF Pending, Shaped, TypeOK
  <1>5. Reserved \ {req[r].id} \subseteq Reserved'  BY <1>3, <1>4 DEF Reserved
  <1>6. CASE r \in Pending
    <2>1. Loose' \subseteq Loose \cup {j}  BY <1>5 DEF Loose
    <2> QED  BY <2>1, <1>3, <1>6 DEF Spends
  <1>7. CASE r \notin Pending
    <2>1. Pending' = Pending  BY <1>3, <1>7
    <2>2. Reserved' = Reserved  BY <2>1, <1>4, <1>7 DEF Reserved
    <2> QED  BY <2>1, <2>2, <1>7 DEF Loose
  <1> QED  BY <1>6, <1>7

LEMMA NextMarks ==
  ASSUME Shaped, [Next]_vars
  PROVE  \/ Pending' = Pending /\ Loose' \subseteq Loose
         \/ \E r \in Requests : Spends(r)
         \/ Loose' = {}
  <1> USE BookAssumption
  <1>1. CASE UNCHANGED vars
    BY <1>1 DEF vars, Pending, Marking, Loose, Reserved
  <1>2. CASE Next
    <2>1. PICK r \in Requests :
            \/ \E a \in Addresses : \E wish \in {{}, {TRUE}, {FALSE}} : AddLook(r, a, wish)
            \/ \E i \in Ids : \/ SetPrimaryLook(r, i) \/ DeleteLook(r, i)
                              \/ \E p \in BOOLEAN : UpdateLook(r, i, p)
            \/ AddCount(r) \/ Create(r) \/ Unset(r) \/ Set(r)
            \/ DeleteCount(r) \/ Choose(r) \/ Delete(r) \/ Fail(r)
      BY <1>2 DEF Next
    <2>r. Shape(req[r]) /\ req[r] \in Request /\ primaries \subseteq Rows
      BY DEF Shaped, TypeOK, Shape
    <2>i. ~Marking(Idle)  BY DEF Marking, Idle
    <2>2. ASSUME NEW q, Shape(q), ~Marking(q), Begin(r, q), UNCHANGED primaries
          PROVE  Pending' = Pending /\ Loose' \subseteq Loose
      BY <2>2, BeginMarksNothing DEF Loose
    <2>3. ASSUME NEW q, ~Marking(q), Move(r, q), primaries' \subseteq primaries
          PROVE  (Pending' = Pending /\ Loose' \subseteq Loose) \/ Spends(r)
      <3> DEFINE j == req[r].id
      <3> HIDE DEF j
      <3> QED  BY <2>3, MoveMarksNothing DEF j
    <2>4. ASSUME NEW a \in Addresses, NEW wish \in {{}, {TRUE}, {FALSE}}, AddLook(r, a, wish)
          PROVE  Pending' = Pending /\ Loose' \subseteq Loose
      <3> DEFINE q == [Idle EXCEPT !.pc = IF wish = {} THEN "countFirst" ELSE "count",
                                   !.address = a, !.primary = TRUE \in wish]
      <3>0. ASSUME NEW p \in BOOLEAN
            PROVE  Shape([Idle EXCEPT !.pc = IF wish = {} THEN "countFirst" ELSE "count",
                                      !.address = a, !.primary = p])
        BY DEF Shape, Request, Idle
      <3>b. (TRUE \in wish) \in BOOLEAN  OBVIOUS
      <3>1. Shape(q)  BY <3>0, <3>b
      <3>2. ~Marking(q)  BY DEF Marking, Idle
      <3>3. Begin(r, q) /\ UNCHANGED primaries  BY <2>4 DEF AddLook
      <3> HIDE DEF q
      <3> QED  BY <3>1, <3>2, <3>3, <2>2
    <2>5. ASSUME NEW i \in Ids, SetPrimaryLook(r, i)
          PROVE  Pending' = Pending /\ Loose' \subseteq Loose
      <3> DEFINE q == [Idle EXCEPT !.pc = "unset", !.id = i, !.primary = TRUE]
      <3>1. Shape(q) /\ ~Marking(q)  BY DEF Shape, Request, Idle, Marking
      <3>2. Begin(r, q) /\ UNCHANGED primaries  BY <2>5 DEF SetPrimaryLook
      <3> HIDE DEF q
      <3> QED  BY <3>1, <3>2, <2>2
    <2>6. ASSUME NEW i \in Ids, DeleteLook(r, i)
          PROVE  Pending' = Pending /\ Loose' \subseteq Loose
      <3> DEFINE q == [Idle EXCEPT !.pc = "countRest", !.removes = i, !.primary = i \in primaries]
      <3>0. ASSUME NEW p \in BOOLEAN
            PROVE  Shape([Idle EXCEPT !.pc = "countRest", !.removes = i, !.primary = p])
        BY DEF Shape, Request, Idle
      <3>b. (i \in primaries) \in BOOLEAN  OBVIOUS
      <3>1. Shape(q)  BY <3>0, <3>b
      <3>2. ~Marking(q)  BY DEF Marking, Idle
      <3>3. Begin(r, q) /\ UNCHANGED primaries  BY <2>6 DEF DeleteLook
      <3> HIDE DEF q
      <3> QED  BY <3>1, <3>2, <3>3, <2>2
    <2>7. ASSUME NEW i \in Ids, NEW p \in BOOLEAN, UpdateLook(r, i, p)
          PROVE  Pending' = Pending /\ Loose' \subseteq Loose
      <3> DEFINE q == [Idle EXCEPT !.pc = IF p THEN "unset" ELSE "set", !.id = i, !.primary = p]
      <3>1. Shape(q) /\ ~Marking(q)  BY DEF Shape, Request, Idle, Marking
      <3>2. Begin(r, q) /\ UNCHANGED primaries  BY <2>7 DEF UpdateLook
      <3> HIDE DEF q
      <3> QED  BY <3>1, <3>2, <2>2
    <2>8. CASE AddCount(r)
      <3> DEFINE q(p) == [req[r] EXCEPT !.pc = AfterCount(p), !.primary = p]
      <3>1. ASSUME NEW p \in BOOLEAN PROVE ~Marking(q(p))
        BY <2>r DEF AfterCount, Marking, Request
      <3>b. /\ (Cardinality(Rows) = 0) \in BOOLEAN
            /\ req[r].primary \in BOOLEAN
        BY <2>r DEF Request
      <3>2. \/ Move(r, Idle)
            \/ Move(r, q(Cardinality(Rows) = 0))
            \/ Move(r, q(req[r].primary))
        <4>1. CASE req[r].pc = "countFirst"  BY <2>8, <4>1 DEF AddCount
        <4>2. CASE req[r].pc # "countFirst"  BY <2>8, <4>2 DEF AddCount
        <4> QED  BY <4>1, <4>2
      <3> HIDE DEF q
      <3>3. PICK x : ~Marking(x) /\ Move(r, x)  BY <3>1, <3>b, <3>2, <2>i
      <3> QED  BY <3>3, <2>8, <2>3 DEF AddCount
    <2>9. CASE Create(r)
      <3>1. CASE primaries' \subseteq primaries  BY <3>1, <2>9, <2>3, <2>i DEF Create
      <3>2. CASE ~(primaries' \subseteq primaries)
        <4>1. PICK i \in Unused : primaries' = primaries \cup {i} /\ req[r].primary
          BY <3>2, <2>9 DEF Create
        <4>2. r \in Pending  BY <4>1, <2>9 DEF Create, Pending, Marking
        <4>3. req[r].id \notin primaries  BY <2>9, <2>r DEF Create, Shape, Rows
        <4>4. Move(r, Idle)  BY <2>9 DEF Create
        <4> QED  BY <4>1, <4>2, <4>3, <4>4, <2>i, MoveMarksNothing
      <3> QED  BY <3>1, <3>2
    <2>10. CASE Unset(r)
      <3> DEFINE q == [req[r] EXCEPT !.pc = IF req[r].id = NoRow THEN "create" ELSE "set"]
      <3>1. Marking(q) /\ q.id = req[r].id  BY <2>10, <2>r DEF Unset, Shape, Request, Marking
      <3>2. Move(r, q)  BY <2>10 DEF Unset, Goto
      <3>3. primaries' = primaries \cap {req[r].id}  BY <2>10 DEF Unset
      <3> HIDE DEF q
      <3>4. req'[r] = q  BY <3>2 DEF Move, Shaped, TypeOK
      <3>5. r \in Pending'  BY <3>1, <3>4 DEF Pending, Marking
      <3>6. req[r].id \in Reserved'  BY <3>1, <3>4, <3>5 DEF Reserved
      <3> QED  BY <3>3, <3>6 DEF Loose
    <2>11. CASE Set(r)
      <3> DEFINE q == [req[r] EXCEPT !.pc = "delete"]
      <3>1. ~Marking(q)  BY <2>r DEF Request, Marking
      <3>2. Move(r, Idle) \/ Move(r, q)  BY <2>11 DEF Set, Goto
      <3> HIDE DEF q
      <3>3. PICK x : ~Marking(x) /\ Move(r, x)  BY <3>1, <3>2, <2>i
      <3>4. CASE req[r].primary
        <4>1. r \in Pending  BY <3>4, <2>11 DEF Set, Pending, Marking
        <4>2. primaries' \subseteq primaries \cup {req[r].id}  BY <2>11 DEF Set, WithFlag
        <4> DEFINE j == req[r].id
        <4>3. primaries' \subseteq primaries \cup {j} /\ j = req[r].id  BY <4>2
        <4> HIDE DEF j
        <4> QED  BY <4>1, <4>3, <3>3, MoveMarksNothing
      <3>5. CASE ~req[r].primary
        <4>1. primaries' \subseteq primaries  BY <3>5, <2>11 DEF Set, WithFlag
        <4> QED  BY <4>1, <3>3, <2>3
      <3> QED  BY <3>4, <3>5
    <2>12. CASE DeleteCount(r)
      <3> DEFINE q == [req[r] EXCEPT !.pc = AfterRest(req[r].primary)]
      <3>1. ~Marking(q)  BY <2>r DEF AfterRest, Request, Marking
      <3>2. Move(r, Idle) \/ Move(r, q)  BY <2>12 DEF DeleteCount, Goto
      <3> HIDE DEF q
      <3> QED  BY <3>1, <3>2, <2>12, <2>i, <2>3 DEF DeleteCount
    <2>13. CASE Choose(r)
      <3>1. ASSUME NEW i PROVE ~Marking([req[r] EXCEPT !.pc = "unset", !.id = i, !.primary = TRUE])
        BY <2>r DEF Request, Marking
      <3>2. ~Marking([req[r] EXCEPT !.pc = "delete"])  BY <2>r DEF Request, Marking
      <3>3. \/ \E i : Move(r, [req[r] EXCEPT !.pc = "unset", !.id = i, !.primary = TRUE])
            \/ Move(r, [req[r] EXCEPT !.pc = "delete"])
        BY <2>13 DEF Choose, Goto
      <3>4. PICK x : ~Marking(x) /\ Move(r, x)  BY <3>1, <3>2, <3>3
      <3> QED  BY <3>4, <2>13, <2>3 DEF Choose
    <2>14. CASE Delete(r)  BY <2>14, <2>i, <2>3 DEF Delete
    <2>15. CASE Fail(r)  BY <2>15, <2>i, <2>3 DEF Fail
    <2> QED
      BY <2>1, <2>4, <2>5, <2>6, <2>7, <2>8, <2>9, <2>10, <2>11, <2>12, <2>13, <2>14, <2>15
  <1> QED  BY <1>1, <1>2

LEMMA BudgetKept ==
  ASSUME Shaped, Shaped', PrimaryBudget, [Next]_vars
  PROVE  PrimaryBudget'
  <1>0. IsFiniteSet(Requests)  BY BookAssumption
  <1>1. /\ IsFiniteSet(Loose) /\ IsFiniteSet(Pending)
        /\ IsFiniteSet(Loose') /\ IsFiniteSet(Pending')
        /\ Cardinality(Requests) \in Nat
        /\ Cardinality(Loose) \in Nat /\ Cardinality(Pending) \in Nat
        /\ Cardinality(Loose') \in Nat /\ Cardinality(Pending') \in Nat
    <2>1. /\ IsFiniteSet(Loose) /\ IsFiniteSet(Pending)
      BY Finite
    <2>2. Loose' \in SUBSET Ids /\ Pending' \in SUBSET Requests
      BY DEF Shaped, TypeOK, Rows, Loose, Pending
    <2>3. IsFiniteSet(Loose') /\ IsFiniteSet(Pending')
      BY <2>2, FS_Subset, BookAssumption
    <2> QED  BY <2>1, <2>3, <1>0, FS_CardinalityType
  <1>2. CASE Pending' = Pending /\ Loose' \subseteq Loose
    <2>1. Cardinality(Loose') <= Cardinality(Loose)  BY <1>1, <1>2, FS_Subset
    <2> QED  BY <2>1, <1>1, <1>2 DEF PrimaryBudget
  <1>3. ASSUME NEW r \in Requests, Spends(r) PROVE PrimaryBudget'
    <2>1. PICK j : Loose' \subseteq Loose \cup {j}  BY <1>3 DEF Spends
    <2>2. Cardinality(Loose \cup {j}) <= Cardinality(Loose) + 1 /\ IsFiniteSet(Loose \cup {j})
      <3>1. /\ IsFiniteSet(Loose \cup {j})
            /\ Cardinality(Loose \cup {j}) =
                 IF j \in Loose THEN Cardinality(Loose) ELSE Cardinality(Loose) + 1
        BY <1>1, FS_AddElement
      <3>2. Cardinality(Loose) \in Nat  BY <1>1
      <3> QED  BY <3>1, <3>2
    <2>3. Cardinality(Loose') <= Cardinality(Loose \cup {j})  BY <2>1, <2>2, FS_Subset
    <2>4. Cardinality(Pending') = Cardinality(Pending) - 1
      BY <1>1, <1>3, FS_RemoveElement DEF Spends
    <2>5. Cardinality(Loose \cup {j}) \in Nat  BY <2>2, FS_CardinalityType
    <2> QED  BY <2>2, <2>3, <2>4, <2>5, <1>1 DEF PrimaryBudget
  <1>4. CASE Loose' = {}
    <2>1. Cardinality(Loose') = 0  BY <1>4, FS_EmptySet
    <2>2. Pending' \in SUBSET Requests  BY DEF Pending
    <2>3. Cardinality(Pending') <= Cardinality(Requests)  BY <2>2, <1>0, FS_Subset
    <2> QED  BY <2>1, <2>3, <1>1 DEF PrimaryBudget
  <1> QED  BY <1>2, <1>3, <1>4, NextMarks

\* The flags that are set and no request is about to set again are matched by
\* the requests that have none pending.
LEMMA BudgetBounds == ASSUME Shaped, PrimaryBudget PROVE PrimariesBounded
  <1>1. primaries \subseteq Loose \cup Reserved  BY DEF Loose
  <1>2. IsFiniteSet(Pending) /\ IsFiniteSet(Loose) /\ IsFiniteSet(primaries)  BY Finite
  <1>3. IsFiniteSet(Reserved) /\ Cardinality(Reserved) <= Cardinality(Pending)
    <2> DEFINE f == [r \in Pending |-> req[r].id]
    <2>1. f \in Surjection(Pending, Reserved)  BY DEF Surjection, Reserved
    <2> HIDE DEF f
    <2> QED  BY <2>1, <1>2, FS_Surjection
  <1>4. /\ IsFiniteSet(Loose \cup Reserved)
        /\ Cardinality(Loose \cup Reserved) =
             Cardinality(Loose) + Cardinality(Reserved) - Cardinality(Loose \cap Reserved)
    BY <1>2, <1>3, FS_Union
  <1>5. Loose \cap Reserved = {}  BY DEF Loose
  <1>6. Cardinality(Loose \cap Reserved) = 0  BY <1>5, FS_EmptySet
  <1>7. Cardinality(primaries) <= Cardinality(Loose \cup Reserved)  BY <1>1, <1>4, FS_Subset
  <1>8. /\ Cardinality(Loose) \in Nat /\ Cardinality(Reserved) \in Nat
        /\ Cardinality(Pending) \in Nat /\ Cardinality(primaries) \in Nat
        /\ Cardinality(Requests) \in Nat
    BY <1>2, <1>3, BookAssumption, FS_CardinalityType
  <1> QED  BY <1>3, <1>4, <1>6, <1>7, <1>8 DEF PrimaryBudget, PrimariesBounded

LEMMA InitBudget == ASSUME Init PROVE PrimaryBudget
  <1>1. Loose = {} /\ Pending = {}  BY DEF Init, Loose, Pending, Marking, Idle
  <1>2. Cardinality(Requests) \in Nat  BY BookAssumption, FS_CardinalityType
  <1> QED  BY <1>1, <1>2, FS_EmptySet DEF PrimaryBudget

\* However the requests of a user meet (tron-address.repository.ts clears and
\* sets the flag in two statements), they leave no more primary addresses than
\* could be under way together; requests that come one by one leave at most one.
THEOREM PrimaryAddresses == Spec => []PrimariesBounded
  <1>1. Init => Shaped /\ PrimaryBudget  BY InitShaped, InitBudget
  <1>2. Shaped /\ PrimaryBudget /\ [Next]_vars => Shaped' /\ PrimaryBudget'
    BY NextShaped, BudgetKept
  <1>3. Shaped /\ PrimaryBudget => PrimariesBounded  BY BudgetBounds
  <1> QED  BY <1>1, <1>2, <1>3, PTL DEF Spec

-----------------------------------------------------------------------------
(* The number of addresses.                                                *)

\* Requests that have counted and have not inserted.
Adding(q) == q.pc \in {"unset", "create"} /\ q.id = NoRow
Adders    == {r \in Requests : Adding(req[r])}

RowBudget == Cardinality(Rows) + Cardinality(Adders) < Limit + Cardinality(Requests)

Inserts(r) ==
  /\ r \in Adders
  /\ Adders' = Adders \ {r}
  /\ \E i : Rows' = Rows \cup {i}

LEMMA BeginAddsNothing ==
  ASSUME Shaped, NEW r \in Requests, NEW q, Shape(q), ~Adding(q), Begin(r, q)
  PROVE  Adders' \subseteq Adders
  <1>1. ASSUME NEW p, Shape(p), NEW b \in BOOLEAN
        PROVE  Adding([p EXCEPT !.alone = b]) = Adding(p)
    BY <1>1 DEF Adding, Shape, Request
  <1>2. \A s \in Requests : Shape(req[s])  BY DEF Shaped
  <1>3. (UnderWay = {}) \in BOOLEAN  OBVIOUS
  <1>4. ~Adding(req'[r])  BY <1>1, <1>3 DEF Begin
  <1>5. ASSUME NEW s \in Requests, s # r PROVE Adding(req'[s]) = Adding(req[s])
    BY <1>1, <1>2, <1>5 DEF Begin
  <1>6. Adders' = {s \in Requests : Adding(req'[s])}  BY DEF Adders, Adding
  <1> QED  BY <1>4, <1>5, <1>6 DEF Adders

LEMMA MoveAddsNothing ==
  ASSUME Shaped, NEW r \in Requests, NEW q, Move(r, q)
  PROVE  /\ Adding(q) => Adders' = Adders \cup {r}
         /\ ~Adding(q) => Adders' = Adders \ {r}
  <1>1. req' = [req EXCEPT ![r] = q] /\ req = [s \in Requests |-> req[s]]
    BY DEF Move, Shaped, TypeOK
  <1>2. Adders' = {s \in Requests : Adding(req'[s])}  BY DEF Adders, Adding
  <1> QED  BY <1>1, <1>2 DEF Adders

LEMMA NextAdds ==
  ASSUME Shaped, [Next]_vars
  PROVE  \/ Adders' \subseteq Adders /\ Rows' \subseteq Rows
         \/ \E r \in Requests : Inserts(r)
         \/ Rows' = Rows /\ Cardinality(Rows) < Limit
  <1> USE BookAssumption
  <1>u. book' = book => Rows' = Rows  BY DEF Rows
  <1>1. CASE UNCHANGED vars
    <2>1. Adders' = Adders  BY <1>1 DEF vars, Adders, Adding
    <2> QED  BY <2>1, <1>1, <1>u DEF vars
  <1>2. CASE Next
    <2>1. PICK r \in Requests :
            \/ \E a \in Addresses : \E wish \in {{}, {TRUE}, {FALSE}} : AddLook(r, a, wish)
            \/ \E i \in Ids : \/ SetPrimaryLook(r, i) \/ DeleteLook(r, i)
                              \/ \E p \in BOOLEAN : UpdateLook(r, i, p)
            \/ AddCount(r) \/ Create(r) \/ Unset(r) \/ Set(r)
            \/ DeleteCount(r) \/ Choose(r) \/ Delete(r) \/ Fail(r)
      BY <1>2 DEF Next
    <2>r. Shape(req[r]) /\ req[r] \in Request /\ primaries \subseteq Rows
      BY DEF Shaped, TypeOK, Shape
    <2>i. ~Adding(Idle)  BY DEF Adding, Idle
    <2>4. ASSUME NEW a \in Addresses, NEW wish \in {{}, {TRUE}, {FALSE}}, AddLook(r, a, wish)
          PROVE  Adders' \subseteq Adders /\ Rows' \subseteq Rows
      <3> DEFINE q == [Idle EXCEPT !.pc = IF wish = {} THEN "countFirst" ELSE "count",
                                   !.address = a, !.primary = TRUE \in wish]
      <3>0. ASSUME NEW p \in BOOLEAN
            PROVE  Shape([Idle EXCEPT !.pc = IF wish = {} THEN "countFirst" ELSE "count",
                                      !.address = a, !.primary = p])
        BY DEF Shape, Request, Idle
      <3>b. (TRUE \in wish) \in BOOLEAN  OBVIOUS
      <3>1. Shape(q)  BY <3>0, <3>b
      <3>2. ~Adding(q)  BY DEF Adding, Idle
      <3>3. Begin(r, q) /\ book' = book  BY <2>4 DEF AddLook
      <3> HIDE DEF q
      <3> QED  BY <3>1, <3>2, <3>3, <1>u, BeginAddsNothing
    <2>5. ASSUME NEW i \in Ids, SetPrimaryLook(r, i)
          PROVE  Adders' \subseteq Adders /\ Rows' \subseteq Rows
      <3> DEFINE q == [Idle EXCEPT !.pc = "unset", !.id = i, !.primary = TRUE]
      <3>1. Shape(q) /\ ~Adding(q)  BY DEF Shape, Request, Idle, Adding
      <3>2. Begin(r, q) /\ book' = book  BY <2>5 DEF SetPrimaryLook
      <3> HIDE DEF q
      <3> QED  BY <3>1, <3>2, <1>u, BeginAddsNothing
    <2>6. ASSUME NEW i \in Ids, DeleteLook(r, i)
          PROVE  Adders' \subseteq Adders /\ Rows' \subseteq Rows
      <3> DEFINE q == [Idle EXCEPT !.pc = "countRest", !.removes = i, !.primary = i \in primaries]
      <3>0. ASSUME NEW p \in BOOLEAN
            PROVE  Shape([Idle EXCEPT !.pc = "countRest", !.removes = i, !.primary = p])
        BY DEF Shape, Request, Idle
      <3>b. (i \in primaries) \in BOOLEAN  OBVIOUS
      <3>1. Shape(q)  BY <3>0, <3>b
      <3>2. ~Adding(q)  BY DEF Adding, Idle
      <3>3. Begin(r, q) /\ book' = book  BY <2>6 DEF DeleteLook
      <3> HIDE DEF q
      <3> QED  BY <3>1, <3>2, <3>3, <1>u, BeginAddsNothing
    <2>7. ASSUME NEW i \in Ids, NEW p \in BOOLEAN, UpdateLook(r, i, p)
          PROVE  Adders' \subseteq Adders /\ Rows' \subseteq Rows
      <3> DEFINE q == [Idle EXCEPT !.pc = IF p THEN "unset" ELSE "set", !.id = i, !.primary = p]
      <3>1. Shape(q) /\ ~Adding(q)  BY DEF Shape, Request, Idle, Adding
      <3>2. Begin(r, q) /\ book' = book  BY <2>7 DEF UpdateLook
      <3> HIDE DEF q
      <3> QED  BY <3>1, <3>2, <1>u, BeginAddsNothing
    <2>8. CASE AddCount(r)
      <3>1. CASE ~Full(Cardinality(Rows))
        <4>1. Cardinality(Rows) \in Nat  BY Finite, FS_CardinalityType
        <4> QED  BY <3>1, <4>1, <2>8, <1>u DEF AddCount, Full
      <3>2. CASE Full(Cardinality(Rows))
        <4>1. Move(r, Idle) /\ book' = book  BY <3>2, <2>8 DEF AddCount
        <4> QED  BY <4>1, <2>i, <1>u, MoveAddsNothing
      <3> QED  BY <3>1, <3>2
    <2>9. CASE Create(r)
      <3>1. r \in Adders  BY <2>9, <2>r DEF Create, Shape, Adders, Adding
      <3>2. Move(r, Idle)  BY <2>9 DEF Create
      <3>3. Adders' = Adders \ {r}  BY <3>2, <2>i, MoveAddsNothing
      <3>4. CASE book' = book  BY <3>3, <3>4, <1>u
      <3>5. ASSUME NEW i \in Unused, book' = [book EXCEPT ![i] = req[r].address]
            PROVE  Rows' = Rows \cup {i}
        <4>1. req[r].address # NoAddress  BY <2>9, <2>r DEF Create, Shape
        <4> QED  BY <3>5, <4>1 DEF Rows, Unused, Shaped, TypeOK
      <3>6. CASE \E i \in Unused : book' = [book EXCEPT ![i] = req[r].address]
        BY <3>1, <3>3, <3>5, <3>6 DEF Inserts
      <3> QED  BY <3>4, <3>6, <2>9 DEF Create
    <2>10. CASE Unset(r)
      <3> DEFINE q == [req[r] EXCEPT !.pc = IF req[r].id = NoRow THEN "create" ELSE "set"]
      <3>1. Adding(q) => r \in Adders
        BY <2>10, <2>r DEF Unset, Shape, Request, Adding, Adders
      <3>2. Move(r, q) /\ book' = book  BY <2>10 DEF Unset, Goto
      <3> HIDE DEF q
      <3> QED  BY <3>1, <3>2, <1>u, MoveAddsNothing
    <2>11. CASE Set(r)
      <3> DEFINE q == [req[r] EXCEPT !.pc = "delete"]
      <3>1. ~Adding(q)  BY <2>r DEF Request, Adding
      <3>2. (Move(r, Idle) \/ Move(r, q)) /\ book' = book  BY <2>11 DEF Set, Goto
      <3> HIDE DEF q
      <3> QED  BY <3>1, <3>2, <2>i, <1>u, MoveAddsNothing
    <2>12. CASE DeleteCount(r)
      <3> DEFINE q == [req[r] EXCEPT !.pc = AfterRest(req[r].primary)]
      <3>1. ~Adding(q)  BY <2>r DEF AfterRest, Request, Adding
      <3>2. (Move(r, Idle) \/ Move(r, q)) /\ book' = book  BY <2>12 DEF DeleteCount, Goto
      <3> HIDE DEF q
      <3> QED  BY <3>1, <3>2, <2>i, <1>u, MoveAddsNothing
    <2>13. CASE Choose(r)
      <3>1. ASSUME NEW i \in Rows
            PROVE  ~Adding([req[r] EXCEPT !.pc = "unset", !.id = i, !.primary = TRUE])
        <4>1. i # NoRow  BY DEF Rows
        <4> QED  BY <4>1, <2>r DEF Request, Adding
      <3>2. ~Adding([req[r] EXCEPT !.pc = "delete"])  BY <2>r DEF Request, Adding
      <3>3. \/ \E i \in Rows : Move(r, [req[r] EXCEPT !.pc = "unset", !.id = i, !.primary = TRUE])
            \/ Move(r, [req[r] EXCEPT !.pc = "delete"])
        BY <2>13 DEF Choose, Goto
      <3>4. PICK x : ~Adding(x) /\ Move(r, x)  BY <3>1, <3>2, <3>3
      <3> QED  BY <3>4, <2>13, <1>u, MoveAddsNothing DEF Choose
    <2>14. CASE Delete(r)
      <3>1. Rows' \subseteq Rows  BY <2>14 DEF Delete, Rows, Shaped, TypeOK
      <3> QED  BY <3>1, <2>14, <2>i, MoveAddsNothing DEF Delete
    <2>15. CASE Fail(r)  BY <2>15, <2>i, <1>u, MoveAddsNothing DEF Fail
    <2> QED
      BY <2>1, <2>4, <2>5, <2>6, <2>7, <2>8, <2>9, <2>10, <2>11, <2>12, <2>13, <2>14, <2>15
  <1> QED  BY <1>1, <1>2

LEMMA RowBudgetKept ==
  ASSUME Shaped, RowBudget, [Next]_vars
  PROVE  RowBudget'
  <1>1. /\ IsFiniteSet(Rows) /\ IsFiniteSet(Adders)
        /\ IsFiniteSet(Rows') /\ IsFiniteSet(Adders')
    <2>1. Rows \in SUBSET Ids /\ Rows' \in SUBSET Ids  BY DEF Rows
    <2>2. Adders \in SUBSET Requests /\ Adders' \in SUBSET Requests  BY DEF Adders
    <2> QED  BY <2>1, <2>2, FS_Subset, BookAssumption
  <1>2. /\ Cardinality(Requests) \in Nat /\ Limit \in Nat
        /\ Cardinality(Rows) \in Nat /\ Cardinality(Adders) \in Nat
        /\ Cardinality(Rows') \in Nat /\ Cardinality(Adders') \in Nat
    BY <1>1, BookAssumption, FS_CardinalityType
  <1>3. CASE Adders' \subseteq Adders /\ Rows' \subseteq Rows
    <2>1. Cardinality(Adders') <= Cardinality(Adders)  BY <1>1, <1>3, FS_Subset
    <2>2. Cardinality(Rows') <= Cardinality(Rows)  BY <1>1, <1>3, FS_Subset
    <2> QED  BY <2>1, <2>2, <1>2 DEF RowBudget
  <1>4. ASSUME NEW r \in Requests, Inserts(r) PROVE RowBudget'
    <2>1. PICK i : Rows' = Rows \cup {i}  BY <1>4 DEF Inserts
    <2>2. Cardinality(Rows \cup {i}) =
            IF i \in Rows THEN Cardinality(Rows) ELSE Cardinality(Rows) + 1
      BY <1>1, FS_AddElement
    <2>3. Cardinality(Rows') <= Cardinality(Rows) + 1  BY <2>1, <2>2, <1>2
    <2>4. Cardinality(Adders') = Cardinality(Adders) - 1
      BY <1>1, <1>4, FS_RemoveElement DEF Inserts
    <2> QED  BY <2>3, <2>4, <1>2 DEF RowBudget
  <1>5. CASE Rows' = Rows /\ Cardinality(Rows) < Limit
    <2>1. Adders' \in SUBSET Requests  BY DEF Adders
    <2>2. Cardinality(Adders') <= Cardinality(Requests)  BY <2>1, BookAssumption, FS_Subset
    <2> QED  BY <2>2, <1>2, <1>5 DEF RowBudget
  <1> QED  BY <1>3, <1>4, <1>5, NextAdds

LEMMA InitRowBudget == ASSUME Init PROVE RowBudget
  <1>1. Rows = {} /\ Adders = {}  BY DEF Init, Rows, Adders, Adding, Idle
  <1>2. Cardinality(Requests) \in Nat  BY BookAssumption, FS_CardinalityType
  <1> QED  BY <1>1, <1>2, BookAssumption, FS_EmptySet DEF RowBudget

LEMMA RowBudgetBounds == ASSUME Shaped, RowBudget PROVE LimitBounded
  <1>1. Adders \in SUBSET Requests  BY DEF Adders
  <1>2. IsFiniteSet(Adders)  BY <1>1, BookAssumption, FS_Subset
  <1>3. /\ Cardinality(Adders) \in Nat /\ Cardinality(Rows) \in Nat
        /\ Cardinality(Requests) \in Nat /\ Limit \in Nat
    BY <1>2, Finite, BookAssumption, FS_CardinalityType
  <1> QED  BY <1>3 DEF RowBudget, LimitBounded

\* The limit of addresses (tron-address.service.ts counts, then inserts) is
\* exceeded by at most one for every other request under way with the last.
THEOREM AddressLimit == Spec => []LimitBounded
  <1>1. Init => Shaped /\ RowBudget  BY InitShaped, InitRowBudget
  <1>2. Shaped /\ RowBudget /\ [Next]_vars => Shaped' /\ RowBudget'
    BY NextShaped, RowBudgetKept
  <1>3. Shaped /\ RowBudget => LimitBounded  BY RowBudgetBounds
  <1> QED  BY <1>1, <1>2, <1>3, PTL DEF Spec

-----------------------------------------------------------------------------
(* Requests that come one by one.                                          *)

One      == \E i \in Rows : primaries = {i}
Other(i) == \E j \in Rows : j # i

\* What request r may rely on at each statement if it met no other.
Knows(r) ==
  /\ req[r].pc = "create" /\ req[r].primary => primaries = {}
  /\ req[r].pc = "unset" /\ req[r].id # NoRow => req[r].id \in Rows
  /\ req[r].pc = "set" /\ req[r].primary => req[r].id \in Rows /\ primaries \subseteq {req[r].id}
  /\ req[r].pc = "countRest" =>
       req[r].removes \in Rows /\ (req[r].primary <=> req[r].removes \in primaries)
  /\ \/ req[r].pc \in {"choose", "delete"}
     \/ req[r].pc \in {"unset", "set"} /\ req[r].removes # NoRow
     => Other(req[r].removes)

AloneGood == \A r \in UnderWay : req[r].alone => UnderWay = {r} /\ Knows(r)

\* A primary address is owed: it is there, or the only request is about to set it.
OwedGood ==
  owed => /\ UnderWay = {} => One
          /\ \A r \in UnderWay :
               /\ req[r].alone
               /\ ~Marking(req[r]) => One
               /\ req[r].pc = "delete" => req[r].removes \notin primaries

Serial == AloneGood /\ OwedGood

LEMMA InitSerial == ASSUME Init PROVE Serial
  BY DEF Init, Serial, AloneGood, OwedGood, UnderWay, Idle

LEMMA BeginSerial ==
  ASSUME Shaped, Serial, NEW r \in Requests, NEW q, Shape(q), Begin(r, q),
         UNCHANGED <<book, primaries>>, q.pc # "idle", q.pc # "delete", ~Marking(q),
         req'[r].pc = q.pc => Knows(r)'
  PROVE  Serial'
  <1>1. ASSUME NEW p, Shape(p), NEW b \in BOOLEAN
        PROVE  LET c == [p EXCEPT !.alone = b] IN
               c.alone = b /\ c.pc = p.pc /\ Marking(c) = Marking(p)
    BY <1>1 DEF Shape, Request, Marking
  <1>2. \A s \in Requests : Shape(req[s])  BY DEF Shaped
  <1>3. (UnderWay = {}) \in BOOLEAN  OBVIOUS
  <1>4. /\ req'[r].alone = (UnderWay = {}) /\ req'[r].pc = q.pc /\ ~Marking(req'[r])
    BY <1>1, <1>3 DEF Begin
  <1>5. UnderWay' = UnderWay \cup {r}
    <2>1. UnderWay' = {s \in Requests : req'[s].pc # "idle"}  BY DEF UnderWay
    <2>2. ASSUME NEW s \in Requests, s # r PROVE req'[s].pc = req[s].pc
      BY <1>1, <1>2, <2>2 DEF Begin
    <2> QED  BY <2>1, <2>2, <1>4 DEF UnderWay
  <1>6. CASE UnderWay = {}
    <2>1. UnderWay' = {r}  BY <1>5, <1>6
    <2>2. AloneGood'  BY <2>1, <1>4 DEF AloneGood
    <2>3. One => One'  BY DEF One, Rows
    <2>4. OwedGood'
      BY <2>1, <2>3, <1>4, <1>6 DEF OwedGood, Serial, Begin
    <2> QED  BY <2>2, <2>4 DEF Serial
  <1>7. CASE UnderWay # {}
    <2>1. ~owed'  BY <1>7 DEF Begin
    <2>2. ASSUME NEW s \in UnderWay' PROVE req'[s].alone = FALSE
      <3>1. CASE s = r  BY <3>1, <1>4, <1>7
      <3>2. CASE s # r
        <4>1. s \in UnderWay /\ s \in Requests  BY <3>2, <1>5 DEF UnderWay
        <4>2. req'[s] = [req[s] EXCEPT !.alone = FALSE]  BY <3>2, <4>1 DEF Begin
        <4> QED  BY <4>1, <4>2, <1>1, <1>2
      <3> QED  BY <3>1, <3>2
    <2> QED  BY <2>1, <2>2 DEF Serial, AloneGood, OwedGood
  <1> QED  BY <1>6, <1>7

\* While one request moves no other is alone.
LEMMA MoveSerial ==
  ASSUME Shaped, Serial, NEW r \in UnderWay, NEW q, Move(r, q),
         q.pc = "idle" \/ q.alone = req[r].alone,
         req[r].alone /\ req'[r].pc # "idle" => Knows(r)',
         owed' => /\ req[r].alone
                  /\ Marking(req'[r]) \/ One'
                  /\ req'[r].pc = "delete" => req'[r].removes \notin primaries'
  PROVE  Serial'
  <1>1. /\ r \in Requests /\ req'[r] = q
        /\ \A s \in Requests : s # r => req'[s] = req[s]
    BY DEF Move, Shaped, TypeOK, UnderWay
  <1>2. UnderWay' = {s \in Requests : req'[s].pc # "idle"}  BY DEF UnderWay
  <1>3. UnderWay' \subseteq UnderWay  BY <1>1, <1>2 DEF UnderWay
  <1>4. ASSUME NEW s \in UnderWay', req'[s].alone PROVE s = r /\ UnderWay' = {r} /\ Knows(s)'
    <2>1. s \in UnderWay /\ req[s].alone  BY <1>1, <1>2, <1>3, <1>4
    <2>2. UnderWay = {s}  BY <2>1 DEF Serial, AloneGood
    <2>3. s = r  BY <2>2
    <2>4. UnderWay' = {r}  BY <2>2, <2>3, <1>3, <1>4
    <2>5. Knows(r)'  BY <2>1, <2>3, <1>2, <1>4
    <2> QED  BY <2>3, <2>4, <2>5
  <1>5. AloneGood'  BY <1>4 DEF AloneGood
  <1>6. ASSUME owed' PROVE OwedGood'
    <2>1. UnderWay' \subseteq {r}  BY <1>3, <1>6 DEF Serial, AloneGood
    <2>2. UnderWay' = {} => One'  BY <1>1, <1>2, <1>6 DEF Marking
    <2>3. r \in UnderWay' => req'[r].alone  BY <1>1, <1>2, <1>6
    <2> QED  BY <2>1, <2>2, <2>3, <1>6 DEF OwedGood, Marking
  <1> QED  BY <1>5, <1>6 DEF Serial, OwedGood

\* Two rows: one of them is another than i.
LEMMA SecondRow ==
  ASSUME Shaped, ~Last(Cardinality(Rows)), NEW i
  PROVE  Other(i)
  <1>1. IsFiniteSet(Rows) /\ Cardinality(Rows) \in Nat  BY Finite, FS_CardinalityType
  <1>2. Cardinality(Rows) > 1  BY <1>1 DEF Last
  <1>3. ASSUME ~Other(i) PROVE FALSE
    <2>1. Rows \subseteq {i}  BY <1>3 DEF Other
    <2>2. Rows \in SUBSET {i} /\ IsFiniteSet({i}) /\ Cardinality({i}) = 1  BY <2>1, FS_Singleton
    <2>3. Cardinality(Rows) <= 1  BY <2>2, FS_Subset
    <2> QED  BY <2>3, <1>1, <1>2
  <1> QED  BY <1>3

LEMMA NextSerial ==
  ASSUME Shaped, Serial, [Next]_vars
  PROVE  Serial'
  <1> USE BookAssumption
  <1>u. book' = book => Rows' = Rows  BY DEF Rows
  <1>1. CASE UNCHANGED vars
    <2>1. ASSUME NEW r \in UnderWay PROVE Knows(r)' = Knows(r)
      BY <1>1, <1>u DEF vars, Knows, Other
    <2>2. UnderWay' = UnderWay /\ One' = One  BY <1>1, <1>u DEF vars, UnderWay, One
    <2>3. AloneGood'  BY <2>1, <2>2, <1>1 DEF vars, Serial, AloneGood
    <2>4. OwedGood'  BY <2>2, <1>1 DEF vars, Serial, OwedGood, Marking
    <2> QED  BY <2>3, <2>4 DEF Serial
  <1>2. CASE Next
    <2>1. PICK r \in Requests :
            \/ \E a \in Addresses : \E wish \in {{}, {TRUE}, {FALSE}} : AddLook(r, a, wish)
            \/ \E i \in Ids : \/ SetPrimaryLook(r, i) \/ DeleteLook(r, i)
                              \/ \E p \in BOOLEAN : UpdateLook(r, i, p)
            \/ AddCount(r) \/ Create(r) \/ Unset(r) \/ Set(r)
            \/ DeleteCount(r) \/ Choose(r) \/ Delete(r) \/ Fail(r)
      BY <1>2 DEF Next
    <2>r. Shape(req[r]) /\ req[r] \in Request /\ primaries \subseteq Rows
      BY DEF Shaped, TypeOK, Shape
    <2>m. ASSUME NEW q, Move(r, q) PROVE req'[r] = q
      BY <2>m DEF Move, Shaped, TypeOK
    <2>k. ASSUME r \in UnderWay, req[r].alone PROVE UnderWay = {r} /\ Knows(r)
      BY <2>k DEF Serial, AloneGood
    <2>o. ASSUME r \in UnderWay, owed
          PROVE  /\ req[r].alone /\ (Marking(req[r]) \/ One)
                 /\ req[r].pc = "delete" => req[r].removes \notin primaries
      BY <2>o DEF Serial, OwedGood
    <2>i. Idle.pc = "idle" /\ ~Marking(Idle)  BY DEF Idle, Marking
    <2>4. ASSUME NEW a \in Addresses, NEW wish \in {{}, {TRUE}, {FALSE}}, AddLook(r, a, wish)
          PROVE  Serial'
      <3> DEFINE q == [Idle EXCEPT !.pc = IF wish = {} THEN "countFirst" ELSE "count",
                                   !.address = a, !.primary = TRUE \in wish]
      <3>0. ASSUME NEW p \in BOOLEAN
            PROVE  Shape([Idle EXCEPT !.pc = IF wish = {} THEN "countFirst" ELSE "count",
                                      !.address = a, !.primary = p])
        BY DEF Shape, Request, Idle
      <3>b. (TRUE \in wish) \in BOOLEAN  OBVIOUS
      <3>1. Shape(q)  BY <3>0, <3>b
      <3>2. q.pc \in {"count", "countFirst"}  BY DEF Idle
      <3>3. Begin(r, q) /\ UNCHANGED <<book, primaries>>  BY <2>4 DEF AddLook
      <3> HIDE DEF q
      <3>4. req'[r].pc = q.pc => Knows(r)'  BY <3>2 DEF Knows
      <3> QED  BY <3>1, <3>2, <3>3, <3>4, BeginSerial DEF Marking
    <2>5. ASSUME NEW i \in Ids, SetPrimaryLook(r, i) PROVE Serial'
      <3> DEFINE q == [Idle EXCEPT !.pc = "unset", !.id = i, !.primary = TRUE]
      <3>1. Shape(q) /\ q.pc = "unset" /\ q.id = i /\ q.removes = NoRow
        BY DEF Shape, Request, Idle
      <3>2. Begin(r, q) /\ UNCHANGED <<book, primaries>> /\ i \in Rows  BY <2>5 DEF SetPrimaryLook
      <3> HIDE DEF q
      <3>3. req'[r].id = i /\ req'[r].removes = NoRow  BY <3>1, <3>2 DEF Begin, Shape, Request
      <3>4. req'[r].pc = q.pc => Knows(r)'  BY <3>1, <3>2, <3>3, <1>u DEF Knows
      <3> QED  BY <3>1, <3>2, <3>4, BeginSerial DEF Marking
    <2>6. ASSUME NEW i \in Ids, DeleteLook(r, i) PROVE Serial'
      <3> DEFINE q == [Idle EXCEPT !.pc = "countRest", !.removes = i, !.primary = i \in primaries]
      <3>0. ASSUME NEW p \in BOOLEAN
            PROVE  LET c == [Idle EXCEPT !.pc = "countRest", !.removes = i, !.primary = p] IN
                   Shape(c) /\ c.pc = "countRest" /\ c.removes = i /\ c.primary = p
        BY DEF Shape, Request, Idle
      <3>b. (i \in primaries) \in BOOLEAN  OBVIOUS
      <3>1. Shape(q) /\ q.pc = "countRest" /\ q.removes = i /\ q.primary = (i \in primaries)
        BY <3>0, <3>b
      <3>2. Begin(r, q) /\ UNCHANGED <<book, primaries>> /\ i \in Rows  BY <2>6 DEF DeleteLook
      <3> HIDE DEF q
      <3>3. req'[r].primary = q.primary /\ req'[r].removes = i
        BY <3>1, <3>2 DEF Begin, Shape, Request
      <3>4. req'[r].primary <=> req'[r].removes \in primaries'
        <4>1. CASE i \in primaries  BY <4>1, <3>1, <3>2, <3>3
        <4>2. CASE i \notin primaries
          <5>1. ~q.primary  BY <4>2, <3>1
          <5> QED  BY <5>1, <4>2, <3>2, <3>3
        <4> QED  BY <4>1, <4>2
      <3>5. req'[r].removes \in Rows'  BY <3>2, <3>3, <1>u
      <3>6. req'[r].pc = q.pc => Knows(r)'  BY <3>1, <3>4, <3>5 DEF Knows
      <3> QED  BY <3>1, <3>2, <3>6, BeginSerial DEF Marking
    <2>7. ASSUME NEW i \in Ids, NEW p \in BOOLEAN, UpdateLook(r, i, p) PROVE Serial'
      <3> DEFINE q == [Idle EXCEPT !.pc = IF p THEN "unset" ELSE "set", !.id = i, !.primary = p]
      <3>1. /\ Shape(q) /\ q.pc = (IF p THEN "unset" ELSE "set") /\ q.id = i /\ q.removes = NoRow
            /\ q.primary = p
        BY DEF Shape, Request, Idle
      <3>2. Begin(r, q) /\ UNCHANGED <<book, primaries>> /\ i \in Rows  BY <2>7 DEF UpdateLook
      <3> HIDE DEF q
      <3>3. req'[r].id = i /\ req'[r].removes = NoRow /\ req'[r].primary = p
        BY <3>1, <3>2 DEF Begin, Shape, Request
      <3>4. req'[r].pc = q.pc => Knows(r)'  BY <3>1, <3>2, <3>3, <1>u DEF Knows
      <3> QED  BY <3>1, <3>2, <3>4, BeginSerial DEF Marking
    <2>8. CASE AddCount(r)
      <3> DEFINE q(p) == [req[r] EXCEPT !.pc = AfterCount(p), !.primary = p]
      <3>1. ASSUME NEW p \in BOOLEAN
            PROVE  /\ q(p).pc = (IF p THEN "unset" ELSE "create") /\ q(p).primary = p
                   /\ q(p).alone = req[r].alone /\ q(p).id = NoRow /\ q(p).removes = NoRow
        BY <2>r, <2>8 DEF AfterCount, Request, AddCount, Shape
      <3>b. /\ (Cardinality(Rows) = 0) \in BOOLEAN
            /\ req[r].primary \in BOOLEAN
        BY <2>r DEF Request
      <3>2. \/ Move(r, Idle)
            \/ Move(r, q(Cardinality(Rows) = 0))
            \/ Move(r, q(req[r].primary))
        <4>1. CASE req[r].pc = "countFirst"  BY <2>8, <4>1 DEF AddCount
        <4>2. CASE req[r].pc # "countFirst"  BY <2>8, <4>2 DEF AddCount
        <4> QED  BY <4>1, <4>2
      <3> HIDE DEF q
      <3>3. PICK x : /\ Move(r, x)
                     /\ \/ x.pc = "idle"
                        \/ /\ x.pc = "unset" \/ (x.pc = "create" /\ ~x.primary)
                           /\ x.alone = req[r].alone /\ x.id = NoRow /\ x.removes = NoRow
        <4>1. CASE Move(r, Idle)  BY <4>1, <2>i
        <4>2. ASSUME NEW p \in BOOLEAN, Move(r, q(p))
              PROVE  \E x : /\ Move(r, x)
                            /\ x.pc = "unset" \/ (x.pc = "create" /\ ~x.primary)
                            /\ x.alone = req[r].alone /\ x.id = NoRow /\ x.removes = NoRow
          BY <4>2, <3>1
        <4> QED  BY <4>1, <4>2, <3>b, <3>2
      <3>4. req'[r] = x  BY <3>3, <2>m
      <3>5. r \in UnderWay /\ ~Marking(req[r])  BY <2>8 DEF AddCount, UnderWay, Marking
      <3>6. UNCHANGED <<book, primaries, owed>>  BY <2>8 DEF AddCount
      <3>7. One => One'  BY <3>6, <1>u DEF One
      <3>8. req'[r].pc # "idle" => Knows(r)'  BY <3>3, <3>4 DEF Knows
      <3>9. owed' => req[r].alone /\ One'  BY <2>o, <3>5, <3>6, <3>7
      <3>10. req'[r].pc # "delete"  BY <3>3, <3>4
      <3> QED  BY <3>3, <3>5, <3>8, <3>9, <3>10, MoveSerial
    <2>9. CASE Create(r)
      <3>1. r \in UnderWay /\ Move(r, Idle)  BY <2>9 DEF Create, UnderWay
      <3>2. req'[r] = Idle  BY <3>1, <2>m
      <3>3. ASSUME owed' PROVE req[r].alone /\ One'
        <4>1. PICK i \in Unused :
                /\ book' = [book EXCEPT ![i] = req[r].address]
                /\ primaries' = IF req[r].primary THEN primaries \cup {i} ELSE primaries
                /\ owed \/ (req[r].primary /\ req[r].alone)
          BY <2>9, <3>3 DEF Create
        <4>2. req[r].alone  BY <4>1, <3>1, <2>o
        <4>3. req[r].address # NoAddress  BY <2>9, <2>r DEF Create, Shape
        <4>4. Rows' = Rows \cup {i}  BY <4>1, <4>3 DEF Rows, Unused, Shaped, TypeOK
        <4>5. CASE req[r].primary
          <5>1. primaries = {}  BY <4>2, <4>5, <3>1, <2>k, <2>9 DEF Knows, Create
          <5> QED  BY <5>1, <4>1, <4>2, <4>4, <4>5 DEF One
        <4>6. CASE ~req[r].primary
          <5>1. One  BY <4>1, <4>6, <3>1, <2>o DEF Marking
          <5> QED  BY <5>1, <4>1, <4>2, <4>4, <4>6 DEF One
        <4> QED  BY <4>5, <4>6
      <3> QED  BY <3>1, <3>2, <3>3, <2>i, MoveSerial
    <2>10. CASE Unset(r)
      <3> DEFINE q == [req[r] EXCEPT !.pc = IF req[r].id = NoRow THEN "create" ELSE "set"]
      <3>1. /\ q.pc = (IF req[r].id = NoRow THEN "create" ELSE "set")
            /\ q.id = req[r].id /\ q.removes = req[r].removes /\ q.alone = req[r].alone
            /\ Marking(q) /\ q.primary
        BY <2>10, <2>r DEF Unset, Shape, Request, Marking
      <3>2. Move(r, q) /\ UNCHANGED <<book, owed>>  BY <2>10 DEF Unset, Goto
      <3>3. primaries' = primaries \cap {req[r].id}  BY <2>10 DEF Unset
      <3>4. r \in UnderWay  BY <2>10 DEF Unset, UnderWay
      <3> HIDE DEF q
      <3>5. req'[r] = q  BY <3>2, <2>m
      <3>6. ASSUME req[r].alone PROVE Knows(r)'
        <4>1. Knows(r) /\ req[r].pc = "unset"  BY <3>4, <3>6, <2>k, <2>10 DEF Unset
        <4>2. req[r].id = NoRow => primaries' = {}  BY <3>3, <2>r DEF Rows
        <4>3. req[r].removes # NoRow => Other(req[r].removes)'
          BY <4>1, <3>2, <3>5, <3>1, <1>u DEF Knows, Other
        <4> QED  BY <4>1, <4>2, <4>3, <3>1, <3>2, <3>3, <3>5, <1>u DEF Knows
      <3>7. owed' => req[r].alone  BY <3>2, <3>4, <2>o
      <3>8. Marking(req'[r]) /\ req'[r].pc # "delete"  BY <3>1, <3>5
      <3> QED  BY <3>1, <3>2, <3>4, <3>6, <3>7, <3>8, MoveSerial
    <2>11. CASE Set(r)
      <3> DEFINE q == [req[r] EXCEPT !.pc = "delete"]
      <3>1. /\ q.pc = "delete" /\ q.removes = req[r].removes /\ q.alone = req[r].alone
            /\ ~Marking(q)
        BY <2>r DEF Request, Marking
      <3>2. \/ req[r].removes = NoRow /\ Move(r, Idle)
            \/ req[r].removes # NoRow /\ Move(r, q)
        BY <2>11 DEF Set, Goto
      <3>3. r \in UnderWay /\ book' = book  BY <2>11 DEF Set, UnderWay
      <3> HIDE DEF q
      <3>4. PICK x : /\ Move(r, x)
                     /\ \/ x = Idle /\ req[r].removes = NoRow
                        \/ x = q /\ req[r].removes # NoRow
        BY <3>2
      <3>5. req'[r] = x  BY <3>4, <2>m
      <3>6. ASSUME req[r].alone, req'[r].pc # "idle" PROVE Knows(r)'
        <4>1. x = q /\ req[r].removes # NoRow  BY <3>4, <3>5, <3>6, <2>i
        <4>2. Other(req[r].removes)  BY <4>1, <3>3, <3>6, <2>k, <2>11 DEF Knows, Set
        <4>3. Other(req[r].removes)'
          BY <4>1, <4>2, <3>1, <3>3, <3>5, <1>u DEF Other
        <4> QED  BY <4>1, <4>3, <3>1, <3>5 DEF Knows
      <3>7. ASSUME owed'
            PROVE  /\ req[r].alone /\ One'
                   /\ req[r].removes # NoRow => req[r].removes \notin primaries'
        <4>1. CASE req[r].primary
          <5>1. req[r].alone  BY <4>1, <3>3, <3>7, <2>o, <2>11 DEF Set
          <5>2. req[r].id \in Rows /\ primaries \subseteq {req[r].id}
            BY <4>1, <5>1, <3>3, <2>k, <2>11 DEF Knows, Set
          <5>3. primaries' = {req[r].id}  BY <5>2, <4>1, <2>11 DEF Set, WithFlag
          <5>4. One'  BY <5>2, <5>3, <3>3, <1>u DEF One
          <5>5. req[r].removes # NoRow => req[r].id # req[r].removes
            BY <2>r, <2>11 DEF Shape, Set
          <5> QED  BY <5>1, <5>3, <5>4, <5>5
        <4>2. CASE ~req[r].primary
          <5>1. owed /\ primaries' # {} /\ primaries' \subseteq primaries
            BY <4>2, <3>7, <2>11 DEF Set, WithFlag
          <5>2. One /\ req[r].alone  BY <5>1, <4>2, <3>3, <2>o DEF Marking
          <5>3. One'  BY <5>1, <5>2, <3>3, <1>u DEF One
          <5>4. req[r].removes = NoRow  BY <4>2, <2>r, <2>11 DEF Shape, Set
          <5> QED  BY <5>2, <5>3, <5>4
        <4> QED  BY <4>1, <4>2
      <3>8. req'[r].pc = "delete" => req'[r].removes = req[r].removes /\ req[r].removes # NoRow
        BY <3>1, <3>4, <3>5, <2>i
      <3> QED  BY <3>1, <3>3, <3>4, <3>6, <3>7, <3>8, <2>i, MoveSerial
    <2>12. CASE DeleteCount(r)
      <3> DEFINE q == [req[r] EXCEPT !.pc = AfterRest(req[r].primary)]
      <3>1. /\ q.pc = (IF req[r].primary THEN "choose" ELSE "delete")
            /\ q.removes = req[r].removes /\ q.alone = req[r].alone
        BY <2>r DEF AfterRest, Request
      <3>2. \/ Move(r, Idle)
            \/ Move(r, q) /\ ~Last(Cardinality(Rows))
        BY <2>12 DEF DeleteCount, Goto
      <3>3. UNCHANGED <<book, primaries, owed>> /\ r \in UnderWay /\ ~Marking(req[r])
        BY <2>12 DEF DeleteCount, UnderWay, Marking
      <3> HIDE DEF q
      <3>4. PICK x : Move(r, x) /\ (x = Idle \/ (x = q /\ ~Last(Cardinality(Rows))))  BY <3>2
      <3>5. req'[r] = x  BY <3>4, <2>m
      <3>6. ASSUME req'[r].pc # "idle" PROVE Knows(r)'
        <4>1. x = q /\ ~Last(Cardinality(Rows))  BY <3>4, <3>5, <3>6, <2>i
        <4>2. Other(req[r].removes)  BY <4>1, SecondRow
        <4>3. Other(req[r].removes)'
          BY <4>1, <4>2, <3>1, <3>3, <3>5, <1>u DEF Other
        <4> QED  BY <4>1, <4>3, <3>1, <3>5 DEF Knows
      <3>7. One => One'  BY <3>3, <1>u DEF One
      <3>8. owed' => req[r].alone /\ One'  BY <3>3, <3>7, <2>o
      <3>9. ASSUME owed', req'[r].pc = "delete" PROVE req'[r].removes \notin primaries'
        <4>1. ~req[r].primary /\ req'[r].removes = req[r].removes
          BY <3>1, <3>4, <3>5, <3>9, <2>i
        <4>2. req[r].removes \notin primaries
          BY <4>1, <3>3, <3>8, <3>9, <2>k, <2>12 DEF Knows, DeleteCount
        <4> QED  BY <4>1, <4>2, <3>3
      <3> QED  BY <3>1, <3>3, <3>4, <3>6, <3>8, <3>9, <2>i, MoveSerial
    <2>13. CASE Choose(r)
      <3>1. UNCHANGED <<book, primaries, owed>> /\ r \in UnderWay /\ ~Marking(req[r])
        BY <2>13 DEF Choose, UnderWay, Marking
      <3>2. One => One'  BY <3>1, <1>u DEF One
      <3>3. owed' => req[r].alone /\ One'  BY <3>1, <3>2, <2>o
      <3>4. req[r].alone => Other(req[r].removes)
        BY <3>1, <2>k, <2>13 DEF Knows, Choose
      <3>5. ASSUME NEW i \in Rows \ {req[r].removes},
                   Move(r, [req[r] EXCEPT !.pc = "unset", !.id = i, !.primary = TRUE])
            PROVE  Serial'
        <4> DEFINE q == [req[r] EXCEPT !.pc = "unset", !.id = i, !.primary = TRUE]
        <4>1. q.pc = "unset" /\ q.id = i /\ q.removes = req[r].removes /\ q.alone = req[r].alone
          BY <2>r DEF Request
        <4>2. Move(r, q)  BY <3>5
        <4> HIDE DEF q
        <4>3. req'[r] = q  BY <4>2, <2>m
        <4>4. req[r].alone => Other(req[r].removes)'
          BY <3>1, <3>4, <4>1, <4>3, <1>u DEF Other
        <4>5. req[r].alone => Knows(r)'  BY <4>1, <4>3, <4>4, <3>1, <1>u DEF Knows
        <4> QED  BY <4>1, <4>2, <4>3, <4>5, <3>1, <3>3, MoveSerial
      <3>6. ASSUME Rows \ {req[r].removes} = {}, Move(r, [req[r] EXCEPT !.pc = "delete"])
            PROVE  Serial'
        <4> DEFINE q == [req[r] EXCEPT !.pc = "delete"]
        <4>1. q.alone = req[r].alone  BY <2>r DEF Request
        <4>2. Move(r, q)  BY <3>6
        <4>3. ~req[r].alone  BY <3>4, <3>6 DEF Other
        <4> HIDE DEF q
        <4> QED  BY <4>1, <4>2, <4>3, <3>1, <3>3, MoveSerial
      <3> QED  BY <3>5, <3>6, <2>13 DEF Choose, Goto
    <2>14. CASE Delete(r)
      <3>1. r \in UnderWay /\ Move(r, Idle)  BY <2>14 DEF Delete, UnderWay
      <3>2. req'[r] = Idle  BY <3>1, <2>m
      <3>3. ASSUME owed' PROVE req[r].alone /\ One'
        <4>1. req[r].alone /\ One /\ req[r].removes \notin primaries
          BY <3>1, <3>3, <2>o, <2>14 DEF Delete, Marking
        <4>2. PICK i \in Rows : primaries = {i}  BY <4>1 DEF One
        <4>3. i \in Rows' /\ primaries' = {i}
          BY <4>1, <4>2, <2>14 DEF Delete, Rows, Shaped, TypeOK
        <4> QED  BY <4>1, <4>3 DEF One
      <3> QED  BY <3>1, <3>2, <3>3, <2>i, MoveSerial
    <2>15. CASE Fail(r)
      <3>1. r \in UnderWay /\ Move(r, Idle) /\ ~owed'  BY <2>15 DEF Fail, UnderWay
      <3>2. req'[r] = Idle  BY <3>1, <2>m
      <3> QED  BY <3>1, <3>2, <2>i, MoveSerial
    <2> QED
      BY <2>1, <2>4, <2>5, <2>6, <2>7, <2>8, <2>9, <2>10, <2>11, <2>12, <2>13, <2>14, <2>15
  <1> QED  BY <1>1, <1>2

\* A user whose requests come one by one and succeed has exactly one primary
\* address once one was chosen, whatever is added, changed and deleted.
THEOREM PrimaryStays == Spec => []PrimaryKept
  <1>1. Init => Shaped /\ Serial  BY InitShaped, InitSerial
  <1>2. Shaped /\ Serial /\ [Next]_vars => Shaped' /\ Serial'  BY NextShaped, NextSerial
  <1>3. Serial => PrimaryKept  BY DEF Serial, OwedGood, PrimaryKept, One
  <1> QED  BY <1>1, <1>2, <1>3, PTL DEF Spec

\* A row disappears only by the deletion of it.
LEMMA LastStep ==
  ASSUME Shaped, Serial, [Next]_vars, Rows # {}, Rows' = {}
  PROVE  \E r \in UnderWay : ~req[r].alone
  <1>1. book' # book  BY DEF Rows
  <1>2. PICK r \in Requests : Create(r) \/ Delete(r)
    BY <1>1 DEF Next, vars, AddLook, SetPrimaryLook, UpdateLook, DeleteLook, AddCount, Unset, Set,
              DeleteCount, Choose, Fail
  <1>3. r \in UnderWay  BY <1>2 DEF Create, Delete, UnderWay
  <1>4. CASE Create(r)
    <2>1. req[r].address # NoAddress  BY <1>4, BookAssumption DEF Create, Shaped, Shape
    <2> QED  BY <2>1, <1>1, <1>4 DEF Create, Rows, Unused, Shaped, TypeOK
  <1>5. CASE Delete(r) /\ req[r].alone
    <2>1. Other(req[r].removes)  BY <1>3, <1>5 DEF Serial, AloneGood, Knows, Delete
    <2> QED  BY <2>1, <1>5 DEF Other, Delete, Rows, Shaped, TypeOK
  <1> QED  BY <1>2, <1>3, <1>4, <1>5

\* A user who has an address keeps one, unless a deletion met another request
\* (deleteAddress counts the rows and deletes in two statements).
THEOREM LastAddress == Spec => LastStays
  <1>1. Init => Shaped /\ Serial  BY InitShaped, InitSerial
  <1>2. Shaped /\ Serial /\ [Next]_vars => Shaped' /\ Serial'  BY NextShaped, NextSerial
  <1>3. Shaped /\ Serial /\ [Next]_vars =>
          [Rows # {} /\ Rows' = {} => \E r \in UnderWay : ~req[r].alone]_vars
    BY LastStep
  <1> QED  BY <1>1, <1>2, <1>3, PTL DEF Spec, LastStays

=============================================================================
