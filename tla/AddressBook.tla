----------------------------- MODULE AddressBook -----------------------------
(***************************************************************************)
(* The TRON addresses of one user (tron-address.service.ts): requests add, *)
(* change, promote and delete rows of user_tron_addresses, each in several *)
(* statements and none in a transaction.  The front end and the initiation *)
(* of a deposit send them, also together.  Rows of different users never   *)
(* meet: every statement names the user.  One action per statement.        *)
(***************************************************************************)
EXTENDS Integers, FiniteSets

CONSTANTS
  Ids,        \* ids of rows; one that no row and no request has is new
  NoRow,      \* of a request that is about no row
  Addresses,  \* TRON addresses
  NoAddress,  \* of an id that has no row
  Requests,   \* requests of the user that may be under way together
  Limit       \* addresses a user may have

ASSUME BookAssumption ==
  /\ IsFiniteSet(Ids) /\ IsFiniteSet(Requests)
  /\ NoRow \notin Ids /\ NoAddress \notin Addresses
  /\ Limit \in Nat \ {0}

VARIABLES
  book,       \* the address of every row
  primaries,  \* rows with isPrimary set
  req,        \* the requests
  owed        \* history: the last request that chose a primary address ran alone,
              \* and since then none failed, met another one or gave it up

vars == <<book, primaries, req, owed>>

\* `id` is the row a request is about to make primary or change, `removes` the
\* one it deletes; `alone` says that it has met no other request.
Idle == [pc |-> "idle", id |-> NoRow, removes |-> NoRow, address |-> NoAddress,
         primary |-> FALSE, alone |-> TRUE]

Init ==
  /\ book = [i \in Ids |-> NoAddress]
  /\ primaries = {}
  /\ req = [r \in Requests |-> Idle]
  /\ owed = FALSE

Rows      == {i \in Ids : book[i] # NoAddress}
Unused    == {i \in Ids \ Rows : \A r \in Requests : i \notin {req[r].id, req[r].removes}}
UnderWay  == {r \in Requests : req[r].pc # "idle"}
Listed(a) == \E i \in Rows : book[i] = a

\* A request begins; those under way have met it.
Begin(r, q) ==
  /\ req[r].pc = "idle"
  /\ req' = [s \in Requests |-> IF s = r THEN [q EXCEPT !.alone = UnderWay = {}]
                                ELSE IF s \in UnderWay THEN [req[s] EXCEPT !.alone = FALSE]
                                ELSE req[s]]
  /\ owed' = (owed /\ UnderWay = {})

Move(r, q) == req' = [req EXCEPT ![r] = q]
Goto(r, pc) == Move(r, [req[r] EXCEPT !.pc = pc])

-----------------------------------------------------------------------------
(* addAddress and TronAddressRepository.create                             *)

\* The address is not listed yet.  `wish` is the flag of the request, if any;
\* a deposit sends FALSE.
AddLook(r, a, wish) ==
  /\ ~Listed(a)
  /\ Begin(r, [Idle EXCEPT !.pc = IF wish = {} THEN "countFirst" ELSE "count",
                           !.address = a, !.primary = TRUE \in wish])
  /\ UNCHANGED <<book, primaries>>

\* The limit, and the flag where the request has none: the first address.
FullLate(n) == n > Limit
Full(n) == n >= Limit
AfterCountHasty(p) == "create"
AfterCount(p) == IF p THEN "unset" ELSE "create"

AddCount(r) ==
  /\ req[r].pc \in {"count", "countFirst"}
  /\ LET n == Cardinality(Rows)
         p == IF req[r].pc = "countFirst" THEN n = 0 ELSE req[r].primary IN
     Move(r, IF Full(n) THEN Idle ELSE [req[r] EXCEPT !.pc = AfterCount(p), !.primary = p])
  /\ UNCHANGED <<book, primaries, owed>>

\* The row is inserted, unless the unique index finds its address.
Create(r) ==
  /\ req[r].pc = "create"
  /\ \/ /\ ~Listed(req[r].address)
        /\ \E i \in Unused :
             /\ book' = [book EXCEPT ![i] = req[r].address]
             /\ primaries' = IF req[r].primary THEN primaries \cup {i} ELSE primaries
        /\ owed' = (owed \/ (req[r].primary /\ req[r].alone))
     \/ /\ Listed(req[r].address)
        /\ owed' = FALSE
        /\ UNCHANGED <<book, primaries>>
  /\ Move(r, Idle)

-----------------------------------------------------------------------------
(* setPrimaryAddress, updateAddress and TronAddressRepository.update       *)

\* A row that is primary already is left alone.
SetPrimaryLook(r, i) ==
  /\ i \in Rows \ primaries
  /\ Begin(r, [Idle EXCEPT !.pc = "unset", !.id = i, !.primary = TRUE])
  /\ UNCHANGED <<book, primaries>>

\* An update may give the flag either value, whatever it is.
UpdateLook(r, i, p) ==
  /\ i \in Rows
  /\ Begin(r, [Idle EXCEPT !.pc = IF p THEN "unset" ELSE "set", !.id = i, !.primary = p])
  /\ UNCHANGED <<book, primaries>>

\* unsetPrimaryAddresses: every row but the one about to be set.
Unset(r) ==
  /\ req[r].pc = "unset"
  /\ primaries' = primaries \cap {req[r].id}
  /\ Goto(r, IF req[r].id = NoRow THEN "create" ELSE "set")
  /\ UNCHANGED <<book, owed>>

\* updateMany changes the row if it still exists; no row is no error.
WithFlagUpserted(i, p) == IF p THEN primaries \cup {i} ELSE primaries \ {i}
WithFlag(i, p) == IF p THEN primaries \cup ({i} \cap Rows) ELSE primaries \ {i}

Set(r) ==
  /\ req[r].pc = "set"
  /\ primaries' = WithFlag(req[r].id, req[r].primary)
  /\ owed' = IF req[r].primary THEN owed \/ (req[r].alone /\ req[r].id \in Rows)
             ELSE owed /\ primaries' # {}
  /\ IF req[r].removes = NoRow THEN Move(r, Idle) ELSE Goto(r, "delete")
  /\ UNCHANGED book

-----------------------------------------------------------------------------
(* deleteAddress                                                           *)

DeleteLook(r, i) ==
  /\ i \in Rows
  /\ Begin(r, [Idle EXCEPT !.pc = "countRest", !.removes = i, !.primary = i \in primaries])
  /\ UNCHANGED <<book, primaries>>

\* The last address stays; a primary one is replaced first.
LastLate(n) == n < 1
Last(n) == n <= 1
AfterRestHasty(p) == "delete"
AfterRest(p) == IF p THEN "choose" ELSE "delete"

DeleteCount(r) ==
  /\ req[r].pc = "countRest"
  /\ IF Last(Cardinality(Rows)) THEN Move(r, Idle) ELSE Goto(r, AfterRest(req[r].primary))
  /\ UNCHANGED <<book, primaries, owed>>

\* The list is read, primary rows first (which is newest is left open).
Choose(r) ==
  /\ req[r].pc = "choose"
  /\ LET others == Rows \ {req[r].removes}
         first == IF others \cap primaries # {} THEN others \cap primaries ELSE others IN
     \/ \E i \in first : Move(r, [req[r] EXCEPT !.pc = "unset", !.id = i, !.primary = TRUE])
     \/ others = {} /\ Goto(r, "delete")
  /\ UNCHANGED <<book, primaries, owed>>

Delete(r) ==
  /\ req[r].pc = "delete"
  /\ book' = [book EXCEPT ![req[r].removes] = NoAddress]
  /\ primaries' = primaries \ {req[r].removes}
  /\ Move(r, Idle)
  /\ UNCHANGED owed

-----------------------------------------------------------------------------
\* A statement fails, or the process is restarted: what was written stays.
Fail(r) ==
  /\ req[r].pc # "idle"
  /\ Move(r, Idle)
  /\ owed' = FALSE
  /\ UNCHANGED <<book, primaries>>

Next ==
  \E r \in Requests :
    \/ \E a \in Addresses : \E wish \in {{}, {TRUE}, {FALSE}} : AddLook(r, a, wish)
    \/ \E i \in Ids : \/ SetPrimaryLook(r, i) \/ DeleteLook(r, i)
                      \/ \E p \in BOOLEAN : UpdateLook(r, i, p)
    \/ AddCount(r) \/ Create(r) \/ Unset(r) \/ Set(r)
    \/ DeleteCount(r) \/ Choose(r) \/ Delete(r) \/ Fail(r)

Spec == Init /\ [][Next]_vars

-----------------------------------------------------------------------------
(* Properties.                                                             *)

Request == [pc : {"idle", "count", "countFirst", "unset", "create", "set", "countRest", "choose",
                  "delete"},
            id : Ids \cup {NoRow}, removes : Ids \cup {NoRow}, address : Addresses \cup {NoAddress},
            primary : BOOLEAN, alone : BOOLEAN]

TypeOK ==
  /\ book \in [Ids -> Addresses \cup {NoAddress}]
  /\ primaries \subseteq Rows
  /\ req \in [Requests -> Request]
  /\ owed \in BOOLEAN

\* There are never more primary addresses than requests that can meet: one, for
\* a user whose requests come one by one.
PrimariesBounded == Cardinality(primaries) <= Cardinality(Requests)

\* The limit is exceeded only by requests that counted together.
LimitBounded == Cardinality(Rows) < Limit + Cardinality(Requests)

\* Once a request that met no other chose a primary address, exactly one row is
\* primary whenever no request is under way: additions keep it, other choices
\* replace it and its deletion hands the role on, until one fails, meets
\* another or gives it up.
PrimaryKept == owed /\ UnderWay = {} => \E i \in Rows : primaries = {i}

\* Only a deletion that met another request removes the last address.
LastStays ==
  [][Rows # {} /\ Rows' = {} => \E r \in UnderWay : ~req[r].alone]_vars
=============================================================================
