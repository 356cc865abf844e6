----------------------------- MODULE EnergyRates -----------------------------
(***************************************************************************)
(* The energy rates: rows of energy_rates, of which the newest active one  *)
(* is in force, and the cache of an EnergyRateService in front of them.    *)
(* There are two: the routes of the module build a service of their own,   *)
(* so its cache is not the one that deposits, prices and delegations read. *)
(* They share nothing but the rows, and a behaviour follows one of them.   *)
(* Requests change rates through the routes or the admin controller, one   *)
(* action per statement.  A rate is the number of the write that gave a    *)
(* row its values, a row that of the write that inserted it: newer rows    *)
(* have greater numbers.                                                   *)
(***************************************************************************)
EXTENDS Integers, FiniteSets

CONSTANTS
  Requests,   \* requests to change rates that may be under way together
  Readers,    \* calls of getCurrentRate that may be under way together
  TTL,        \* minutes a cached rate is used
  Delay,      \* minutes a query takes at most to be answered
  MaxWrites   \* bound: writes of a run

ASSUME RatesAssumption ==
  /\ IsFiniteSet(Requests) /\ TTL \in Nat \ {0} /\ Delay \in Nat /\ MaxWrites \in Nat \ {0}

VARIABLES
  content,    \* the rate of every row
  active,     \* rows with isActive set
  written,    \* number of writes so far
  req,        \* the requests
  service,    \* the service whose cache is followed
  cache,      \* its currentRateCache and cacheExpiry
  reader,     \* the readers
  outdated,   \* history: rates that may not come from the cache any more
  halved,     \* history: an update of the newest rate stopped half way
  met         \* history: requests have met since one that met none set the rate

rows    == <<content, active, written>>
history == <<outdated, halved, met>>
front   == <<service, cache, reader>>
vars    == <<rows, req, front, history>>

Services == {"shared", "routes"}
Fallback == 0               \* the values of the configuration
Rates    == 0..MaxWrites
NoRow    == 0
Row      == 1..MaxWrites

\* `left` are the minutes until a cached rate expires, `waited` those since a query
\* found its rate, and `age` is history: the minutes since the rate was in force.
Idle  == [pc |-> "idle", row |-> NoRow, held |-> {}, alone |-> TRUE]
Ready == [pc |-> "ready", rate |-> Fallback, waited |-> 0, age |-> 0]
Empty == [rate |-> Fallback, left |-> 0, age |-> 0]

Rows   == {i \in Row : content[i] # Fallback}
Newest == CHOOSE i \in active : \A j \in active : j <= i

\* What getCurrentRate finds in the database.
Current == IF active = {} THEN Fallback ELSE content[Newest]

\* A freshly seeded database has one rate, an empty one has none.
Init ==
  /\ \E seed \in 0..1 :
       /\ content = [i \in Row |-> IF i = seed THEN seed ELSE Fallback]
       /\ active = {i \in Row : i = seed}
       /\ written = seed
  /\ req = [r \in Requests |-> Idle]
  /\ service \in Services
  /\ cache = Empty
  /\ reader = [d \in Readers |-> Ready]
  /\ outdated = {}
  /\ halved = FALSE
  /\ met = FALSE

-----------------------------------------------------------------------------
(* Requests.                                                               *)

\* Requests whose changes of `active` are under way.
Changing == {r \in Requests : req[r].pc \notin {"idle", "clear"}}
Halfway  == {r \in Requests : req[r].pc = "add"}

Begin(r, q) ==
  /\ req[r].pc = "idle"
  /\ req' = [s \in Requests |-> IF s = r THEN [q EXCEPT !.alone = Changing = {}]
                                ELSE [req[s] EXCEPT !.alone = req[s].alone /\ s \notin Changing]]
  /\ met' = (met \/ Changing # {})

Move(r, q)  == req' = [req EXCEPT ![r] = q]
Ends(r, pc) == Move(r, [Idle EXCEPT !.pc = pc])

\* A row that an open transaction has changed: other updates of it wait.
Locked(i) == \E s \in Requests : req[s].pc = "commit" /\ i \in req[s].held

\* A rate that is in force again may be answered again.
InForce == outdated' = outdated \ {Current'}

\* EnergyRateRepository.create, a transaction.  updateMany sees the rows that are
\* active when it starts, ...
CreateStart(r) ==
  /\ Begin(r, [Idle EXCEPT !.pc = "locks", !.held = active])
  /\ UNCHANGED <<rows, front, outdated, halved>>

\* ... waits for those another transaction has changed, and deactivates what is
\* still active of them; the row inserted next gets its createdAt, ...
CreateInsert(r) ==
  /\ req[r].pc = "locks"
  /\ ~ \E i \in req[r].held : Locked(i)
  /\ written < MaxWrites
  /\ written' = written + 1
  /\ Move(r, [req[r] EXCEPT !.pc = "commit", !.row = written + 1, !.held = @ \cap active])
  /\ UNCHANGED <<content, active, front, history>>

\* ... and the commit shows all of it.  Then createRate clears its cache.
DeactivatedNone(r) == {}
DeactivatedAll(r) == active
Deactivated(r) == req[r].held
AfterWrite(isActive) == IF isActive THEN "clear" ELSE "idle"

CreateCommit(r) ==
  /\ req[r].pc = "commit"
  /\ content' = [content EXCEPT ![req[r].row] = req[r].row]
  /\ active' = (active \ Deactivated(r)) \cup {req[r].row}
  /\ Ends(r, AfterWrite(TRUE))
  /\ InForce
  /\ halved' = (halved /\ \E i \in Rows : i > req[r].row)
  /\ met' = (met /\ ~req[r].alone)
  /\ UNCHANGED <<written, front>>

\* updateRate: one statement on one row, and the cache only if it is active.
UpdateRate(r, i) ==
  /\ req[r].pc = "idle"
  /\ i \in Rows /\ ~Locked(i)
  /\ written < MaxWrites
  /\ written' = written + 1
  /\ content' = [content EXCEPT ![i] = written + 1]
  /\ Ends(r, AfterWrite(i \in active))
  /\ UNCHANGED <<active, front, halved, met>>
  /\ InForce

\* From here on no rate that is out of force may come from the cache, except through
\* a query that was answered before.
Forget == outdated' = Rates \ ({Current} \cup {reader[d].rate : d \in Readers})

\* createRate and updateRate end: clearCache, on the service of the routes.
ClearsOther(s) == s = "shared"
Clears(s) == s = "routes"

Clear(r) ==
  /\ req[r].pc = "clear"
  /\ cache' = IF Clears(service) THEN Empty ELSE cache
  /\ IF service = "routes" THEN Forget ELSE UNCHANGED outdated
  /\ Move(r, Idle)
  /\ UNCHANGED <<rows, service, reader, halved, met>>

\* updateThresholds and updateFullRate of the admin controller: the rate in force
\* is read; without one updateThresholds adds a first row, the other answers 404.
AdminLook(r) ==
  /\ IF active = {} THEN Begin(r, [Idle EXCEPT !.pc = "addFirst"])
     ELSE Begin(r, [Idle EXCEPT !.pc = "deactivate", !.row = Newest])
  /\ UNCHANGED <<rows, front, outdated, halved>>

AdminDeactivate(r) ==
  /\ req[r].pc = "deactivate"
  /\ ~Locked(req[r].row)
  /\ active' = active \ {req[r].row}
  /\ Move(r, [req[r] EXCEPT !.pc = "add", !.row = NoRow])
  /\ UNCHANGED <<content, written, front, halved, met>>
  /\ InForce

\* The new row; no cache is cleared.
AdminAdd(r) ==
  /\ req[r].pc \in {"add", "addFirst"}
  /\ written < MaxWrites
  /\ written' = written + 1
  /\ content' = [content EXCEPT ![written + 1] = written + 1]
  /\ active' = active \cup {written + 1}
  /\ Move(r, Idle)
  /\ InForce
  /\ halved' = FALSE
  /\ UNCHANGED <<front, met>>

\* A statement fails: a transaction is rolled back, other statements stay.
Fail(r) ==
  /\ req[r].pc \notin {"idle", "clear"}
  /\ Move(r, Idle)
  /\ halved' = (halved \/ r \in Halfway)
  /\ UNCHANGED <<rows, front, outdated, met>>

\* refreshPrices clears the cache that everybody else reads.
Refresh ==
  /\ service = "shared"
  /\ cache' = Empty
  /\ Forget
  /\ UNCHANGED <<rows, req, service, reader, halved, met>>

\* The process is started again.
Restart ==
  /\ cache' = Empty
  /\ req' = [r \in Requests |-> Idle]
  /\ reader' = [d \in Readers |-> Ready]
  /\ halved' = (halved \/ Halfway # {})
  /\ UNCHANGED <<rows, service, outdated, met>>

-----------------------------------------------------------------------------
(* getCurrentRate.                                                         *)

\* A valid entry is answered without a query, which changes nothing.
Valid == cache.left > 0

Miss(d) ==
  /\ reader[d].pc = "ready"
  /\ ~Valid
  /\ reader' = [reader EXCEPT ![d].pc = "query"]
  /\ UNCHANGED <<rows, req, service, cache, history>>

Query(d) ==
  /\ reader[d].pc = "query"
  /\ reader' = [reader EXCEPT ![d].pc = "store", ![d].rate = Current]
  /\ UNCHANGED <<rows, req, service, cache, history>>

\* The rate found, or the configured one, is kept and answered.
Store(d) ==
  /\ reader[d].pc = "store"
  /\ cache' = [rate |-> reader[d].rate, left |-> TTL, age |-> reader[d].age]
  /\ reader' = [reader EXCEPT ![d] = Ready]
  /\ UNCHANGED <<rows, req, service, history>>

\* The query fails, and so does the call.
QueryFails(d) ==
  /\ reader[d].pc = "query"
  /\ reader' = [reader EXCEPT ![d] = Ready]
  /\ UNCHANGED <<rows, req, service, cache, history>>

\* A minute passes, for an entry, for a query and for the rate they hold.
Older(x, n) == IF x = Current THEN 0 ELSE n + 1
ElapsedNever(e) == [e EXCEPT !.age = Older(e.rate, e.age)]
ElapsedUnchecked(e) == [rate |-> e.rate, left |-> e.left - 1, age |-> Older(e.rate, e.age)]
Elapsed(e) == IF e.left <= 1 THEN Empty
              ELSE [rate |-> e.rate, left |-> e.left - 1, age |-> Older(e.rate, e.age)]

Minute ==
  /\ \A d \in Readers : reader[d].pc = "store" => reader[d].waited < Delay
  /\ cache' = Elapsed(cache)
  /\ reader' = [d \in Readers |->
       IF reader[d].pc # "store" THEN reader[d]
       ELSE [reader[d] EXCEPT !.waited = @ + 1, !.age = Older(reader[d].rate, @)]]
  /\ UNCHANGED <<rows, req, service, history>>

Next ==
  \/ \E r \in Requests :
       \/ CreateStart(r) \/ CreateInsert(r) \/ CreateCommit(r) \/ Clear(r)
       \/ \E i \in Row : UpdateRate(r, i)
       \/ AdminLook(r) \/ AdminDeactivate(r) \/ AdminAdd(r) \/ Fail(r)
  \/ Refresh \/ Restart \/ Minute
  \/ \E d \in Readers :
       \/ Miss(d) \/ Query(d) \/ Store(d) \/ QueryFails(d)

Spec == Init /\ [][Next]_vars

-----------------------------------------------------------------------------
(* Properties.                                                             *)

Request == [pc : {"idle", "locks", "commit", "clear", "deactivate", "add", "addFirst"},
            row : Row \cup {NoRow}, held : SUBSET Row, alone : BOOLEAN]
Reader  == [pc : {"ready", "query", "store"}, rate : Rates, waited : 0..Delay, age : Nat]

TypeOK ==
  /\ content \in [Row -> Rates]
  /\ active \subseteq Rows
  /\ written \in 0..MaxWrites
  /\ req \in [Requests -> Request]
  /\ service \in Services
  /\ cache \in [rate : Rates, left : 0..TTL, age : Nat]
  /\ reader \in [Readers -> Reader]
  /\ outdated \subseteq Rates
  /\ halved \in BOOLEAN
  /\ met \in BOOLEAN

\* A caller of getCurrentRate is told a rate that was in force, or the configured
\* one when none was, within the last TTL minutes and the time its query took:
\* also where a slow query stores an old rate over a newer one.
AnswersFresh ==
  /\ Valid => cache.age <= TTL + Delay
  /\ \A d \in Readers : reader[d].pc = "store" => reader[d].age <= Delay

\* When createRate or updateRate of the rate in force has answered, and after
\* refreshPrices, its own service no longer answers a rate replaced before, except
\* one that a query under way had already read.
ClearTakesHold == Valid => cache.rate \notin outdated

\* The row inserted last is active, and so in force, whoever inserted it and whatever
\* overlapped, unless an admin update stands between its two statements or failed
\* there.
NewestInForce ==
  ~halved /\ Halfway = {} => \A i \in Rows : (\A j \in Rows : j <= i) => i \in active

\* A second active row, which a later admin update leaves behind, comes only from
\* requests that met; the next createRate that meets none removes it.
OneActive == ~met => \A i, j \in active : i = j
=============================================================================
