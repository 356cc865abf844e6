---------------------------- MODULE AddressPool ----------------------------
(***************************************************************************)
(* The pool of TRON deposit addresses: the rows of table address_pool and  *)
(* the statements of AddressPoolRepository on them.  Every operator below  *)
(* is ONE database statement; the services that issue several of them with *)
(* awaits in between are the processes of module DepositIntake.            *)
(*                                                                         *)
(* Identifiers are positive naturals handed out in creation order, so that *)
(* "oldest row" is "least identifier"; 0 stands for SQL NULL everywhere.   *)
(* Time is a natural too and starts at 1.                                  *)
(***************************************************************************)
EXTENDS Naturals, FiniteSets

CONSTANTS NumAddresses,   \* rows of the pool
          NumDeposits,    \* deposits that may ever be created
          Window,         \* life of an assignment and of a deposit (3 hours)
          Cooldown        \* config.addressPool.cooldownHours

ASSUME PoolAssumption ==
  /\ NumAddresses \in Nat
  /\ NumDeposits \in Nat
  /\ Window \in Nat
  /\ Cooldown \in Nat

VARIABLES pool, now

Null == 0
Time == Nat
Addresses == 1 .. NumAddresses
Deposits == 1 .. NumDeposits

AddressStatus == {"FREE", "ASSIGNED", "USED"}

PoolRow == [status : AddressStatus,
            assignedToDepositId : Deposits \cup {Null},
            expiresAt : Time,
            lastUsedAt : Time]

FreshRow == [status |-> "FREE", assignedToDepositId |-> Null,
             expiresAt |-> Null, lastUsedAt |-> Null]

PoolTypeOK == /\ pool \in [Addresses -> PoolRow]
              /\ now \in Time

PoolInit == /\ pool = [a \in Addresses |-> FreshRow]
            /\ now = 1

(***************************************************************************)
(* Queries.                                                                *)
(***************************************************************************)
FreeAddresses == {a \in Addresses : pool[a].status = "FREE"}

\* findFirst ... orderBy createdAt asc
IsFirstFreeAddress(a) == /\ a \in FreeAddresses
                         /\ \A b \in FreeAddresses : a <= b

\* Mutant: only the oldest assigned row is fetched (a stray "take: 1").
FirstAssignedAddress ==
  {a \in Addresses : /\ pool[a].status = "ASSIGNED"
                     /\ \A b \in 1 .. (a - 1) : pool[b].status # "ASSIGNED"}

AssignedAddresses ==
  {a \in Addresses : /\ pool[a].status = "ASSIGNED"
                     /\ pool[a].assignedToDepositId # Null}

\* Mutant: the expiry of the assignment is not compared with the clock.
AnyAssignment == {a \in Addresses : pool[a].status = "ASSIGNED"}

ExpiredAssignments ==
  {a \in Addresses : /\ pool[a].status = "ASSIGNED"
                     /\ pool[a].expiresAt <= now}

(***************************************************************************)
(* Updates.  None of them looks at the status the row has when it runs:    *)
(* each is an UPDATE ... WHERE id = a.                                     *)
(***************************************************************************)
AssignRow(a, d) ==
  pool' = [pool EXCEPT ![a] = [@ EXCEPT !.status = "ASSIGNED",
                                        !.assignedToDepositId = d,
                                        !.expiresAt = now + Window]]

\* Mutant: releasing a row keeps the link to its deposit.
ReleaseRowKeepsLink(a) ==
  pool' = [pool EXCEPT ![a] = [@ EXCEPT !.status = "FREE", !.expiresAt = Null]]

ReleaseRow(a) ==
  pool' = [pool EXCEPT ![a] = [@ EXCEPT !.status = "FREE",
                                        !.assignedToDepositId = Null,
                                        !.expiresAt = Null]]

MarkRowUsed(a) ==
  pool' = [pool EXCEPT ![a] = [status |-> "USED",
                               assignedToDepositId |-> Null,
                               expiresAt |-> Null,
                               lastUsedAt |-> now]]

CooledDown(a) == /\ pool[a].status = "USED"
                 /\ pool[a].lastUsedAt + Cooldown <= now

ResetCooledDownRows ==
  pool' = [a \in Addresses |-> IF CooledDown(a)
                               THEN [pool[a] EXCEPT !.status = "FREE"]
                               ELSE pool[a]]
=============================================================================
