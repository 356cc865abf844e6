---------------------------- MODULE EnergyUpkeep ----------------------------
(***************************************************************************)
(* The energy of an address that bought transactions (V1 deposits).  The   *)
(* row user_energy_states says how many transactions are left; four actors *)
(* change it and none locks it:                                            *)
(*   - the monitor (energy-monitor-simplified.service.ts) fines idle       *)
(*     addresses, refills low ones and charges what was used;              *)
(*   - usage trackers (transaction-usage-tracker.service.ts) charge USDT   *)
(*     transfers they find; cron starts one every 45 s, ended or not;      *)
(*   - the final reclaim (final-energy-reclaim.service.ts) takes the       *)
(*     energy back when nothing is left;                                   *)
(*   - recharges (deposit.service.ts) and administrators.                  *)
(* One action per statement or remote call between which others may run.   *)
(* A timestamp used as the start of a search is the number of transfers    *)
(* made before it; one used for its age is that age, up to Day.            *)
(***************************************************************************)
EXTENDS Integers, Sequences, FiniteSets, Functions

CONSTANTS
  Addresses,      \* TRON addresses
  Trackers,       \* runs of the usage tracker that may be under way together
  Amounts,        \* transactions a deposit may buy
  MaxDeliveries,  \* bound: deposits per address
  MaxTransfers,   \* bound: USDT transfers per address
  MaxHalfDays,    \* bound: half days that pass
  SetCounts,      \* counts an administrator may write
  Audits,         \* whether administrators have a count audited
  OtherUse,       \* whether energy is also spent on other contract calls
  Incidents,      \* bound: failures, refused reclaims, restarts, administrators' edits
  Overlap         \* FALSE: every run, request and edit waits for the others

ASSUME UpkeepAssumption ==
  /\ Amounts \subseteq Nat \ {0}
  /\ SetCounts \subseteq Nat
  /\ MaxTransfers \in Nat
  /\ Incidents \in Nat
  /\ "monitor" \notin Trackers
  /\ {Audits, OtherUse, Overlap} \subseteq BOOLEAN

Day   == 2        \* INACTIVITY_PENALTY_HOURS, in half days
Never == -1       \* a timestamp that is NULL
Full  == 2        \* DELEGATION_AMOUNT covers two transfers

Lesser(m, n)  == IF m < n THEN m ELSE n
Difference(m, n) == m - n
Reduced(m, n) == IF m > n THEN m - n ELSE 0      \* Math.max(0, m - n)
Workers       == Trackers \cup {"monitor"}

VARIABLES
  row,         \* user_energy_states, by address
  deliveries,  \* energy_deliveries, by address, oldest first
  monitor,     \* the monitor's run
  tracker,     \* the trackers' runs
  handing,     \* what a worker still has to book on deliveries it has read
  final,       \* the final reclaim's run
  resume,      \* an administrator's resume request
  delegated,   \* addresses that hold energy of ours
  energy,      \* transfers the energy of an address still covers
  made,        \* USDT transfers an address has sent
  bought,      \* history: transactions bought for an address
  highest,     \* history: the highest count an administrator has written
  halfDays,
  incidents,   \* how many may still happen
  refused      \* history: addresses a reclaim left energy of ours

rows  == <<row, deliveries, bought, highest>>
chain == <<delegated, energy, made>>
vars  == <<rows, chain, monitor, tracker, handing, final, resume, halfDays, incidents, refused>>

Marks == Never .. MaxTransfers
Ages  == Never .. Day

\* A row nothing was bought for yet.
NoRow == [status |-> "NONE", remaining |-> 0, finalDone |-> FALSE, checked |-> Never,
          delegationAge |-> Never, penaltyAge |-> Never, penalties |-> 0, resting |-> FALSE]

MonitorIdle == [pc |-> "idle", list |-> [a \in Addresses |-> 0], todo |-> {}, adjust |-> {},
                fined |-> {}, cur |-> "none", level |-> 0, use |-> 0]
TrackerIdle == [pc |-> "idle", list |-> [a \in Addresses |-> 0],
                marks |-> [a \in Addresses |-> Never], todo |-> {}, cur |-> "none",
                use |-> 0, upTo |-> 0]
NoHanding   == [left |-> 0, copy |-> <<>>]
FinalIdle   == [pc |-> "idle", todo |-> {}, cur |-> "none"]
ResumeIdle  == [pc |-> "idle", cur |-> "none", ids |-> {}]

Init ==
  /\ row = [a \in Addresses |-> NoRow]
  /\ deliveries = [a \in Addresses |-> <<>>]
  /\ monitor = MonitorIdle
  /\ tracker = [t \in Trackers |-> TrackerIdle]
  /\ handing = [w \in Workers |-> NoHanding]
  /\ final = FinalIdle
  /\ resume = ResumeIdle
  /\ delegated = {}
  /\ energy = [a \in Addresses |-> 0]
  /\ made = [a \in Addresses |-> 0]
  /\ bought = [a \in Addresses |-> 0]
  /\ highest = [a \in Addresses |-> 0]
  /\ halfDays = 0
  /\ incidents = Incidents
  /\ refused = {}

Listed(a)  == row[a].status = "ACTIVE" /\ row[a].remaining > 0
AllIdle    == /\ monitor.pc = "idle" /\ final.pc = "idle" /\ resume.pc = "idle"
              /\ \A t \in Trackers : tracker[t].pc = "idle"
MayStart   == Overlap \/ AllIdle

\* The row of `a` is written.
Put(a, r) == row' = [row EXCEPT ![a] = r]

Incident == incidents > 0 /\ incidents' = incidents - 1
Quiet    == UNCHANGED <<incidents, refused>>

\* A statement or a remote call fails; nothing it would have written is.
Fault == Incident /\ UNCHANGED refused

\* A reclaim returns without an error, but some of our energy stays.
Refusal(a) == Incident /\ a \in delegated /\ refused' = refused \cup {a}

-----------------------------------------------------------------------------
(* Recharges, administrators, the owner of the address, time.              *)

CreditedOnly(r, n) == [r EXCEPT !.remaining = @ + n, !.status = "ACTIVE"]
Credited(r, n) == [r EXCEPT !.remaining = @ + n, !.status = "ACTIVE", !.finalDone = FALSE]

\* processConfirmedDeposit: delivery and row change in one transaction.
Recharge(a, n) ==
  /\ MayStart
  /\ Len(deliveries[a]) < MaxDeliveries
  /\ deliveries' = [deliveries EXCEPT ![a] =
       Append(@, [total |-> n, delivered |-> 0, active |-> TRUE])]
  /\ Put(a, Credited(row[a], n))
  /\ bought' = [bought EXCEPT ![a] = @ + n]
  /\ UNCHANGED <<highest, chain, monitor, tracker, handing, final, resume, halfDays>> /\ Quiet

\* suspendAddressEnergy: one transaction.
Suspend(a) ==
  /\ MayStart
  /\ row[a].status # "NONE"
  /\ Fault
  /\ Put(a, [row[a] EXCEPT !.status = "SUSPENDED"])
  /\ deliveries' = [deliveries EXCEPT ![a] =
       [i \in DOMAIN @ |-> [@[i] EXCEPT !.active = FALSE]]]
  /\ UNCHANGED <<bought, highest, chain, monitor, tracker, handing, final, resume, halfDays>>

Open(d) == d.delivered < d.total

\* resumeAddressEnergy: the inactive deliveries are read, those still open are
\* then activated by id; the row locked meanwhile becomes ACTIVE at the end.
ResumeRead(a) ==
  /\ MayStart
  /\ resume.pc = "idle"
  /\ row[a].status = "SUSPENDED"
  /\ resume' = [pc |-> "write", cur |-> a,
                ids |-> {i \in DOMAIN deliveries[a] : ~deliveries[a][i].active /\ Open(deliveries[a][i])}]
  /\ UNCHANGED <<rows, chain, monitor, tracker, handing, final, halfDays>> /\ Quiet

ResumedAndRefunded(r) == [r EXCEPT !.status = "ACTIVE", !.remaining = @ + Cardinality(resume.ids)]
Resumed(r) == [r EXCEPT !.status = "ACTIVE"]

ResumeWrite ==
  /\ resume.pc = "write"
  /\ LET a == resume.cur IN
     /\ Put(a, Resumed(row[a]))
     /\ deliveries' = [deliveries EXCEPT ![a] =
          [i \in DOMAIN @ |-> IF i \in resume.ids THEN [@[i] EXCEPT !.active = TRUE] ELSE @[i]]]
  /\ resume' = ResumeIdle
  /\ UNCHANGED <<bought, highest, chain, monitor, tracker, handing, final, halfDays>> /\ Quiet

\* setAddressTransactions, adjustTransactionCount: neither the deliveries nor
\* the flag of the final reclaim changes.  Only the second stamps lastActionAt.
SetCount(a, n) ==
  /\ MayStart
  /\ row[a].status # "NONE"
  /\ Fault
  /\ \E stamps \in BOOLEAN :
       Put(a, [row[a] EXCEPT !.remaining = n, !.resting = stamps \/ @])
  /\ highest' = [highest EXCEPT ![a] = IF n > @ THEN n ELSE @]
  /\ UNCHANGED <<deliveries, bought, chain, monitor, tracker, handing, final, resume, halfDays>>

\* The owner sends USDT, with our energy or with TRX of its own.
Transfer(a) ==
  /\ made[a] < MaxTransfers
  /\ made' = [made EXCEPT ![a] = @ + 1]
  /\ energy' = [energy EXCEPT ![a] = Reduced(@, 1)]
  /\ UNCHANGED <<rows, delegated, monitor, tracker, handing, final, resume, halfDays>> /\ Quiet

\* The owner spends energy on something that is no USDT transfer.
SpendElsewhere(a) ==
  /\ OtherUse
  /\ energy[a] > 0
  /\ energy' = [energy EXCEPT ![a] = @ - 1]
  /\ UNCHANGED <<rows, delegated, made, monitor, tracker, handing, final, resume, halfDays>> /\ Quiet

\* The cooldown of a minute is over.
MinutesPass ==
  /\ \E a \in Addresses : row[a].resting
  /\ row' = [a \in Addresses |-> [row[a] EXCEPT !.resting = FALSE]]
  /\ UNCHANGED <<deliveries, bought, highest, chain, monitor, tracker, handing, final, resume, halfDays>> /\ Quiet

Older(age) == IF age = Never THEN Never ELSE Lesser(age + 1, Day)

HalfDayPasses ==
  /\ halfDays < MaxHalfDays
  /\ halfDays' = halfDays + 1
  /\ row' = [a \in Addresses |-> [row[a] EXCEPT !.resting = FALSE,
               !.delegationAge = Older(@), !.penaltyAge = Older(@)]]
  /\ UNCHANGED <<deliveries, bought, highest, chain, monitor, tracker, handing, final, resume>> /\ Quiet

\* Runs and requests end where they are; what they committed stays.
Restart ==
  /\ ~AllIdle
  /\ Fault
  /\ monitor' = MonitorIdle
  /\ tracker' = [t \in Trackers |-> TrackerIdle]
  /\ handing' = [w \in Workers |-> NoHanding]
  /\ final' = FinalIdle
  /\ resume' = ResumeIdle
  /\ UNCHANGED <<rows, chain, halfDays>>

-----------------------------------------------------------------------------
(* Booking used transactions on the deliveries: updateEnergyDeliveryRecords *)
(* and the second half of decrementTransactionCount.                       *)

ActiveDeliveries(a) == {i \in DOMAIN deliveries[a] : deliveries[a][i].active}

Handing(n, copy) == IF n = 0 \/ DOMAIN copy = {} THEN NoHanding ELSE [left |-> n, copy |-> copy]
Booked(w)        == handing[w] = NoHanding

\* Take `n` transactions of the deliveries read here, the oldest first.
BookFrom(w, a, n) ==
  handing' = [handing EXCEPT ![w] =
    Handing(n, [i \in ActiveDeliveries(a) |-> deliveries[a][i].delivered])]

\* What one delivery takes of the transactions left to book.
ShareUncapped(left, total, copy) == left
ShareWhole(left, total, copy) == total - copy
Share(left, total, copy) == Lesser(left, total - copy)

Taken(d, delivered) == [d EXCEPT !.delivered = delivered, !.active = delivered < d.total]

\* One delivery, the oldest not yet visited, is written from the value read:
\* an absolute count.
BookOne(w, a) ==
  \E i \in DOMAIN handing[w].copy :
    LET h == handing[w]
        k == Share(h.left, deliveries[a][i].total, h.copy[i]) IN
    /\ \A j \in DOMAIN h.copy : i <= j
    /\ deliveries' = IF k > 0
         THEN [deliveries EXCEPT ![a] = [@ EXCEPT ![i] = Taken(deliveries[a][i], h.copy[i] + k)]]
         ELSE deliveries
    /\ handing' = [handing EXCEPT ![w] =
         Handing(h.left - k, [j \in DOMAIN h.copy \ {i} |-> h.copy[j]])]

-----------------------------------------------------------------------------
(* The usage tracker.                                                      *)

TrackerUnchanged == UNCHANGED <<bought, highest, chain, monitor, final, resume, halfDays>>

\* Between two addresses of the list.
Looping(list, marks, todo) ==
  [pc |-> "loop", list |-> list, marks |-> marks, todo |-> todo, cur |-> "none", use |-> 0, upTo |-> 0]

\* checkAllAddresses: the list, with the counts and marks read here.
TrackerStart(t) ==
  /\ MayStart
  /\ tracker[t].pc = "idle"
  /\ \E a \in Addresses : Listed(a)
  /\ tracker' = [tracker EXCEPT ![t] =
       Looping([a \in Addresses |-> IF Listed(a) THEN row[a].remaining ELSE 0],
               [a \in Addresses |-> IF Listed(a) THEN row[a].checked ELSE Never],
               {a \in Addresses : Listed(a)})]
  /\ UNCHANGED <<row, deliveries, handing>> /\ Quiet
  /\ TrackerUnchanged

\* The next address of the list, or the end of the run.
TrackerNext(t) ==
  IF tracker[t].todo = {} THEN TrackerIdle
  ELSE Looping(tracker[t].list, tracker[t].marks, tracker[t].todo)

\* Where a search starts that has no mark: an hour ago, wherever that is.
Since(a, mark) == IF mark = Never THEN 0 .. made[a] ELSE {mark}

\* checkAddressTransactions: the transfers since the mark the list holds.
TrackerFetch(t, a) ==
  /\ tracker[t].pc = "loop"
  /\ a \in tracker[t].todo
  /\ LET s == tracker[t]
         rest == s.todo \ {a} IN
     \/ /\ \E k \in Since(a, s.marks[a]) :
             tracker' = [tracker EXCEPT ![t] =
               [pc |-> IF made[a] > k THEN "charge" ELSE "stamp", list |-> s.list,
                marks |-> s.marks, todo |-> rest, cur |-> a, use |-> made[a] - k, upTo |-> made[a]]]
        /\ Quiet
     \/ /\ Fault
        /\ tracker' = [tracker EXCEPT ![t] =
             IF rest = {} THEN TrackerIdle ELSE Looping(s.list, s.marks, rest)]
  /\ UNCHANGED <<row, deliveries, handing>>
  /\ TrackerUnchanged

\* checkAddressUsage, for an administrator: every transfer ever found counts,
\* and no mark is set afterwards (upTo = Never).
Audit(t, a) ==
  /\ Audits
  /\ MayStart
  /\ tracker[t].pc = "idle"
  /\ made[a] > 0 /\ row[a].remaining > 0
  /\ tracker' = [tracker EXCEPT ![t] =
       [pc |-> "charge", list |-> [b \in Addresses |-> IF b = a THEN row[a].remaining ELSE 0],
        marks |-> TrackerIdle.marks, todo |-> {}, cur |-> a, use |-> made[a], upTo |-> Never]]
  /\ UNCHANGED <<row, deliveries, handing>> /\ Quiet
  /\ TrackerUnchanged

\* What follows decrementTransactionCount, which swallows its errors.
TrackerCharged(t) ==
  IF tracker[t].upTo = Never THEN TrackerIdle ELSE [tracker[t] EXCEPT !.pc = "stamp"]

\* decrementTransactionCount: an absolute count, from the count in the list.
TrackerCharge(t) ==
  /\ tracker[t].pc = "charge"
  /\ LET a == tracker[t].cur IN
     \/ /\ Put(a, [row[a] EXCEPT !.remaining = Reduced(tracker[t].list[a], tracker[t].use),
                                 !.delegationAge = 0, !.resting = TRUE])
        /\ tracker' = [tracker EXCEPT ![t] = [@ EXCEPT !.pc = "read"]]
        /\ Quiet
     \/ /\ Fault
        /\ tracker' = [tracker EXCEPT ![t] = TrackerCharged(t)]
        /\ UNCHANGED row
  /\ UNCHANGED <<deliveries, handing>>
  /\ TrackerUnchanged

TrackerRead(t) ==
  /\ tracker[t].pc = "read"
  /\ LET a == tracker[t].cur IN
     \/ /\ BookFrom(t, a, Lesser(tracker[t].use, tracker[t].list[a]))
        /\ tracker' = [tracker EXCEPT ![t] =
             IF Booked(t)' THEN TrackerCharged(t) ELSE [@ EXCEPT !.pc = "book"]]
        /\ Quiet
     \/ /\ Fault
        /\ tracker' = [tracker EXCEPT ![t] = TrackerCharged(t)]
        /\ UNCHANGED handing
  /\ UNCHANGED <<row, deliveries>>
  /\ TrackerUnchanged

TrackerBook(t) ==
  /\ tracker[t].pc = "book"
  /\ \/ /\ BookOne(t, tracker[t].cur)
        /\ tracker' = [tracker EXCEPT ![t] = IF Booked(t)' THEN TrackerCharged(t) ELSE @]
        /\ Quiet
     \/ /\ Fault
        /\ tracker' = [tracker EXCEPT ![t] = TrackerCharged(t)]
        /\ handing' = [handing EXCEPT ![t] = NoHanding]
        /\ UNCHANGED deliveries
  /\ UNCHANGED row
  /\ TrackerUnchanged

\* lastTxCheckTimestamp becomes the time of the search.
TrackerStamp(t) ==
  /\ tracker[t].pc = "stamp"
  /\ \/ /\ Put(tracker[t].cur, [row[tracker[t].cur] EXCEPT !.checked = tracker[t].upTo])
        /\ Quiet
     \/ Fault /\ UNCHANGED row
  /\ tracker' = [tracker EXCEPT ![t] = TrackerNext(t)]
  /\ UNCHANGED <<deliveries, handing>>
  /\ TrackerUnchanged

-----------------------------------------------------------------------------
(* The monitor.                                                            *)

MonitorUnchanged == UNCHANGED <<bought, highest, made, tracker, final, resume, halfDays>>

\* runCycle: one run at a time; the counts it will write from are read here.
MonitorStart ==
  /\ MayStart
  /\ monitor.pc = "idle"
  /\ \E a \in Addresses : Listed(a)
  /\ monitor' = [MonitorIdle EXCEPT
       !.pc = "check",
       !.list = [a \in Addresses |-> IF Listed(a) THEN row[a].remaining ELSE 0],
       !.todo = {a \in Addresses : Listed(a)}]
  /\ UNCHANGED <<row, deliveries, handing, delegated, energy>> /\ Quiet
  /\ MonitorUnchanged

\* Idle for a day, and not fined for a day.
PenaltyDueWhenIdle(r) == r.delegationAge = Day /\ r.remaining > 0
PenaltyDue(r) ==
  /\ r.delegationAge = Day
  /\ r.remaining > 0
  /\ r.penaltyAge \in {Never, Day}

\* After the last address of the list, the delegations are fetched.
Checked(a) == [monitor EXCEPT !.todo = @ \ {a}, !.cur = "none", !.use = 0,
                              !.pc = IF monitor.todo \ {a} = {} THEN "fetch" ELSE "check"]

\* Its energy is read: an address that is low has to be refilled.
Measured(a) == [Checked(a) EXCEPT !.adjust = IF energy[a] < Full THEN @ \cup {a} ELSE @]

\* The row is read again, but not its status.
MonitorCheck(a) ==
  /\ monitor.pc = "check"
  /\ a \in monitor.todo
  /\ \/ /\ PenaltyDue(row[a])
        /\ monitor' = [monitor EXCEPT !.pc = "fine", !.cur = a, !.use = row[a].remaining]
        /\ Quiet
     \/ /\ ~PenaltyDue(row[a])
        /\ monitor' = IF row[a].resting THEN Checked(a) ELSE Measured(a)
        /\ Quiet
     \/ Fault /\ monitor' = Checked(a)
  /\ UNCHANGED <<row, deliveries, handing, delegated, energy>>
  /\ MonitorUnchanged

\* applyInactivityPenalty writes the row, then its logs; if either fails the
\* address is treated as not fined.
MonitorFine ==
  /\ monitor.pc = "fine"
  /\ LET a == monitor.cur
         fine == Put(a, [row[a] EXCEPT !.remaining = Reduced(monitor.use, 1),
                           !.penaltyAge = 0, !.penalties = @ + 1, !.resting = TRUE]) IN
     \/ /\ fine
        /\ monitor' = [Checked(a) EXCEPT !.adjust = @ \cup {a}, !.fined = @ \cup {a}]
        /\ Quiet
     \/ /\ Fault
        /\ fine \/ UNCHANGED row
        /\ monitor' \in {Measured(a), Checked(a)}
  /\ UNCHANGED <<deliveries, handing, delegated, energy>>
  /\ MonitorUnchanged

\* The end of a run that failed: isRunning is reset all the same.
AbortedStillRunning == [MonitorIdle EXCEPT !.pc = "running"]
Aborted == MonitorIdle

\* The list of delegations; without it nothing is adjusted.
MonitorFetch ==
  /\ monitor.pc = "fetch"
  /\ \/ /\ monitor' = IF monitor.adjust = {} THEN MonitorIdle ELSE [monitor EXCEPT !.pc = "adjust"]
        /\ Quiet
     \/ Fault /\ monitor' = Aborted
  /\ UNCHANGED <<row, deliveries, handing, delegated, energy>>
  /\ MonitorUnchanged

\* reclaimAllEnergyFromAddress: what we delegated is taken back.
Reclaimed(a) ==
  /\ delegated' = delegated \ {a}
  /\ energy' = IF a \in delegated THEN [energy EXCEPT ![a] = 0] ELSE energy

\* Where the reclaim fails the run goes on.
MonitorReclaim(a) ==
  /\ monitor.pc = "adjust"
  /\ a \in monitor.adjust
  /\ monitor' = [monitor EXCEPT !.pc = "delegate", !.adjust = @ \ {a}, !.cur = a, !.level = energy[a]]
  /\ \/ Reclaimed(a) /\ Quiet
     \/ (Refusal(a) \/ Fault) /\ UNCHANGED <<delegated, energy>>
  /\ UNCHANGED <<row, deliveries, handing>>
  /\ MonitorUnchanged

\* The next address to adjust, or the end of the run.
MonitorNext ==
  IF monitor.adjust = {} THEN MonitorIdle
  ELSE [monitor EXCEPT !.pc = "adjust", !.cur = "none", !.level = 0, !.use = 0]

\* An address fined in this run is charged no more than the fine.
AlwaysCounted == [monitor EXCEPT !.pc = "count"]
Delegated ==
  IF monitor.cur \in monitor.fined THEN [monitor EXCEPT !.pc = "write", !.use = 1]
  ELSE [monitor EXCEPT !.pc = "count"]

\* transferEnergyDirect; it may fail before the delegation (no energy, no
\* bandwidth, the call) or in a statement after it.
MonitorDelegate ==
  /\ monitor.pc = "delegate"
  /\ LET a == monitor.cur
         delegate == delegated' = delegated \cup {a} /\ energy' = [energy EXCEPT ![a] = Full] IN
     \/ /\ delegate
        /\ monitor' = Delegated
        /\ Quiet
     \/ /\ Fault
        /\ delegate \/ UNCHANGED <<delegated, energy>>
        /\ monitor' = MonitorNext
  /\ UNCHANGED <<row, deliveries, handing>>
  /\ MonitorUnchanged

\* What the energy says was used, when no transfer is found.
EnergyBased(level) == IF level = 0 THEN 2 ELSE 1

\* The transfers since the mark, read now; failing that, what the energy says.
MonitorCount ==
  /\ monitor.pc = "count"
  /\ LET a == monitor.cur IN
     \/ /\ \E k \in Since(a, row[a].checked) :
             monitor' = [monitor EXCEPT !.pc = "stamp", !.use = Lesser(monitor.list[a],
               IF made[a] > k THEN made[a] - k ELSE EnergyBased(monitor.level))]
        /\ Quiet
     \/ Fault /\ monitor' = [monitor EXCEPT !.pc = "write", !.use = 0]
  /\ UNCHANGED <<row, deliveries, handing, delegated, energy>>
  /\ MonitorUnchanged

\* The mark becomes the time of this statement, not of the search.
MonitorStamp ==
  /\ monitor.pc = "stamp"
  /\ \/ /\ Put(monitor.cur, [row[monitor.cur] EXCEPT !.checked = made[monitor.cur]])
        /\ monitor' = [monitor EXCEPT !.pc = "write"]
        /\ Quiet
     \/ /\ Fault
        /\ monitor' = [monitor EXCEPT !.pc = "write", !.use = 0]
        /\ UNCHANGED row
  /\ UNCHANGED <<deliveries, handing, delegated, energy>>
  /\ MonitorUnchanged

\* An absolute count, from the one read when the run started.
MonitorWrite ==
  /\ monitor.pc = "write"
  /\ LET a == monitor.cur IN
     \/ /\ Put(a, [row[a] EXCEPT !.remaining = Reduced(monitor.list[a], monitor.use),
                                 !.delegationAge = 0, !.resting = TRUE])
        /\ monitor' = IF monitor.use > 0 THEN [monitor EXCEPT !.pc = "read"] ELSE MonitorNext
        /\ Quiet
     \/ Fault /\ monitor' = MonitorNext /\ UNCHANGED row
  /\ UNCHANGED <<deliveries, handing, delegated, energy>>
  /\ MonitorUnchanged

MonitorRead ==
  /\ monitor.pc = "read"
  /\ \/ /\ BookFrom("monitor", monitor.cur, monitor.use)
        /\ monitor' = IF Booked("monitor")' THEN MonitorNext ELSE [monitor EXCEPT !.pc = "book"]
        /\ Quiet
     \/ Fault /\ monitor' = MonitorNext /\ UNCHANGED handing
  /\ UNCHANGED <<row, deliveries, delegated, energy>>
  /\ MonitorUnchanged

MonitorBook ==
  /\ monitor.pc = "book"
  /\ \/ /\ BookOne("monitor", monitor.cur)
        /\ monitor' = IF Booked("monitor")' THEN MonitorNext ELSE monitor
        /\ Quiet
     \/ /\ Fault
        /\ monitor' = MonitorNext
        /\ handing' = [handing EXCEPT !["monitor"] = NoHanding]
        /\ UNCHANGED deliveries
  /\ UNCHANGED <<row, delegated, energy>>
  /\ MonitorUnchanged

-----------------------------------------------------------------------------
(* The final reclaim.                                                      *)

FinalUnchanged ==
  UNCHANGED <<deliveries, bought, highest, made, monitor, tracker, handing, resume, halfDays>>

FinalDue(a) == row[a].status = "ACTIVE" /\ row[a].remaining = 0 /\ ~row[a].finalDone

FinalStart ==
  /\ MayStart
  /\ final.pc = "idle"
  /\ \E a \in Addresses : FinalDue(a)
  /\ final' = [FinalIdle EXCEPT !.pc = "loop", !.todo = {a \in Addresses : FinalDue(a)}]
  /\ UNCHANGED <<row, delegated, energy>> /\ Quiet
  /\ FinalUnchanged

FinalNext(todo) == IF todo = {} THEN FinalIdle ELSE [FinalIdle EXCEPT !.pc = "loop", !.todo = todo]

\* An address whose reclaim threw.
MarkedAnyway(todo, a) == [pc |-> "mark", todo |-> todo, cur |-> a]
Thrown(todo, a) == FinalNext(todo)

\* processAddress: a result of zero (every attempt failed) is marked like a
\* success; only a throw leaves the address for a later run.
FinalReclaim(a) ==
  /\ final.pc = "loop"
  /\ a \in final.todo
  /\ LET rest == final.todo \ {a} IN
     \/ /\ \/ Reclaimed(a) /\ Quiet
           \/ Refusal(a) /\ UNCHANGED <<delegated, energy>>
        /\ final' = [pc |-> "mark", todo |-> rest, cur |-> a]
     \/ Fault /\ final' = Thrown(rest, a) /\ UNCHANGED <<delegated, energy>>
  /\ UNCHANGED row
  /\ FinalUnchanged

FinalMark ==
  /\ final.pc = "mark"
  /\ \/ /\ Put(final.cur, [row[final.cur] EXCEPT !.finalDone = TRUE, !.resting = TRUE])
        /\ Quiet
     \/ Fault /\ UNCHANGED row
  /\ final' = FinalNext(final.todo)
  /\ UNCHANGED <<delegated, energy>>
  /\ FinalUnchanged

-----------------------------------------------------------------------------
MonitorStep ==
  \/ \E a \in Addresses : MonitorCheck(a) \/ MonitorReclaim(a)
  \/ MonitorFine \/ MonitorFetch \/ MonitorDelegate \/ MonitorCount
  \/ MonitorStamp \/ MonitorWrite \/ MonitorRead \/ MonitorBook

TrackerStep(t) ==
  \/ \E a \in Addresses : TrackerFetch(t, a)
  \/ TrackerCharge(t) \/ TrackerRead(t) \/ TrackerBook(t) \/ TrackerStamp(t)

FinalStep == FinalMark \/ \E a \in Addresses : FinalReclaim(a)

Next ==
  \/ \E a \in Addresses :
       \/ \E n \in Amounts : Recharge(a, n)
       \/ \E n \in SetCounts : SetCount(a, n)
       \/ Suspend(a) \/ ResumeRead(a) \/ Transfer(a) \/ SpendElsewhere(a)
       \/ \E t \in Trackers : Audit(t, a)
  \/ ResumeWrite \/ MinutesPass \/ HalfDayPasses \/ Restart
  \/ MonitorStart \/ MonitorStep \/ FinalStart \/ FinalStep
  \/ \E t \in Trackers : TrackerStart(t) \/ TrackerStep(t)

Spec == Init /\ [][Next]_vars

\* A run ends, a minute passes, and cron starts the monitor and the final
\* reclaim again and again; without overlap they wait for the runs under way.
Fairness ==
  /\ WF_vars(MonitorStep) /\ WF_vars(FinalStep) /\ WF_vars(ResumeWrite)
  /\ \A t \in Trackers : WF_vars(TrackerStep(t))
  /\ WF_vars(MinutesPass)
  /\ SF_vars(MonitorStart) /\ SF_vars(FinalStart)

LiveSpec == Spec /\ Fairness

-----------------------------------------------------------------------------
(* Properties.                                                             *)

Row == [status : {"NONE", "ACTIVE", "SUSPENDED"}, remaining : Nat, finalDone : BOOLEAN,
        checked : Marks, delegationAge : Ages, penaltyAge : Ages, penalties : Nat,
        resting : BOOLEAN]

Delivery == [total : Nat, delivered : Nat, active : BOOLEAN]

MonitorRun == [pc : {"idle", "check", "fine", "fetch", "adjust", "delegate", "count",
                     "stamp", "write", "read", "book"},
               list : [Addresses -> Nat], todo : SUBSET Addresses, adjust : SUBSET Addresses,
               fined : SUBSET Addresses, cur : Addresses \cup {"none"}, level : 0 .. Full,
               use : Nat]

TrackerRun == [pc : {"idle", "loop", "charge", "read", "book", "stamp"},
               list : [Addresses -> Nat], marks : [Addresses -> Marks],
               todo : SUBSET Addresses, cur : Addresses \cup {"none"}, use : Nat, upTo : Marks]

FinalRun == [pc : {"idle", "loop", "mark"}, todo : SUBSET Addresses,
             cur : Addresses \cup {"none"}]

TypeOK ==
  /\ row \in [Addresses -> Row]
  /\ deliveries \in [Addresses -> Seq(Delivery)]
  /\ monitor \in MonitorRun
  /\ tracker \in [Trackers -> TrackerRun]
  /\ final \in FinalRun
  /\ resume \in [pc : {"idle", "write"}, cur : Addresses \cup {"none"}, ids : SUBSET Nat]
  /\ delegated \subseteq Addresses
  /\ energy \in [Addresses -> 0 .. Full]
  /\ made \in [Addresses -> 0 .. MaxTransfers]
  /\ bought \in [Addresses -> Nat]
  /\ highest \in [Addresses -> Nat]
  /\ halfDays \in Nat
  /\ incidents \in Nat
  /\ refused \subseteq Addresses

\* However runs overlap, no stale count ever leaves an address more
\* transactions than were bought for it or written by an administrator.
NeverMoreThanBought ==
  \A a \in Addresses : row[a].remaining <= bought[a] + highest[a]

\* However the workers' absolute writes interleave, no purchase is booked
\* beyond what was bought.
DeliveredWithinTotal ==
  \A a \in Addresses : \A i \in DOMAIN deliveries[a] :
    deliveries[a][i].delivered <= deliveries[a][i].total

\* An address is fined at most once for every day that has passed.
FinePerDay ==
  \A a \in Addresses : row[a].penalties * Day <= halfDays

\* What is left to deliver of the purchases for an address.
Pending(a) ==
  SumFunction([i \in DOMAIN deliveries[a] |-> deliveries[a][i].total - deliveries[a][i].delivered])

\* The count never exceeds what is left on the purchases, or what an
\* administrator wrote: the two records of one fact are written apart, but in
\* an order that errs on this side.
CountWithinDeliveries ==
  \A a \in Addresses : row[a].remaining <= Pending(a) + highest[a]

\* An address that has transactions left is not marked as finally reclaimed:
\* so marked, its energy would stay with it when they are used.  (A count written
\* by an administrator leaves the mark.)
FinalDoneMeansEmpty ==
  \A a \in Addresses : row[a].finalDone /\ highest[a] = 0 => row[a].remaining = 0

\* Only a purchase makes the count of an address grow, or an administrator:
\* no worker ever writes back a count it read before.
OnlyPurchasesRaise ==
  [][\A a \in Addresses : row'[a].remaining > row[a].remaining =>
       bought'[a] > bought[a] \/ row'[a].remaining <= highest'[a]]_vars

\* What is missing of the transactions bought was used for a transfer, or fined.
UseExplained ==
  \A a \in Addresses : bought[a] - row[a].remaining <= made[a] + row[a].penalties

\* An active address with transactions left gets its energy filled up again.
LowEnergyRefilled ==
  \A a \in Addresses :
    (Listed(a) /\ energy[a] < Full) ~> (energy[a] = Full \/ ~Listed(a))

\* An active address without transactions loses the energy it holds of ours,
\* unless a reclaim was refused, or an administrator wrote a count: the final
\* reclaim has given the address up then.
EmptyReclaimed ==
  \A a \in Addresses :
    (row[a].status = "ACTIVE" /\ row[a].remaining = 0 /\ a \in delegated) ~>
      (a \in refused \/ highest[a] > 0 \/ a \notin delegated \/ row[a].status # "ACTIVE" \/ row[a].remaining > 0)
=============================================================================
