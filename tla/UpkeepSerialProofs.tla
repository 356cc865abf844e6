------------------------- MODULE UpkeepSerialProofs -------------------------
(***************************************************************************)
(* What holds of EnergyUpkeep when its runs do not overlap: the counter of *)
(* an address and the deliveries behind it, written apart and from numbers *)
(* read long before, stay on the right side of each other.  While a run is *)
(* under way nobody else writes, so what it has read stays true until its  *)
(* own statement about the same address.                                   *)
(***************************************************************************)
EXTENDS EnergyUpkeepProofs, SumTheorems

TrackersIdle == \A t \in Trackers : tracker[t].pc = "idle"

\* At most one run or request is under way.
OneActor ==
  /\ monitor.pc # "idle" => final.pc = "idle" /\ resume.pc = "idle" /\ TrackersIdle
  /\ final.pc # "idle" => monitor.pc = "idle" /\ resume.pc = "idle" /\ TrackersIdle
  /\ resume.pc # "idle" => monitor.pc = "idle" /\ final.pc = "idle" /\ TrackersIdle
  /\ \A t \in Trackers : tracker[t].pc # "idle" =>
       /\ monitor.pc = "idle" /\ final.pc = "idle" /\ resume.pc = "idle"
       /\ \A u \in Trackers \ {t} : tracker[u].pc = "idle"

\* What an address may have left: open on its purchases, or written for it.
Allowed(a) == Pending(a) + highest[a]

\* A count that may be written to the row of an address.
Safe(a, n) ==
  n = 0 \/ (n <= Allowed(a) /\ (row[a].finalDone => highest[a] > 0))

\* The row leaves `n` more transactions to be booked on the deliveries.
Covers(a, n) == row[a].remaining = 0 \/ row[a].remaining + n <= Allowed(a)

RowsSafe == \A a \in Addresses : Safe(a, row[a].remaining)

\* What a tracker has read may still be written.
TrackerSafe(r) ==
  r.pc # "idle" =>
    /\ \A a \in Addresses : a \in r.todo => Safe(a, r.list[a])
    /\ r.pc # "loop" => r.cur \notin r.todo
    /\ r.pc = "charge" => \A a \in Addresses : a = r.cur => Safe(a, r.list[a])
    /\ r.pc = "read" => \A a \in Addresses : a = r.cur => Covers(a, Lesser(r.use, r.list[a]))

TrackersSafe == \A t \in Trackers : TrackerSafe(tracker[t])

\* What the monitor has read may still be written.
MonitorSafe(m) ==
  m.pc # "idle" =>
    /\ \A a \in Addresses : a \in m.todo \cup m.adjust => Safe(a, m.list[a])
    /\ m.pc = "fine" => \A a \in Addresses : a = m.cur => Safe(a, m.use)
    /\ m.pc \notin {"check", "fine"} => m.todo = {}
    /\ m.pc \in {"delegate", "count", "stamp", "write", "read", "book"} => m.cur \notin m.adjust
    /\ m.pc \in {"fine", "delegate", "count", "stamp", "write"} =>
         \A a \in Addresses : a = m.cur => Safe(a, m.list[a])
    /\ m.pc = "read" => \A a \in Addresses : a = m.cur => Covers(a, m.use)

\* What the final reclaim works on is still empty.
FinalSafe(f) ==
  f.pc # "idle" =>
    /\ \A a \in f.todo : row[a].remaining = 0
    /\ f.pc = "mark" => \A a \in Addresses : a = f.cur => row[a].remaining = 0

\* A copy of deliveries is up to date, and what is left to book on it was
\* taken from the row before.
CopySafe(h, a) ==
  /\ Covers(a, h.left)
  /\ \A i \in DOMAIN h.copy : h.copy[i] = deliveries[a][i].delivered

BookSafe(w) == Booking(w) => \A a \in Addresses : a = CurOf(w) => CopySafe(handing[w], a)

BooksSafe == \A w \in Workers : BookSafe(w)

SerialInv ==
  /\ IInv /\ OneActor /\ RowsSafe /\ TrackersSafe
  /\ MonitorSafe(monitor) /\ FinalSafe(final) /\ BooksSafe

-----------------------------------------------------------------------------
(* What is open on the deliveries of an address.                           *)

OpenOn(s) == [i \in DOMAIN s |-> s[i].total - s[i].delivered]

\* What is open, as the sums that SumTheorems speaks of.
LEMMA PendingIs ==
  ASSUME NEW a \in Addresses
  PROVE  /\ Pending(a) = SumFunctionOnSet(OpenOn(deliveries[a]), DOMAIN deliveries[a])
         /\ Pending(a)' = SumFunctionOnSet(OpenOn(deliveries'[a]), DOMAIN deliveries'[a])
<1>1. \A s : DOMAIN OpenOn(s) = DOMAIN s
  BY DEF OpenOn
<1>2. \A s : SumFunction(OpenOn(s)) = SumFunctionOnSet(OpenOn(s), DOMAIN s)
  BY <1>1, Zenon DEF SumFunction
<1>3. Pending(a) = SumFunction(OpenOn(deliveries[a])) /\ Pending(a)' = SumFunction(OpenOn(deliveries'[a]))
  BY Zenon DEF Pending, OpenOn
<1> QED
  BY <1>2, <1>3, Zenon

\* Each delivery has its place, a finite number of them, and leaves something open.
LEMMA OpenType ==
  ASSUME NEW s \in Seq(Delivery), \A i \in DOMAIN s : s[i].delivered <= s[i].total
  PROVE  /\ IsFiniteSet(DOMAIN s)
         /\ \A i \in DOMAIN s : OpenOn(s)[i] \in Nat
<1>1. DOMAIN s = 1 .. Len(s) /\ Len(s) \in Nat
  OBVIOUS
<1>2. 1 \in Int /\ Len(s) \in Int
  BY <1>1
<1>3. IsFiniteSet(1 .. Len(s))
  BY <1>2, FS_Interval, Zenon
<1>4. ASSUME NEW i \in DOMAIN s PROVE OpenOn(s)[i] \in Nat
  <2>1. s[i] \in Delivery /\ OpenOn(s)[i] = s[i].total - s[i].delivered
    BY <1>4 DEF OpenOn
  <2> QED
    BY <2>1, <1>4 DEF Delivery
<1> QED
  BY <1>1, <1>3, <1>4

\* It is a number.
LEMMA PendingNat ==
  ASSUME DeliveriesGood, NEW a \in Addresses
  PROVE  Pending(a) \in Nat
<1>1. deliveries[a] \in Seq(Delivery) /\ \A i \in DOMAIN deliveries[a] :
        deliveries[a][i].delivered <= deliveries[a][i].total
  BY DEF DeliveriesGood, DeliveredWithinTotal
<1> QED
  BY <1>1, OpenType, PendingIs, SumNat, Zenon

\* Flags of deliveries do not matter.
LEMMA PendingSame ==
  ASSUME NEW a \in Addresses, DOMAIN deliveries'[a] = DOMAIN deliveries[a],
         \A i \in DOMAIN deliveries[a] :
           /\ deliveries'[a][i].total = deliveries[a][i].total
           /\ deliveries'[a][i].delivered = deliveries[a][i].delivered
  PROVE  Pending(a)' = Pending(a)
<1>1. OpenOn(deliveries'[a]) = OpenOn(deliveries[a])
  BY DEF OpenOn
<1> QED
  BY <1>1, PendingIs, Zenon

\* A purchase is open in full.
LEMMA PendingBought ==
  ASSUME DeliveriesGood, NEW a \in Addresses, NEW n \in Nat,
         deliveries'[a] = Append(deliveries[a], [total |-> n, delivered |-> 0, active |-> TRUE])
  PROVE  Pending(a)' = Pending(a) + n
<1> DEFINE s == deliveries[a]
           d == [total |-> n, delivered |-> 0, active |-> TRUE]
           z == Len(s) + 1
           u == Append(s, d)
<1>1. s \in Seq(Delivery) /\ \A i \in DOMAIN s : s[i].delivered <= s[i].total
  BY DEF DeliveriesGood, DeliveredWithinTotal
<1>2. d \in Delivery /\ d.total - d.delivered = n
  BY DEF Delivery
<1>3. /\ DOMAIN u = DOMAIN s \cup {z} /\ z \notin DOMAIN s
      /\ \A i \in DOMAIN s : u[i] = s[i]
      /\ u[z] = d /\ u \in Seq(Delivery)
  BY <1>1, <1>2
<1>4. /\ \A i \in DOMAIN s : OpenOn(u)[i] = OpenOn(s)[i]
      /\ OpenOn(u)[z] = n
  BY <1>2, <1>3 DEF OpenOn
<1> HIDE DEF u, s, z
<1>5. IsFiniteSet(DOMAIN s) /\ \A i \in DOMAIN s : OpenOn(s)[i] \in Nat
  BY <1>1, OpenType
<1>6. \A i \in DOMAIN s \cup {z} : OpenOn(u)[i] \in Int
  BY <1>4, <1>5
<1>7. SumFunctionOnSet(OpenOn(u), DOMAIN s \cup {z}) = n + SumFunctionOnSet(OpenOn(u), DOMAIN s)
  BY <1>3, <1>4, <1>5, <1>6, SumAdd, Zenon
<1>8. SumFunctionOnSet(OpenOn(u), DOMAIN s) = SumFunctionOnSet(OpenOn(s), DOMAIN s)
  BY <1>4, <1>5, SumSame, Zenon
<1>9. Pending(a) = SumFunctionOnSet(OpenOn(s), DOMAIN s)
      /\ Pending(a)' = SumFunctionOnSet(OpenOn(u), DOMAIN u)
  BY PendingIs, Zenon DEF s, u
<1>10. Pending(a) \in Nat
  BY PendingNat
<1> QED
  BY <1>3, <1>7, <1>8, <1>9, <1>10

\* Booking on one delivery closes as much.
LEMMA PendingBooked ==
  ASSUME DeliveriesGood, NEW a \in Addresses, NEW i \in DOMAIN deliveries[a], NEW k \in Nat,
         DOMAIN deliveries'[a] = DOMAIN deliveries[a],
         \A j \in DOMAIN deliveries[a] \ {i} : deliveries'[a][j] = deliveries[a][j],
         deliveries'[a][i].total = deliveries[a][i].total,
         deliveries'[a][i].delivered = deliveries[a][i].delivered + k
  PROVE  Pending(a)' = Pending(a) - k
<1> DEFINE s == deliveries[a]
           u == deliveries'[a]
           S == DOMAIN s
<1>1. s \in Seq(Delivery) /\ \A j \in S : s[j].delivered <= s[j].total
  BY DEF DeliveriesGood, DeliveredWithinTotal
<1>2. s[i] \in Delivery
  BY <1>1
<1>3. /\ \A j \in S \ {i} : OpenOn(u)[j] = OpenOn(s)[j]
      /\ OpenOn(u)[i] = OpenOn(s)[i] - k
  BY <1>2 DEF OpenOn, Delivery
<1>4. IsFiniteSet(S) /\ \A j \in S : OpenOn(s)[j] \in Nat
  BY <1>1, OpenType
<1>5. Pending(a) = SumFunctionOnSet(OpenOn(s), S) /\ Pending(a)' = SumFunctionOnSet(OpenOn(u), S)
  BY PendingIs, Zenon
<1>6. i \in S
  OBVIOUS
<1> HIDE DEF s, u, S
<1>7. \A j \in S : OpenOn(s)[j] \in Int /\ OpenOn(u)[j] \in Int
  BY <1>3, <1>4
<1>8. SumFunctionOnSet(OpenOn(u), S) = SumFunctionOnSet(OpenOn(s), S) + OpenOn(u)[i] - OpenOn(s)[i]
  <2>1. ASSUME NEW f, NEW h, \A j \in S : f[j] \in Int /\ h[j] \in Int, \A j \in S \ {i} : h[j] = f[j]
        PROVE  SumFunctionOnSet(h, S) = SumFunctionOnSet(f, S) + h[i] - f[i]
    BY <1>4, <1>6, <2>1, SumUpdate
  <2>2. \A j \in S \ {i} : OpenOn(u)[j] = OpenOn(s)[j]
    BY <1>3
  <2> QED
    BY <1>7, <2>1, <2>2, Zenon
<1>9. SumFunctionOnSet(OpenOn(s), S) \in Int
  BY <1>4, <1>7, SumInt, Zenon
<1>10. Pending(a)' = Pending(a) + OpenOn(u)[i] - OpenOn(s)[i] /\ Pending(a) \in Int
  BY <1>5, <1>8, <1>9, Zenon
<1>11. OpenOn(s)[i] \in Int /\ OpenOn(u)[i] = OpenOn(s)[i] - k
  BY <1>3, <1>6, <1>7
<1> QED
  BY <1>10, <1>11

-----------------------------------------------------------------------------
(* Frames.                                                                 *)

\* What may be written for an address does not change.
Fixed(a) == /\ Pending(a)' = Pending(a)
            /\ highest'[a] = highest[a]
            /\ row'[a].finalDone = row[a].finalDone

Untouched(a) == Fixed(a) /\ row'[a].remaining = row[a].remaining

\* An address whose deliveries and highest count stay is fixed.
LEMMA FixedSame ==
  ASSUME NEW a \in Addresses, deliveries'[a] = deliveries[a], highest'[a] = highest[a],
         row'[a].finalDone = row[a].finalDone
  PROVE  Fixed(a)
BY PendingSame DEF Fixed

\* A step after which nothing is under way.
LEMMA IdleSerial ==
  ASSUME IInv', RowsSafe', AllIdle'
  PROVE  SerialInv'
<1>1. OneActor' /\ TrackersSafe' /\ MonitorSafe(monitor)' /\ FinalSafe(final)'
  BY DEF AllIdle, OneActor, TrackersIdle, TrackersSafe, TrackerSafe, MonitorSafe, FinalSafe
<1>2. \A w \in Workers : ~Booking(w)'
  BY DEF AllIdle, Booking, Workers
<1> QED
  BY <1>1, <1>2 DEF SerialInv, BooksSafe, BookSafe

\* Nobody but tracker t is at work.
TrackerAlone(t) ==
  /\ monitor.pc = "idle" /\ final.pc = "idle" /\ resume.pc = "idle"
  /\ \A u \in Trackers \ {t} : tracker[u].pc = "idle"

\* A step of a tracker.
LEMMA TrackerSerial ==
  ASSUME IInv', NEW t \in Trackers, TrackerAlone(t),
         \A u \in Trackers \ {t} : tracker'[u] = tracker[u],
         UNCHANGED <<monitor, final, resume>>,
         RowsSafe', TrackerSafe(tracker[t])', BookSafe(t)'
  PROVE  SerialInv'
<1>1. OneActor' /\ MonitorSafe(monitor)' /\ FinalSafe(final)'
  BY DEF TrackerAlone, OneActor, TrackersIdle, MonitorSafe, FinalSafe
<1>2. TrackersSafe'
  BY DEF TrackerAlone, TrackersSafe, TrackerSafe
<1>3. \A w \in Workers \ {t} : ~Booking(w)'
  BY DEF TrackerAlone, Booking, Workers
<1> QED
  BY <1>1, <1>2, <1>3 DEF SerialInv, BooksSafe, BookSafe

\* Nobody but the monitor is at work.
MonitorAlone == final.pc = "idle" /\ resume.pc = "idle" /\ TrackersIdle

\* A step of the monitor.
LEMMA MonitorSerial ==
  ASSUME IInv', MonitorAlone, UNCHANGED <<tracker, final, resume>>,
         RowsSafe', MonitorSafe(monitor)', BookSafe("monitor")'
  PROVE  SerialInv'
<1>1. OneActor' /\ TrackersSafe' /\ FinalSafe(final)'
  BY DEF MonitorAlone, OneActor, TrackersIdle, TrackersSafe, TrackerSafe, FinalSafe
<1>2. \A w \in Workers \ {"monitor"} : ~Booking(w)'
  BY DEF MonitorAlone, TrackersIdle, Booking, Workers
<1> QED
  BY <1>1, <1>2 DEF SerialInv, BooksSafe, BookSafe

\* A step of the final reclaim, or of a resume request.
LEMMA OtherSerial ==
  ASSUME IInv', UNCHANGED <<tracker, monitor>>, monitor.pc = "idle", TrackersIdle,
         final'.pc = "idle" \/ resume'.pc = "idle", RowsSafe', FinalSafe(final)'
  PROVE  SerialInv'
<1>1. OneActor' /\ TrackersSafe' /\ MonitorSafe(monitor)'
  BY DEF OneActor, TrackersIdle, TrackersSafe, TrackerSafe, MonitorSafe
<1>2. \A w \in Workers : ~Booking(w)'
  BY DEF TrackersIdle, Booking, Workers
<1> QED
  BY <1>1, <1>2 DEF SerialInv, BooksSafe, BookSafe

\* Rows that were safe stay safe where nothing about them changes.
LEMMA RowsFixed ==
  ASSUME RowsSafe, \A a \in Addresses : Untouched(a) \/ Safe(a, row[a].remaining)'
  PROVE  RowsSafe'
BY DEF RowsSafe, Safe, Allowed, Untouched, Fixed

\* A step that concerns neither counts nor deliveries nor any run.
LEMMA RestSerial ==
  ASSUME SerialInv, IInv',
         UNCHANGED <<deliveries, highest, monitor, tracker, handing, final, resume>>,
         \A a \in Addresses : /\ row'[a].remaining = row[a].remaining
                              /\ row'[a].finalDone = row[a].finalDone
  PROVE  SerialInv'
<1>1. \A a \in Addresses : Untouched(a)
  BY FixedSame DEF Untouched
<1>2. RowsSafe'
  BY <1>1, RowsFixed DEF SerialInv
<1>4. TrackersSafe'
  BY <1>1 DEF SerialInv, TrackersSafe, TrackerSafe, Untouched, Fixed, Safe, Covers, Allowed
<1>5. MonitorSafe(monitor)'
  BY <1>1 DEF SerialInv, MonitorSafe, Untouched, Fixed, Safe, Covers, Allowed
<1>6. FinalSafe(final)'
  BY DEF SerialInv, FinalSafe, IInv, FinalGood, FinalRun
<1>7. BooksSafe'
  BY <1>1 DEF SerialInv, BooksSafe, BookSafe, CopySafe, Booking, CurOf, Untouched, Fixed, Covers, Allowed
<1>8. OneActor'
  BY DEF SerialInv, OneActor, TrackersIdle
<1> QED
  BY <1>2, <1>4, <1>5, <1>6, <1>7, <1>8 DEF SerialInv

-----------------------------------------------------------------------------
(* Recharges, administrators, the owner of the address, time.              *)

\* Who is under way alone, from the assumption of one actor.
LEMMA Alone ==
  ASSUME SerialInv, ~Overlap
  PROVE  /\ MayStart => AllIdle
         /\ monitor.pc # "idle" \/ AllIdle => MonitorAlone
         /\ \A t \in Trackers : tracker[t].pc # "idle" \/ AllIdle => TrackerAlone(t)
         /\ final.pc # "idle" \/ resume.pc # "idle" \/ AllIdle => monitor.pc = "idle" /\ TrackersIdle
         /\ final.pc # "idle" => resume.pc = "idle"
         /\ resume.pc # "idle" => final.pc = "idle"
BY DEF SerialInv, OneActor, MayStart, AllIdle, MonitorAlone, TrackerAlone, TrackersIdle

\* Types of what the invariant speaks of.
LEMMA AllowedNat ==
  ASSUME IInv, NEW a \in Addresses
  PROVE  /\ Pending(a) \in Nat /\ highest[a] \in Nat /\ Allowed(a) \in Nat
         /\ row[a] \in Row /\ row[a].remaining \in Nat
BY PendingNat DEF IInv, WorldGood, Allowed, RowsGood, RowGood, Row

\* A purchase: row and deliveries grow by the same number.
LEMMA RechargeSerial ==
  ASSUME SerialInv, IInv', ~Overlap, NEW a \in Addresses, NEW n \in Amounts, Recharge(a, n)
  PROVE  SerialInv'
<1> DEFINE r == Credited(row[a], n)
<1>1. /\ UNCHANGED <<highest, monitor, tracker, final, resume>> /\ MayStart
      /\ row' = [row EXCEPT ![a] = r]
      /\ deliveries' = [deliveries EXCEPT ![a] = Append(@, [total |-> n, delivered |-> 0, active |-> TRUE])]
      /\ n \in Nat
  BY UpkeepAssumption DEF Recharge, Put
<1>2. AllIdle'
  BY <1>1, Alone DEF AllIdle
<1>3. /\ row = [b \in Addresses |-> row[b]] /\ row[a] \in Row
      /\ DeliveriesGood /\ DOMAIN deliveries = Addresses
  BY DEF SerialInv, IInv, RowsGood, RowGood, DeliveriesGood
<1>4. r.remaining = row[a].remaining + n /\ r.finalDone = FALSE
  BY <1>3 DEF Row, Credited
<1>5. Pending(a)' = Pending(a) + n
  BY <1>1, <1>3, PendingBought
<1>6. Safe(a, row[a].remaining)'
  <2>1. row'[a].remaining = row[a].remaining + n /\ row'[a].finalDone = FALSE
    BY <1>1, <1>3, <1>4
  <2>2. Safe(a, row[a].remaining) /\ highest'[a] = highest[a]
    BY <1>1 DEF SerialInv, RowsSafe
  <2>3. Pending(a) \in Nat /\ highest[a] \in Nat /\ row[a].remaining \in Nat
    BY AllowedNat DEF SerialInv
  <2> QED
    BY <1>1, <1>5, <2>1, <2>2, <2>3 DEF Safe, Allowed
<1>7. \A b \in Addresses \ {a} : Untouched(b)
  BY <1>1, <1>3, FixedSame DEF Untouched
<1>8. RowsSafe'
  BY <1>6, <1>7, RowsFixed DEF SerialInv
<1> QED
  BY <1>2, <1>8, IdleSerial

\* Changing the flags of deliveries, or of the row, is nothing to the count.
LEMMA FlagsSerial ==
  ASSUME SerialInv, IInv', AllIdle', NEW a \in Addresses, NEW s, NEW r,
         \A i \in DOMAIN deliveries[a] :
           /\ s[i].total = deliveries[a][i].total
           /\ s[i].delivered = deliveries[a][i].delivered,
         DOMAIN s = DOMAIN deliveries[a],
         deliveries' = [deliveries EXCEPT ![a] = s],
         Put(a, r), r.remaining = row[a].remaining, r.finalDone = row[a].finalDone,
         UNCHANGED highest
  PROVE  SerialInv'
<1>1. row = [b \in Addresses |-> row[b]] /\ DOMAIN deliveries = Addresses
  BY DEF SerialInv, IInv, RowsGood, DeliveriesGood
<1>2. ASSUME NEW b \in Addresses PROVE Untouched(b)
  <2>1. row'[b].remaining = row[b].remaining /\ row'[b].finalDone = row[b].finalDone
    BY <1>1 DEF Put
  <2>2. /\ DOMAIN deliveries'[b] = DOMAIN deliveries[b]
        /\ \A i \in DOMAIN deliveries[b] :
             /\ deliveries'[b][i].total = deliveries[b][i].total
             /\ deliveries'[b][i].delivered = deliveries[b][i].delivered
    BY <1>1
  <2> QED
    BY <2>1, <2>2, PendingSame DEF Untouched, Fixed
<1>3. RowsSafe'
  BY <1>2, RowsFixed DEF SerialInv
<1> QED
  BY <1>3, IdleSerial

\* An administrator suspends an address.
LEMMA SuspendSerial ==
  ASSUME SerialInv, IInv', ~Overlap, NEW a \in Addresses, Suspend(a)
  PROVE  SerialInv'
<1> DEFINE r == [row[a] EXCEPT !.status = "SUSPENDED"]
           s == [i \in DOMAIN deliveries[a] |-> [deliveries[a][i] EXCEPT !.active = FALSE]]
<1>1. /\ UNCHANGED <<highest, monitor, tracker, final, resume>> /\ MayStart /\ Put(a, r)
      /\ DOMAIN deliveries = Addresses
  BY DEF Suspend, SerialInv, IInv, DeliveriesGood
<1>2. deliveries' = [deliveries EXCEPT ![a] = s]
  BY <1>1 DEF Suspend
<1>3. AllIdle'
  BY <1>1, Alone DEF AllIdle
<1>4. r.remaining = row[a].remaining /\ r.finalDone = row[a].finalDone
  BY AllowedNat DEF SerialInv, Row
<1>5. \A i \in DOMAIN deliveries[a] :
        s[i].total = deliveries[a][i].total /\ s[i].delivered = deliveries[a][i].delivered
  BY DEF SerialInv, IInv, DeliveriesGood, Delivery
<1> QED
  BY <1>1, <1>2, <1>3, <1>4, <1>5, FlagsSerial

\* An administrator resumes it: the row is read,
LEMMA ResumeReadSerial ==
  ASSUME SerialInv, IInv', ~Overlap, NEW a \in Addresses, ResumeRead(a)
  PROVE  SerialInv'
<1>1. /\ UNCHANGED <<row, deliveries, highest, monitor, tracker, final>> /\ MayStart
  BY DEF ResumeRead, rows
<1>2. AllIdle
  BY <1>1, Alone
<1>3. RowsSafe'
  BY <1>1, RowsFixed, FixedSame DEF SerialInv, Untouched
<1>4. FinalSafe(final)' /\ final'.pc = "idle" /\ monitor.pc = "idle" /\ TrackersIdle
  BY <1>1, <1>2 DEF AllIdle, FinalSafe, TrackersIdle
<1> QED
  BY <1>1, <1>3, <1>4, OtherSerial

\* and written.
LEMMA ResumeWriteSerial ==
  ASSUME SerialInv, IInv', ~Overlap, ResumeWrite
  PROVE  SerialInv'
<1>1. PICK a \in Addresses : a = resume.cur
  BY DEF ResumeWrite, SerialInv, IInv, ResumeGood
<1> DEFINE r == [row[a] EXCEPT !.status = "ACTIVE"]
           s == [i \in DOMAIN deliveries[a] |-> IF i \in resume.ids
                   THEN [deliveries[a][i] EXCEPT !.active = TRUE] ELSE deliveries[a][i]]
<1>2. /\ UNCHANGED <<highest, monitor, tracker, final>> /\ Put(a, r) /\ resume' = ResumeIdle
      /\ resume.pc # "idle" /\ DOMAIN deliveries = Addresses
  BY <1>1 DEF ResumeWrite, Resumed, SerialInv, IInv, DeliveriesGood
<1>3. deliveries' = [deliveries EXCEPT ![a] = s]
  BY <1>1, <1>2 DEF ResumeWrite
<1>4. AllIdle'
  BY <1>2, Alone DEF AllIdle, ResumeIdle, TrackersIdle
<1>5. r.remaining = row[a].remaining /\ r.finalDone = row[a].finalDone
  BY AllowedNat DEF SerialInv, Row
<1>6. \A i \in DOMAIN deliveries[a] :
        s[i].total = deliveries[a][i].total /\ s[i].delivered = deliveries[a][i].delivered
  BY DEF SerialInv, IInv, DeliveriesGood, Delivery
<1> QED
  BY <1>2, <1>3, <1>4, <1>5, <1>6, FlagsSerial

\* An administrator sets the count: the highest count covers it.
LEMMA SetCountSerial ==
  ASSUME SerialInv, IInv', ~Overlap, NEW a \in Addresses, NEW n \in SetCounts, SetCount(a, n)
  PROVE  SerialInv'
<1>1. PICK stamps \in BOOLEAN : Put(a, [row[a] EXCEPT !.remaining = n, !.resting = stamps \/ @])
  BY DEF SetCount
<1>2. /\ UNCHANGED <<monitor, tracker, final, resume, deliveries>> /\ MayStart /\ n \in Nat
      /\ highest' = [highest EXCEPT ![a] = IF n > @ THEN n ELSE @]
  BY UpkeepAssumption DEF SetCount
<1>3. AllIdle'
  BY <1>2, Alone DEF AllIdle
<1>4. /\ row = [b \in Addresses |-> row[b]] /\ row[a] \in Row /\ highest \in [Addresses -> Nat]
  BY DEF SerialInv, IInv, RowsGood, RowGood, WorldGood
<1>5. row'[a].remaining = n
  BY <1>1, <1>4 DEF Put, Row
<1>6. Safe(a, row[a].remaining)'
  <2>1. highest'[a] \in Nat /\ n <= highest'[a]
    BY <1>2, <1>4
  <2>2. Pending(a)' = Pending(a) /\ Pending(a) \in Nat
    BY <1>2, PendingSame, AllowedNat DEF SerialInv
  <2> QED
    BY <1>2, <1>5, <2>1, <2>2 DEF Safe, Allowed
<1>7. \A b \in Addresses \ {a} : Untouched(b)
  BY <1>1, <1>2, <1>4, FixedSame DEF Untouched, Put
<1>8. RowsSafe'
  BY <1>6, <1>7, RowsFixed DEF SerialInv
<1> QED
  BY <1>3, <1>8, IdleSerial

\* The owner and the clock.
LEMMA OwnerSerial ==
  ASSUME SerialInv, IInv',
         \/ \E a \in Addresses : Transfer(a) \/ SpendElsewhere(a)
         \/ MinutesPass \/ HalfDayPasses \/ UNCHANGED vars
  PROVE  SerialInv'
<1>1. UNCHANGED <<deliveries, highest, monitor, tracker, handing, final, resume>>
  BY DEF Transfer, SpendElsewhere, MinutesPass, HalfDayPasses, vars, rows
<1>2. \A a \in Addresses : row[a] \in Row
  BY AllowedNat DEF SerialInv
<1>3. \A a \in Addresses : row'[a].remaining = row[a].remaining /\ row'[a].finalDone = row[a].finalDone
  <2>1. CASE UNCHANGED row
    BY <2>1
  <2>2. CASE MinutesPass
    BY <1>2, <2>2 DEF MinutesPass, Row
  <2>3. CASE HalfDayPasses
    BY <1>2, <2>3 DEF HalfDayPasses, Row
  <2> QED
    BY <2>1, <2>2, <2>3 DEF Transfer, SpendElsewhere, vars, rows
<1> QED
  BY <1>1, <1>3, RestSerial

\* A restart leaves nobody at work.
LEMMA RestartSerial ==
  ASSUME SerialInv, IInv', Restart
  PROVE  SerialInv'
<1>1. AllIdle' /\ UNCHANGED <<row, deliveries, highest>>
  BY DEF Restart, AllIdle, MonitorIdle, TrackerIdle, FinalIdle, ResumeIdle, rows
<1>2. RowsSafe'
  BY <1>1, RowsFixed, FixedSame DEF SerialInv, Untouched
<1> QED
  BY <1>1, <1>2, IdleSerial

-----------------------------------------------------------------------------
(* Booking on the deliveries.                                              *)

\* The copy is taken from the deliveries as they are.
LEMMA BookFromSerial ==
  ASSUME SerialInv, NEW w \in Workers, NEW a \in Addresses, NEW n \in Nat,
         BookFrom(w, a, n), Covers(a, n), UNCHANGED <<row, highest, deliveries>>
  PROVE  Booked(w)' \/ CopySafe(handing[w], a)'
<1> DEFINE copy == [i \in ActiveDeliveries(a) |-> deliveries[a][i].delivered]
<1>1. handing'[w] = Handing(n, copy)
  BY DEF BookFrom, SerialInv, IInv, HandingGood
<1>2. CASE handing'[w] # NoHanding
  <2>1. handing'[w].left = n /\ handing'[w].copy = copy
    BY <1>1, <1>2 DEF Handing
  <2>2. Fixed(a) /\ row'[a] = row[a]
    BY FixedSame
  <2>3. Covers(a, handing[w].left)'
    BY <2>1, <2>2 DEF Covers, Allowed, Fixed
  <2> QED
    BY <2>1, <2>3 DEF CopySafe
<1> QED
  BY <1>2 DEF Booked

\* One delivery is written: as much less is open, and as much less to be booked.
LEMMA BookOneSerial ==
  ASSUME SerialInv, NEW w \in Workers, NEW a \in Addresses, CopyGood(handing[w], a),
         CopySafe(handing[w], a), BookOne(w, a), UNCHANGED <<row, highest>>
  PROVE  /\ \A b \in Addresses \ {a} : Untouched(b)
         /\ Safe(a, row[a].remaining)'
         /\ Booked(w)' \/ CopySafe(handing[w], a)'
<1> DEFINE g == handing[w]
           K(i) == Share(g.left, deliveries[a][i].total, g.copy[i])
<1>1. PICK i \in DOMAIN g.copy :
        /\ deliveries' = IF K(i) > 0
             THEN [deliveries EXCEPT ![a] = [@ EXCEPT ![i] = Taken(deliveries[a][i], g.copy[i] + K(i))]]
             ELSE deliveries
        /\ handing' = [handing EXCEPT ![w] =
             Handing(g.left - K(i), [j \in DOMAIN g.copy \ {i} |-> g.copy[j]])]
  BY DEF BookOne
<1> DEFINE d == deliveries[a][i]
           k == K(i)
           rest == [j \in DOMAIN g.copy \ {i} |-> g.copy[j]]
           e == Taken(d, g.copy[i] + k)
<1>2. g # NoHanding
  BY DEF NoHanding
<1>3. /\ g.left \in Nat /\ i \in DOMAIN deliveries[a] /\ g.copy[i] = d.delivered
      /\ d.delivered \in Nat /\ d.delivered <= d.total
      /\ \A j \in DOMAIN g.copy : g.copy[j] = deliveries[a][j].delivered
  BY <1>2 DEF CopyGood, CopySafe
<1>4. d \in Delivery /\ d.total \in Nat
  <2>1. deliveries[a] \in Seq(Delivery)
    BY DEF SerialInv, IInv, DeliveriesGood
  <2>2. d \in Delivery
    BY <1>3, <2>1
  <2> QED
    BY <2>2 DEF Delivery
<1>5. k \in Nat /\ k <= g.left
  BY <1>3, <1>4 DEF Share, Lesser
<1>6. e.total = d.total /\ e.delivered = d.delivered + k
  BY <1>3, <1>4 DEF Taken, Delivery
<1>7. DOMAIN deliveries = Addresses /\ DeliveriesGood
  BY DEF SerialInv, IInv, DeliveriesGood
<1>8. /\ \A b \in Addresses \ {a} : deliveries'[b] = deliveries[b]
      /\ \A j \in DOMAIN deliveries[a] \ {i} : deliveries'[a][j] = deliveries[a][j]
      /\ Pending(a)' = Pending(a) - k
  <2>1. CASE k > 0
    <3>1. deliveries' = [deliveries EXCEPT ![a] = [deliveries[a] EXCEPT ![i] = e]]
      BY <1>1, <2>1
    <3> HIDE DEF e, d, k
    <3>2. deliveries'[a] = [deliveries[a] EXCEPT ![i] = e]
      BY <1>7, <3>1
    <3>3. /\ DOMAIN deliveries'[a] = DOMAIN deliveries[a] /\ deliveries'[a][i] = e
          /\ \A j \in DOMAIN deliveries[a] \ {i} : deliveries'[a][j] = deliveries[a][j]
      BY <1>3, <3>2
    <3>4. Pending(a)' = Pending(a) - k
      BY <1>3, <1>5, <1>6, <1>7, <3>3, PendingBooked DEF d
    <3> QED
      BY <1>7, <3>1, <3>3, <3>4
  <2>2. CASE ~(k > 0)
    <3>1. deliveries' = deliveries /\ k = 0
      BY <1>1, <1>5, <2>2
    <3>2. Pending(a)' = Pending(a) /\ Pending(a) \in Nat
      BY <1>7, <3>1, PendingSame, PendingNat
    <3> QED
      BY <3>1, <3>2
  <2> QED
    BY <2>1, <2>2
<1>9. handing'[w] = Handing(g.left - k, rest)
  BY <1>1 DEF SerialInv, IInv, HandingGood
<1> HIDE DEF k, rest, e, d
<1>10. \A b \in Addresses \ {a} : Untouched(b)
  BY <1>8, FixedSame DEF Untouched
<1>11. /\ Pending(a) \in Nat /\ highest[a] \in Nat /\ row[a].remaining \in Nat
       /\ Safe(a, row[a].remaining) /\ Covers(a, g.left)
  BY AllowedNat DEF SerialInv, RowsSafe, CopySafe
<1>12. Safe(a, row[a].remaining)' /\ (row[a].remaining = 0 \/ row[a].remaining + (g.left - k) <= Pending(a)' + highest'[a])
  BY <1>3, <1>5, <1>8, <1>11 DEF Safe, Covers, Allowed
<1>13. CASE handing'[w] # NoHanding
  <2>1. handing'[w].left = g.left - k /\ handing'[w].copy = rest
    BY <1>9, <1>13 DEF Handing
  <2>2. \A j \in DOMAIN rest : rest[j] = deliveries'[a][j].delivered
    <3>1. ASSUME NEW j \in DOMAIN rest PROVE rest[j] = deliveries'[a][j].delivered
      <4>1. j \in DOMAIN g.copy /\ j # i /\ rest[j] = g.copy[j]
        BY <3>1 DEF rest
      <4>2. j \in DOMAIN deliveries[a]
        BY <1>2, <4>1 DEF CopyGood
      <4> QED
        BY <1>3, <1>8, <4>1, <4>2
    <3> QED
      BY <3>1
  <2>3. row'[a].remaining = 0 \/ row'[a].remaining + handing'[w].left <= Pending(a)' + highest'[a]
    BY <1>12, <2>1
  <2>4. CopySafe(handing[w], a)'
    BY <2>1, <2>2, <2>3 DEF CopySafe, Covers, Allowed
  <2> QED
    BY <1>10, <1>12, <2>4
<1> QED
  BY <1>10, <1>12, <1>13 DEF Booked

-----------------------------------------------------------------------------
(* The usage tracker.                                                      *)

\* A tracker under way, alone.
LEMMA TrackerFacts ==
  ASSUME SerialInv, ~Overlap, NEW t \in Trackers, tracker[t].pc # "idle"
  PROVE  /\ TrackerAlone(t) /\ TrackerSafe(tracker[t]) /\ BookSafe(t)
         /\ DOMAIN tracker = Trackers /\ tracker[t] \in TrackerRun /\ t \in Workers
         /\ tracker[t].pc # "loop" => tracker[t].cur \in Addresses
         /\ RowsSafe /\ IInv
<1>1. t \in Workers /\ TrackerGood(tracker[t]) /\ DOMAIN tracker = Trackers
  BY DEF SerialInv, IInv, TrackersGood, Workers
<1> QED
  BY <1>1, Alone DEF SerialInv, TrackersSafe, BooksSafe, TrackerGood, TrackerRun

\* A tracker that gives up, stamps or goes on to the next address.
LEMMA TrackerMovesOn ==
  ASSUME SerialInv, IInv', ~Overlap, NEW t \in Trackers, tracker[t].pc # "idle",
         \/ tracker' = [tracker EXCEPT ![t] = TrackerNext(t)]
         \/ /\ tracker' = [tracker EXCEPT ![t] = TrackerCharged(t)]
            /\ tracker[t].pc \in {"charge", "read", "book"},
         UNCHANGED <<monitor, final, resume>>, RowsSafe',
         \A a \in Addresses : Fixed(a) \/ (a = tracker[t].cur /\ tracker[t].pc # "loop")
  PROVE  SerialInv'
<1> DEFINE r == tracker[t]
<1>1. /\ TrackerAlone(t) /\ TrackerSafe(r) /\ DOMAIN tracker = Trackers
      /\ r \in TrackerRun /\ t \in Workers /\ t # "monitor"
  BY TrackerFacts, UpkeepAssumption
<1>2. PICK q : /\ q \in {TrackerNext(t), TrackerCharged(t)} /\ tracker'[t] = q
               /\ r.pc = "loop" => q = TrackerNext(t)
  BY <1>1
<1>3. /\ q.pc \in {"idle", "loop", "stamp"}
      /\ q.pc # "idle" => q.todo = r.todo /\ q.list = r.list
      /\ q.pc = "stamp" => q.cur = r.cur /\ r.pc # "loop"
  <2>1. TrackerIdle.pc = "idle"
    BY DEF TrackerIdle
  <2>2. CASE q = TrackerIdle
    BY <2>1, <2>2
  <2>3. CASE q = Looping(r.list, r.marks, r.todo)
    BY <2>3 DEF Looping
  <2>4. CASE q = [r EXCEPT !.pc = "stamp"] /\ r.pc # "loop"
    BY <1>1, <2>4 DEF TrackerRun
  <2> QED
    BY <1>1, <1>2, <2>2, <2>3, <2>4 DEF TrackerNext, TrackerCharged
<1>4. \A a \in Addresses : a \in r.todo /\ q.pc # "idle" => Safe(a, q.list[a])'
  BY <1>1, <1>3 DEF TrackerSafe, Safe, Allowed, Fixed
<1>5. TrackerSafe(tracker[t])'
  BY <1>1, <1>2, <1>3, <1>4 DEF TrackerSafe, Safe, Allowed
<1>6. BookSafe(t)'
  BY <1>1, <1>2, <1>3 DEF BookSafe, Booking
<1>7. \A u \in Trackers \ {t} : tracker'[u] = tracker[u]
  BY <1>1
<1> QED
  BY <1>1, <1>5, <1>6, <1>7, TrackerSerial

\* A tracker or an audit starts.
LEMMA TrackerStartSerial ==
  ASSUME SerialInv, IInv', ~Overlap, NEW t \in Trackers,
         TrackerStart(t) \/ (\E a \in Addresses : Audit(t, a))
  PROVE  SerialInv'
<1>1. /\ MayStart /\ UNCHANGED <<row, deliveries, highest, monitor, final, resume>>
  BY DEF TrackerStart, Audit, TrackerUnchanged
<1>2. AllIdle /\ TrackerAlone(t) /\ t \in Workers /\ t # "monitor"
  BY <1>1, Alone, UpkeepAssumption DEF Workers
<1>3. \A a \in Addresses : Untouched(a) /\ Safe(a, row[a].remaining)
  BY <1>1, FixedSame DEF Untouched, SerialInv, RowsSafe
<1>4. RowsSafe'
  BY <1>3, RowsFixed DEF SerialInv
<1>5. DOMAIN tracker = Trackers
  BY DEF SerialInv, IInv, TrackersGood
<1>6. TrackerSafe(tracker[t])' /\ tracker'[t].pc # "book" /\ (\A u \in Trackers \ {t} : tracker'[u] = tracker[u])
  <2>1. CASE TrackerStart(t)
    <3> DEFINE list == [a \in Addresses |-> IF Listed(a) THEN row[a].remaining ELSE 0]
               todo == {a \in Addresses : Listed(a)}
    <3>1. /\ tracker'[t].pc = "loop" /\ tracker'[t].list = list /\ tracker'[t].todo = todo
          /\ \A u \in Trackers \ {t} : tracker'[u] = tracker[u]
      BY <2>1, <1>5 DEF TrackerStart, Looping
    <3>2. \A a \in Addresses : a \in todo => list[a] = row[a].remaining
      OBVIOUS
    <3> HIDE DEF list, todo
    <3> QED
      BY <1>3, <3>1, <3>2 DEF TrackerSafe, Untouched, Fixed, Safe, Allowed
  <2>2. CASE \E a \in Addresses : Audit(t, a)
    <3>1. PICK a \in Addresses : Audit(t, a)
      BY <2>2
    <3> DEFINE list == [b \in Addresses |-> IF b = a THEN row[a].remaining ELSE 0]
    <3>2. /\ tracker'[t].pc = "charge" /\ tracker'[t].list = list /\ tracker'[t].todo = {}
          /\ tracker'[t].cur = a
          /\ \A u \in Trackers \ {t} : tracker'[u] = tracker[u]
      BY <3>1, <1>5 DEF Audit
    <3>3. list[a] = row[a].remaining
      OBVIOUS
    <3> HIDE DEF list
    <3> QED
      BY <1>3, <3>2, <3>3 DEF TrackerSafe, Untouched, Fixed, Safe, Allowed
  <2> QED
    BY <2>1, <2>2
<1>7. BookSafe(t)'
  BY <1>2, <1>6 DEF BookSafe, Booking
<1> QED
  BY <1>1, <1>2, <1>4, <1>6, <1>7, TrackerSerial

\* It fetches the transfers of an address.
LEMMA TrackerFetchSerial ==
  ASSUME SerialInv, IInv', ~Overlap, NEW t \in Trackers, NEW a \in Addresses, TrackerFetch(t, a)
  PROVE  SerialInv'
<1> DEFINE r == tracker[t]
           rest == r.todo \ {a}
<1>1. /\ UNCHANGED <<row, deliveries, highest, monitor, final, resume>>
      /\ r.pc = "loop" /\ a \in r.todo
  BY DEF TrackerFetch, TrackerUnchanged
<1>2. /\ TrackerAlone(t) /\ TrackerSafe(r) /\ DOMAIN tracker = Trackers
      /\ r \in TrackerRun /\ t \in Workers /\ t # "monitor"
  BY <1>1, TrackerFacts, UpkeepAssumption
<1>3. \A b \in Addresses : Untouched(b)
  BY <1>1, FixedSame DEF Untouched
<1>4. RowsSafe'
  BY <1>3, RowsFixed DEF SerialInv
<1>5. /\ tracker'[t].pc \in {"idle", "loop", "charge", "stamp"}
      /\ tracker'[t].pc # "idle" => tracker'[t].list = r.list /\ tracker'[t].todo = rest
      /\ tracker'[t].pc \in {"charge", "stamp"} => tracker'[t].cur = a
      /\ \A u \in Trackers \ {t} : tracker'[u] = tracker[u]
  BY <1>2 DEF TrackerFetch, TrackerIdle, Looping
<1> HIDE DEF r
<1>6. TrackerSafe(tracker[t])'
  BY <1>1, <1>2, <1>3, <1>5 DEF TrackerSafe, Untouched, Fixed, Safe, Allowed
<1>7. BookSafe(t)'
  BY <1>2, <1>5 DEF BookSafe, Booking
<1> QED
  BY <1>1, <1>2, <1>4, <1>5, <1>6, <1>7, TrackerSerial

\* A count lower than one that was safe.
LEMMA ReducedSafe ==
  ASSUME IInv, NEW a \in Addresses, NEW n \in Nat, NEW k \in Nat, Safe(a, n), Fixed(a),
         row'[a].remaining = Reduced(n, k)
  PROVE  /\ Safe(a, row[a].remaining)'
         /\ \A m \in Nat : m <= k => Covers(a, m)'
<1>1. Pending(a) \in Nat /\ highest[a] \in Nat
  BY AllowedNat
<1> QED
  BY <1>1 DEF Safe, Covers, Allowed, Fixed, Reduced

\* It lowers the row by what was used, all of which is then left to book.
LEMMA TrackerChargeSerial ==
  ASSUME SerialInv, IInv', ~Overlap, NEW t \in Trackers, TrackerCharge(t)
  PROVE  SerialInv'
<1> DEFINE r == tracker[t]
<1>1. UNCHANGED <<deliveries, highest, monitor, final, resume>> /\ r.pc = "charge"
  BY DEF TrackerCharge, TrackerUnchanged
<1>2. /\ TrackerAlone(t) /\ TrackerSafe(r) /\ DOMAIN tracker = Trackers
      /\ r \in TrackerRun /\ t \in Workers /\ t # "monitor" /\ r.cur \in Addresses
  BY <1>1, TrackerFacts, UpkeepAssumption
<1>3. PICK a \in Addresses : a = r.cur
  BY <1>2
<1> DEFINE n == Reduced(r.list[a], r.use)
           q == [row[a] EXCEPT !.remaining = n, !.delegationAge = 0, !.resting = TRUE]
<1>4. CASE Put(a, q) /\ tracker' = [tracker EXCEPT ![t] = [@ EXCEPT !.pc = "read"]]
  <2>1. row = [b \in Addresses |-> row[b]] /\ row[a] \in Row /\ IInv
    BY AllowedNat DEF SerialInv, IInv, RowsGood
  <2>2. q.remaining = n /\ q.finalDone = row[a].finalDone
    BY <2>1 DEF Row
  <2>3. /\ row'[a].remaining = n /\ row'[a].finalDone = row[a].finalDone
        /\ \A b \in Addresses \ {a} : row'[b] = row[b]
    BY <1>4, <2>1, <2>2 DEF Put
  <2>4. \A b \in Addresses : Fixed(b) /\ (b # a => Untouched(b))
    BY <1>1, <2>3, FixedSame DEF Untouched
  <2>5. r.list[a] \in Nat /\ r.use \in Nat /\ Safe(a, r.list[a])
    BY <1>1, <1>2, <1>3 DEF TrackerRun, TrackerSafe
  <2>6. /\ Safe(a, row[a].remaining)'
        /\ \A m \in Nat : m <= r.use => Covers(a, m)'
    BY <2>1, <2>3, <2>4, <2>5, ReducedSafe
  <2>7. RowsSafe'
    BY <2>4, <2>6, RowsFixed DEF SerialInv
  <2>8. /\ tracker'[t].pc = "read" /\ tracker'[t].list = r.list /\ tracker'[t].todo = r.todo
        /\ tracker'[t].cur = a /\ tracker'[t].use = r.use
        /\ \A u \in Trackers \ {t} : tracker'[u] = tracker[u]
    BY <1>2, <1>3, <1>4 DEF TrackerRun
  <2>9. Covers(a, Lesser(r.use, r.list[a]))'
    <3>1. Lesser(r.use, r.list[a]) \in Nat /\ Lesser(r.use, r.list[a]) <= r.use
      BY <2>5 DEF Lesser
    <3>2. PICK m \in Nat : m = Lesser(r.use, r.list[a]) /\ m <= r.use
      BY <3>1
    <3>3. Covers(a, m)'
      BY <2>6, <3>2
    <3>4. Lesser(tracker'[t].use, tracker'[t].list[a]) = m
      BY <2>8, <3>2
    <3> QED
      BY <2>8, <3>2, <3>3, <3>4 DEF Covers, Allowed
  <2>10. TrackerSafe(tracker[t])'
    BY <1>1, <1>2, <1>3, <2>4, <2>8, <2>9 DEF TrackerSafe, Untouched, Fixed, Safe, Allowed, Covers
  <2>11. BookSafe(t)'
    BY <1>2, <2>8 DEF BookSafe, Booking
  <2> QED
    BY <1>1, <1>2, <2>7, <2>8, <2>10, <2>11, TrackerSerial
<1>5. CASE tracker' = [tracker EXCEPT ![t] = TrackerCharged(t)] /\ UNCHANGED row
  <2>1. \A b \in Addresses : Fixed(b) /\ Untouched(b)
    BY <1>1, <1>5, FixedSame DEF Untouched
  <2>2. RowsSafe'
    BY <2>1, RowsFixed DEF SerialInv
  <2> QED
    BY <1>1, <1>5, <2>1, <2>2, TrackerMovesOn
<1> QED
  BY <1>3, <1>4, <1>5 DEF TrackerCharge

\* It reads the deliveries it will book on.
LEMMA TrackerReadSerial ==
  ASSUME SerialInv, IInv', ~Overlap, NEW t \in Trackers, TrackerRead(t)
  PROVE  SerialInv'
<1> DEFINE r == tracker[t]
<1>1. UNCHANGED <<row, deliveries, highest, monitor, final, resume>> /\ r.pc = "read"
  BY DEF TrackerRead, TrackerUnchanged
<1>2. /\ TrackerAlone(t) /\ TrackerSafe(r) /\ DOMAIN tracker = Trackers
      /\ r \in TrackerRun /\ t \in Workers /\ t # "monitor" /\ r.cur \in Addresses
  BY <1>1, TrackerFacts, UpkeepAssumption
<1>3. PICK a \in Addresses : a = r.cur
  BY <1>2
<1>4. \A b \in Addresses : Fixed(b) /\ Untouched(b)
  BY <1>1, FixedSame DEF Untouched
<1>5. RowsSafe'
  BY <1>4, RowsFixed DEF SerialInv
<1>6. CASE tracker' = [tracker EXCEPT ![t] = TrackerCharged(t)]
  BY <1>1, <1>4, <1>5, <1>6, TrackerMovesOn
<1>7. CASE /\ BookFrom(t, a, Lesser(r.use, r.list[a])) /\ ~Booked(t)'
           /\ tracker' = [tracker EXCEPT ![t] = [@ EXCEPT !.pc = "book"]]
  <2>1. Lesser(r.use, r.list[a]) \in Nat /\ Covers(a, Lesser(r.use, r.list[a]))
    BY <1>1, <1>2, <1>3 DEF Lesser, TrackerRun, TrackerSafe
  <2>2. CopySafe(handing[t], a)'
    BY <1>1, <1>2, <1>7, <2>1, BookFromSerial
  <2>3. /\ tracker'[t].pc = "book" /\ tracker'[t].list = r.list /\ tracker'[t].todo = r.todo
        /\ tracker'[t].cur = a
        /\ \A u \in Trackers \ {t} : tracker'[u] = tracker[u]
    BY <1>2, <1>3, <1>7 DEF TrackerRun
  <2>4. TrackerSafe(tracker[t])'
    BY <1>1, <1>2, <1>3, <1>4, <2>3 DEF TrackerSafe, Untouched, Fixed, Safe, Allowed
  <2>5. BookSafe(t)'
    BY <1>2, <2>2, <2>3 DEF BookSafe, CurOf, CopySafe, Covers, Allowed
  <2> QED
    BY <1>1, <1>2, <1>5, <2>3, <2>4, <2>5, TrackerSerial
<1> QED
  BY <1>3, <1>6, <1>7 DEF TrackerRead

\* It books on one of them.
LEMMA TrackerBookSerial ==
  ASSUME SerialInv, IInv', ~Overlap, NEW t \in Trackers, TrackerBook(t)
  PROVE  SerialInv'
<1> DEFINE r == tracker[t]
<1>1. UNCHANGED <<row, highest, monitor, final, resume>> /\ r.pc = "book"
  BY DEF TrackerBook, TrackerUnchanged
<1>2. /\ TrackerAlone(t) /\ TrackerSafe(r) /\ DOMAIN tracker = Trackers /\ BookSafe(t)
      /\ r \in TrackerRun /\ t \in Workers /\ t # "monitor" /\ r.cur \in Addresses
  BY <1>1, TrackerFacts, UpkeepAssumption
<1>3. PICK a \in Addresses : a = r.cur
  BY <1>2
<1>4. CASE UNCHANGED deliveries /\ tracker' = [tracker EXCEPT ![t] = TrackerCharged(t)]
  <2>1. \A b \in Addresses : Fixed(b) /\ Untouched(b)
    BY <1>1, <1>4, FixedSame DEF Untouched
  <2>2. RowsSafe'
    BY <2>1, RowsFixed DEF SerialInv
  <2> QED
    BY <1>1, <1>4, <2>1, <2>2, TrackerMovesOn
<1>5. CASE /\ BookOne(t, a)
           /\ tracker' = [tracker EXCEPT ![t] = IF Booked(t)' THEN TrackerCharged(t) ELSE @]
  <2>1. CopyGood(handing[t], a) /\ CopySafe(handing[t], a)
    BY <1>1, <1>2, <1>3 DEF SerialInv, IInv, HandingGood, BookSafe, Booking, CurOf
  <2>2. /\ \A b \in Addresses \ {a} : Untouched(b)
        /\ Safe(a, row[a].remaining)'
        /\ Booked(t)' \/ CopySafe(handing[t], a)'
    BY <1>1, <1>2, <1>5, <2>1, BookOneSerial
  <2>3. RowsSafe'
    BY <2>2, RowsFixed DEF SerialInv
  <2>4. CASE Booked(t)'
    <3>1. tracker' = [tracker EXCEPT ![t] = TrackerCharged(t)]
      BY <1>5, <2>4
    <3> QED
      BY <1>1, <1>3, <2>2, <2>3, <3>1, TrackerMovesOn DEF Untouched
  <2>5. CASE ~Booked(t)'
    <3>1. tracker'[t] = r /\ \A u \in Trackers \ {t} : tracker'[u] = tracker[u]
      BY <1>2, <1>5, <2>5
    <3>2. TrackerSafe(tracker[t])'
      BY <1>1, <1>2, <1>3, <2>2, <3>1 DEF TrackerSafe, Untouched, Fixed, Safe, Allowed
    <3>3. BookSafe(t)'
      BY <1>2, <1>3, <2>2, <2>5, <3>1 DEF BookSafe, CurOf, CopySafe, Covers, Allowed
    <3> QED
      BY <1>1, <1>2, <2>3, <3>1, <3>2, <3>3, TrackerSerial
  <2> QED
    BY <2>4, <2>5
<1> QED
  BY <1>3, <1>4, <1>5 DEF TrackerBook

\* It stamps the address.
LEMMA TrackerStampSerial ==
  ASSUME SerialInv, IInv', ~Overlap, NEW t \in Trackers, TrackerStamp(t)
  PROVE  SerialInv'
<1>1. /\ UNCHANGED <<deliveries, highest, monitor, final, resume>> /\ tracker[t].pc = "stamp"
      /\ tracker' = [tracker EXCEPT ![t] = TrackerNext(t)]
  BY DEF TrackerStamp, TrackerUnchanged
<1>2. row = [b \in Addresses |-> row[b]] /\ \A b \in Addresses : row[b] \in Row
  BY AllowedNat DEF SerialInv, IInv, RowsGood
<1>3. PICK a \in Addresses : a = tracker[t].cur
  BY <1>1, TrackerFacts
<1>4. row' \in {row, [row EXCEPT ![a] = [row[a] EXCEPT !.checked = tracker[t].upTo]]}
  BY <1>3 DEF TrackerStamp, Put
<1>5. \A b \in Addresses : row'[b].remaining = row[b].remaining /\ row'[b].finalDone = row[b].finalDone
  BY <1>2, <1>4 DEF Row
<1>6. \A b \in Addresses : Fixed(b) /\ Untouched(b)
  BY <1>1, <1>5, FixedSame DEF Untouched
<1>7. RowsSafe'
  BY <1>6, RowsFixed DEF SerialInv
<1> QED
  BY <1>1, <1>6, <1>7, TrackerMovesOn

-----------------------------------------------------------------------------
(* The monitor.                                                            *)

\* The monitor under way, alone.
LEMMA MonitorFacts ==
  ASSUME SerialInv, ~Overlap, monitor.pc # "idle"
  PROVE  /\ MonitorAlone /\ MonitorSafe(monitor) /\ BookSafe("monitor")
         /\ monitor \in MonitorRun
         /\ monitor.pc \in {"fine", "delegate", "count", "stamp", "write", "read", "book"} =>
              monitor.cur \in Addresses
         /\ RowsSafe /\ IInv
BY Alone DEF SerialInv, BooksSafe, Workers, IInv, MonitorGood

\* A step of the monitor that does not lead to a booking.
LEMMA MonitorStepSerial ==
  ASSUME SerialInv, IInv', ~Overlap, monitor.pc # "idle" \/ AllIdle,
         UNCHANGED <<tracker, final, resume>>, RowsSafe', MonitorSafe(monitor)', monitor'.pc # "book"
  PROVE  SerialInv'
<1>1. BookSafe("monitor")'
  BY DEF BookSafe, Booking
<1> QED
  BY <1>1, Alone, MonitorSerial

\* The monitor is done with the address in its hands.
LEMMA MonitorMovesOn ==
  ASSUME SerialInv, IInv', ~Overlap,
         monitor.pc \in {"delegate", "count", "stamp", "write", "read", "book"},
         monitor' = MonitorNext, UNCHANGED <<tracker, final, resume>>, RowsSafe',
         \A a \in Addresses : Fixed(a) \/ a = monitor.cur
  PROVE  SerialInv'
<1>1. MonitorSafe(monitor) /\ monitor \in MonitorRun
  BY MonitorFacts
<1>2. /\ monitor'.pc \in {"idle", "adjust"}
      /\ monitor'.pc # "idle" => /\ monitor'.list = monitor.list /\ monitor'.todo = monitor.todo
                                /\ monitor'.adjust = monitor.adjust
  BY <1>1 DEF MonitorNext, MonitorIdle, MonitorRun
<1>3. MonitorSafe(monitor)'
  BY <1>1, <1>2 DEF MonitorSafe, Safe, Allowed, Fixed
<1> QED
  BY <1>2, <1>3, MonitorStepSerial

\* The monitor starts, with the rows it finds.
LEMMA MonitorStartSerial ==
  ASSUME SerialInv, IInv', ~Overlap, MonitorStart
  PROVE  SerialInv'
<1> DEFINE list == [a \in Addresses |-> IF Listed(a) THEN row[a].remaining ELSE 0]
           todo == {a \in Addresses : Listed(a)}
<1>1. /\ UNCHANGED <<row, deliveries, highest, tracker, final, resume>> /\ AllIdle
      /\ monitor'.pc = "check" /\ monitor'.list = list /\ monitor'.todo = todo /\ monitor'.adjust = {}
  BY Alone DEF MonitorStart, MonitorUnchanged, MonitorIdle
<1>2. \A a \in Addresses : Untouched(a) /\ Safe(a, row[a].remaining)
  BY <1>1, FixedSame DEF Untouched, SerialInv, RowsSafe
<1>3. RowsSafe'
  BY <1>2, RowsFixed DEF SerialInv
<1>4. \A a \in Addresses : a \in todo => list[a] = row[a].remaining
  OBVIOUS
<1> HIDE DEF list, todo
<1>5. MonitorSafe(monitor)'
  BY <1>1, <1>2, <1>4 DEF MonitorSafe, Untouched, Fixed, Safe, Allowed
<1> QED
  BY <1>1, <1>3, <1>5, MonitorStepSerial

\* The address checked is done with, and may have to be adjusted.
LEMMA CheckedShape ==
  ASSUME IInv, NEW a \in Addresses, NEW q \in {Checked(a), Measured(a)}
  PROVE  /\ q.pc \in {"check", "fetch"} /\ q.list = monitor.list /\ q.todo = monitor.todo \ {a}
         /\ q.adjust \in {monitor.adjust, monitor.adjust \cup {a}}
         /\ q.pc = "fetch" => q.todo = {}
<1>1. monitor \in MonitorRun
  BY DEF IInv, MonitorGood
<1> QED
  BY <1>1 DEF Checked, Measured, MonitorRun

\* It looks at an address.
LEMMA MonitorCheckSerial ==
  ASSUME SerialInv, IInv', ~Overlap, NEW a \in Addresses, MonitorCheck(a)
  PROVE  SerialInv'
<1>1. /\ UNCHANGED <<row, deliveries, highest, tracker, final, resume>>
      /\ monitor.pc = "check" /\ a \in monitor.todo
  BY DEF MonitorCheck, MonitorUnchanged
<1>2. MonitorSafe(monitor) /\ monitor \in MonitorRun /\ IInv
  BY <1>1, MonitorFacts
<1>3. \A b \in Addresses : Untouched(b) /\ Safe(b, row[b].remaining)
  BY <1>1, FixedSame DEF Untouched, SerialInv, RowsSafe
<1>4. RowsSafe'
  BY <1>3, RowsFixed DEF SerialInv
<1>5. CASE monitor' \in {Checked(a), Measured(a)}
  <2>1. PICK q \in {Checked(a), Measured(a)} : monitor' = q
    BY <1>5
  <2>2. /\ q.pc \in {"check", "fetch"} /\ q.list = monitor.list /\ q.todo = monitor.todo \ {a}
        /\ q.adjust \in {monitor.adjust, monitor.adjust \cup {a}}
        /\ q.pc = "fetch" => q.todo = {}
    BY <1>2, CheckedShape
  <2>3. MonitorSafe(monitor)'
    BY <1>1, <1>2, <1>3, <2>1, <2>2 DEF MonitorSafe, Untouched, Fixed, Safe, Allowed
  <2> QED
    BY <1>1, <1>4, <2>1, <2>2, <2>3, MonitorStepSerial
<1>6. CASE monitor' = [monitor EXCEPT !.pc = "fine", !.cur = a, !.use = row[a].remaining]
  <2>1. /\ monitor'.pc = "fine" /\ monitor'.cur = a /\ monitor'.use = row[a].remaining
        /\ monitor'.list = monitor.list /\ monitor'.todo = monitor.todo /\ monitor'.adjust = monitor.adjust
    BY <1>2, <1>6 DEF MonitorRun
  <2>2. MonitorSafe(monitor)'
    BY <1>1, <1>2, <1>3, <2>1 DEF MonitorSafe, Untouched, Fixed, Safe, Allowed
  <2> QED
    BY <1>1, <1>4, <2>1, <2>2, MonitorStepSerial
<1> QED
  BY <1>5, <1>6 DEF MonitorCheck

\* It fines an address.
LEMMA MonitorFineSerial ==
  ASSUME SerialInv, IInv', ~Overlap, MonitorFine
  PROVE  SerialInv'
<1>1. UNCHANGED <<deliveries, highest, tracker, final, resume>> /\ monitor.pc = "fine"
  BY DEF MonitorFine, MonitorUnchanged
<1>2. MonitorSafe(monitor) /\ monitor \in MonitorRun /\ IInv /\ RowsSafe
  BY <1>1, MonitorFacts
<1>3. PICK a \in Addresses : a = monitor.cur
  BY <1>1, MonitorFacts
<1> DEFINE n == Reduced(monitor.use, 1)
           f == [row[a] EXCEPT !.remaining = n, !.penaltyAge = 0, !.penalties = @ + 1, !.resting = TRUE]
<1>4. /\ UNCHANGED row \/ Put(a, f)
      /\ \/ monitor' \in {Checked(a), Measured(a)}
         \/ monitor' = [Checked(a) EXCEPT !.adjust = @ \cup {a}, !.fined = @ \cup {a}]
  BY <1>3 DEF MonitorFine
<1>5. /\ \A b \in Addresses \ {a} : row'[b] = row[b]
      /\ row'[a].finalDone = row[a].finalDone
      /\ row'[a].remaining \in {n, row[a].remaining}
  <2>1. row[a] \in Row /\ row = [b \in Addresses |-> row[b]]
    BY <1>2, AllowedNat DEF IInv, RowsGood
  <2>2. f.finalDone = row[a].finalDone /\ f.remaining = n
    BY <2>1 DEF Row
  <2> QED
    BY <1>4, <2>1, <2>2 DEF Put
<1>6. \A b \in Addresses : Fixed(b) /\ (b # a => Untouched(b))
  BY <1>1, <1>5, FixedSame DEF Untouched
<1>7. Safe(a, row[a].remaining)'
  <2>1. CASE row'[a].remaining = n
    <3>1. Safe(a, monitor.use) /\ monitor.use \in Nat
      BY <1>1, <1>2, <1>3 DEF MonitorSafe, MonitorRun
    <3> QED
      BY <1>2, <1>6, <2>1, <3>1, ReducedSafe
  <2>2. CASE row'[a].remaining = row[a].remaining
    BY <1>2, <1>6, <2>2 DEF RowsSafe, Fixed, Safe, Allowed
  <2> QED
    BY <1>5, <2>1, <2>2
<1>8. RowsSafe'
  BY <1>2, <1>6, <1>7, RowsFixed
<1>9. /\ monitor'.pc \in {"check", "fetch"} /\ monitor'.list = monitor.list
      /\ monitor'.todo = monitor.todo \ {a}
      /\ monitor'.adjust \in {monitor.adjust, monitor.adjust \cup {a}}
      /\ monitor'.pc = "fetch" => monitor'.todo = {}
  <2>1. PICK q \in {Checked(a), Measured(a)} :
          monitor' = q \/ monitor' = [q EXCEPT !.adjust = monitor.adjust \cup {a}, !.fined = @ \cup {a}]
    <3>1. Checked(a).adjust = monitor.adjust
      BY <1>2 DEF Checked, MonitorRun
    <3> QED
      BY <1>4, <3>1
  <2>2. /\ q.pc \in {"check", "fetch"} /\ q.list = monitor.list /\ q.todo = monitor.todo \ {a}
        /\ q.adjust \in {monitor.adjust, monitor.adjust \cup {a}}
        /\ q.pc = "fetch" => q.todo = {}
    BY <1>2, CheckedShape
  <2>3. q \in MonitorRun
    <3>1. /\ monitor.todo \ {a} \in SUBSET Addresses /\ monitor.adjust \cup {a} \in SUBSET Addresses
          /\ 0 \in Nat
      BY <1>2 DEF MonitorRun
    <3>2. Checked(a) \in MonitorRun
      BY <1>2, <3>1 DEF Checked, MonitorRun
    <3> QED
      BY <2>1, <3>1, <3>2 DEF Measured, MonitorRun
  <2> QED
    BY <2>1, <2>2, <2>3 DEF MonitorRun
<1>10. MonitorSafe(monitor)'
  BY <1>1, <1>2, <1>3, <1>6, <1>9 DEF MonitorSafe, Fixed, Safe, Allowed
<1> QED
  BY <1>1, <1>8, <1>9, <1>10, MonitorStepSerial

\* Steps before the count is written, which concern neither rows nor deliveries
\* except for the mark of a row.
LEMMA MonitorPasses ==
  ASSUME SerialInv, IInv', ~Overlap, monitor.pc \notin {"idle", "check", "fine"},
         UNCHANGED <<deliveries, highest, tracker, final, resume>>,
         \A a \in Addresses : /\ row'[a].remaining = row[a].remaining
                              /\ row'[a].finalDone = row[a].finalDone,
         monitor'.pc \in {"idle", "adjust", "delegate", "count", "stamp", "write"},
         monitor'.pc # "idle" =>
           /\ monitor'.list = monitor.list /\ monitor'.todo = monitor.todo
           /\ \/ /\ monitor'.adjust = monitor.adjust
                 /\ monitor'.pc # "adjust" =>
                      monitor'.cur = monitor.cur /\ monitor.pc \in {"delegate", "count", "stamp", "write"}
              \/ /\ monitor'.adjust = monitor.adjust \ {monitor'.cur}
                 /\ monitor'.cur \in monitor.adjust
  PROVE  SerialInv'
<1>1. MonitorSafe(monitor) /\ monitor \in MonitorRun
  BY MonitorFacts
<1>2. \A a \in Addresses : Fixed(a) /\ Untouched(a)
  BY FixedSame DEF Untouched
<1>3. RowsSafe'
  BY <1>2, RowsFixed DEF SerialInv
<1>4. MonitorSafe(monitor)'
  BY <1>1, <1>2 DEF MonitorSafe, Fixed, Safe, Allowed
<1> QED
  BY <1>3, <1>4, MonitorStepSerial

\* Its calls to the chain and the statements that change no count.
LEMMA MonitorDelegating ==
  ASSUME SerialInv, IInv', ~Overlap,
         \/ MonitorFetch \/ MonitorDelegate \/ MonitorCount \/ MonitorStamp
         \/ \E a \in Addresses : MonitorReclaim(a)
  PROVE  SerialInv'
<1>1. /\ UNCHANGED <<deliveries, highest, tracker, final, resume>>
      /\ monitor.pc \in {"fetch", "adjust", "delegate", "count", "stamp"}
  BY DEF MonitorFetch, MonitorDelegate, MonitorCount, MonitorStamp, MonitorReclaim, MonitorUnchanged
<1>2. MonitorSafe(monitor) /\ monitor \in MonitorRun /\ IInv
  BY <1>1, MonitorFacts
<1>3. \A a \in Addresses : row'[a].remaining = row[a].remaining /\ row'[a].finalDone = row[a].finalDone
  <2>1. CASE UNCHANGED row
    BY <2>1
  <2>2. CASE MonitorStamp
    <3>1. row' \in {row, [row EXCEPT ![monitor.cur] = [row[monitor.cur] EXCEPT !.checked = made[monitor.cur]]]}
      BY <2>2 DEF MonitorStamp, Put
    <3>2. row = [b \in Addresses |-> row[b]] /\ \A b \in Addresses : row[b] \in Row
      BY <1>2, AllowedNat DEF IInv, RowsGood
    <3> QED
      BY <3>1, <3>2 DEF Row
  <2> QED
    BY <2>1, <2>2 DEF MonitorFetch, MonitorDelegate, MonitorCount, MonitorReclaim
<1>4. /\ monitor'.pc \in {"idle", "adjust", "delegate", "count", "stamp", "write"}
      /\ monitor'.pc # "idle" =>
           /\ monitor'.list = monitor.list /\ monitor'.todo = monitor.todo
           /\ \/ /\ monitor'.adjust = monitor.adjust
                 /\ monitor'.pc # "adjust" =>
                      monitor'.cur = monitor.cur /\ monitor.pc \in {"delegate", "count", "stamp", "write"}
              \/ /\ monitor'.adjust = monitor.adjust \ {monitor'.cur}
                 /\ monitor'.cur \in monitor.adjust
  <2>1. CASE MonitorFetch
    BY <1>2, <2>1 DEF MonitorFetch, MonitorIdle, Aborted, MonitorRun
  <2>2. CASE MonitorDelegate
    <3>1. monitor.pc = "delegate" /\ monitor' \in {Delegated, MonitorNext}
      BY <2>2 DEF MonitorDelegate
    <3>2. CASE monitor' = Delegated
      BY <1>2, <3>1, <3>2 DEF Delegated, MonitorRun
    <3>3. CASE monitor' = MonitorNext
      BY <1>2, <3>1, <3>3 DEF MonitorNext, MonitorIdle, MonitorRun
    <3> QED
      BY <3>1, <3>2, <3>3
  <2>3. CASE MonitorCount
    BY <1>2, <2>3 DEF MonitorCount, MonitorRun
  <2>4. CASE MonitorStamp
    BY <1>2, <2>4 DEF MonitorStamp, MonitorRun
  <2>5. ASSUME NEW a \in Addresses, MonitorReclaim(a)
        PROVE  /\ monitor'.pc = "delegate" /\ monitor'.list = monitor.list /\ monitor'.todo = monitor.todo
               /\ monitor'.adjust = monitor.adjust \ {monitor'.cur} /\ monitor'.cur \in monitor.adjust
    BY <1>2, <2>5 DEF MonitorReclaim, MonitorRun
  <2> QED
    BY <2>1, <2>2, <2>3, <2>4, <2>5
<1> QED
  BY <1>1, <1>3, <1>4, MonitorPasses

\* It writes the count that the delegation leaves.
LEMMA MonitorWriteSerial ==
  ASSUME SerialInv, IInv', ~Overlap, MonitorWrite
  PROVE  SerialInv'
<1>1. UNCHANGED <<deliveries, highest, tracker, final, resume>> /\ monitor.pc = "write"
  BY DEF MonitorWrite, MonitorUnchanged
<1>2. MonitorSafe(monitor) /\ monitor \in MonitorRun /\ IInv /\ RowsSafe
  BY <1>1, MonitorFacts
<1>3. PICK a \in Addresses : a = monitor.cur
  BY <1>1, MonitorFacts
<1> DEFINE n == Reduced(monitor.list[a], monitor.use)
           q == [row[a] EXCEPT !.remaining = n, !.delegationAge = 0, !.resting = TRUE]
<1>4. row = [b \in Addresses |-> row[b]] /\ row[a] \in Row
  BY <1>2, AllowedNat DEF IInv, RowsGood
<1>5. q.remaining = n /\ q.finalDone = row[a].finalDone
  BY <1>4 DEF Row
<1>6. CASE Put(a, q)
  <2>1. /\ row'[a].remaining = n /\ row'[a].finalDone = row[a].finalDone
        /\ \A b \in Addresses \ {a} : row'[b] = row[b]
    BY <1>4, <1>5, <1>6 DEF Put
  <2>2. \A b \in Addresses : Fixed(b) /\ (b # a => Untouched(b))
    BY <1>1, <2>1, FixedSame DEF Untouched
  <2>3. monitor.list[a] \in Nat /\ monitor.use \in Nat /\ Safe(a, monitor.list[a])
    BY <1>1, <1>2, <1>3 DEF MonitorRun, MonitorSafe
  <2>4. /\ Safe(a, row[a].remaining)'
        /\ \A m \in Nat : m <= monitor.use => Covers(a, m)'
    BY <1>2, <2>1, <2>2, <2>3, ReducedSafe
  <2>5. RowsSafe'
    BY <1>2, <2>2, <2>4, RowsFixed
  <2>6. CASE monitor' = MonitorNext
    BY <1>1, <2>2, <2>5, <2>6, MonitorMovesOn
  <2>7. CASE monitor' = [monitor EXCEPT !.pc = "read"]
    <3>1. /\ monitor'.pc = "read" /\ monitor'.list = monitor.list /\ monitor'.todo = monitor.todo
          /\ monitor'.adjust = monitor.adjust /\ monitor'.cur = a /\ monitor'.use = monitor.use
      BY <1>2, <1>3, <2>7 DEF MonitorRun
    <3>2. monitor.use <= monitor.use
      BY <2>3
    <3>3. PICK m \in Nat : m = monitor.use /\ Covers(a, m)'
      BY <2>3, <2>4, <3>2
    <3>4. Covers(a, monitor.use)'
      BY <3>1, <3>3 DEF Covers, Allowed
    <3>5. MonitorSafe(monitor)'
      BY <1>1, <1>2, <1>3, <2>2, <3>1, <3>4 DEF MonitorSafe, Fixed, Safe, Allowed, Covers
    <3> QED
      BY <1>1, <2>5, <3>1, <3>5, MonitorStepSerial
  <2> QED
    BY <1>3, <1>6, <2>6, <2>7 DEF MonitorWrite
<1>7. CASE monitor' = MonitorNext /\ UNCHANGED row
  <2>1. \A b \in Addresses : Fixed(b) /\ Untouched(b)
    BY <1>1, <1>7, FixedSame DEF Untouched
  <2>2. RowsSafe'
    BY <1>2, <2>1, RowsFixed
  <2> QED
    BY <1>1, <1>7, <2>1, <2>2, MonitorMovesOn
<1> QED
  BY <1>3, <1>6, <1>7 DEF MonitorWrite

\* It reads the deliveries it will book on.
LEMMA MonitorReadSerial ==
  ASSUME SerialInv, IInv', ~Overlap, MonitorRead
  PROVE  SerialInv'
<1>1. UNCHANGED <<row, deliveries, highest, tracker, final, resume>> /\ monitor.pc = "read"
  BY DEF MonitorRead, MonitorUnchanged
<1>2. /\ MonitorSafe(monitor) /\ monitor \in MonitorRun /\ MonitorAlone /\ RowsSafe
      /\ "monitor" \in Workers
  BY <1>1, MonitorFacts DEF Workers
<1>3. PICK a \in Addresses : a = monitor.cur
  BY <1>1, MonitorFacts
<1>4. \A b \in Addresses : Fixed(b) /\ Untouched(b)
  BY <1>1, FixedSame DEF Untouched
<1>5. RowsSafe'
  BY <1>2, <1>4, RowsFixed
<1>6. CASE monitor' = MonitorNext
  BY <1>1, <1>4, <1>5, <1>6, MonitorMovesOn
<1>7. CASE /\ BookFrom("monitor", a, monitor.use) /\ ~Booked("monitor")'
           /\ monitor' = [monitor EXCEPT !.pc = "book"]
  <2>1. monitor.use \in Nat /\ Covers(a, monitor.use)
    BY <1>1, <1>2, <1>3 DEF MonitorRun, MonitorSafe
  <2>2. CopySafe(handing["monitor"], a)'
    BY <1>1, <1>2, <1>7, <2>1, BookFromSerial
  <2>3. /\ monitor'.pc = "book" /\ monitor'.list = monitor.list /\ monitor'.todo = monitor.todo
        /\ monitor'.adjust = monitor.adjust /\ monitor'.cur = a
    BY <1>2, <1>3, <1>7 DEF MonitorRun
  <2>4. MonitorSafe(monitor)'
    BY <1>1, <1>2, <1>3, <1>4, <2>3 DEF MonitorSafe, Fixed, Safe, Allowed
  <2>5. BookSafe("monitor")'
    BY <2>2, <2>3 DEF BookSafe, CurOf, CopySafe, Covers, Allowed
  <2> QED
    BY <1>1, <1>2, <1>5, <2>4, <2>5, MonitorSerial
<1> QED
  BY <1>3, <1>6, <1>7 DEF MonitorRead

\* It books on one of them.
LEMMA MonitorBookSerial ==
  ASSUME SerialInv, IInv', ~Overlap, MonitorBook
  PROVE  SerialInv'
<1>1. UNCHANGED <<row, highest, tracker, final, resume>> /\ monitor.pc = "book"
  BY DEF MonitorBook, MonitorUnchanged
<1>2. /\ MonitorSafe(monitor) /\ monitor \in MonitorRun /\ MonitorAlone /\ RowsSafe
      /\ "monitor" \in Workers /\ BookSafe("monitor")
  BY <1>1, MonitorFacts DEF Workers
<1>3. PICK a \in Addresses : a = monitor.cur
  BY <1>1, MonitorFacts
<1>4. CASE UNCHANGED deliveries /\ monitor' = MonitorNext
  <2>1. \A b \in Addresses : Fixed(b) /\ Untouched(b)
    BY <1>1, <1>4, FixedSame DEF Untouched
  <2>2. RowsSafe'
    BY <1>2, <2>1, RowsFixed
  <2> QED
    BY <1>1, <1>4, <2>1, <2>2, MonitorMovesOn
<1>5. CASE /\ BookOne("monitor", a)
           /\ monitor' = IF Booked("monitor")' THEN MonitorNext ELSE monitor
  <2>1. CopyGood(handing["monitor"], a) /\ CopySafe(handing["monitor"], a)
    BY <1>1, <1>2, <1>3 DEF SerialInv, IInv, HandingGood, BookSafe, Booking, CurOf
  <2>2. /\ \A b \in Addresses \ {a} : Untouched(b)
        /\ Safe(a, row[a].remaining)'
        /\ Booked("monitor")' \/ CopySafe(handing["monitor"], a)'
    BY <1>1, <1>2, <1>5, <2>1, BookOneSerial
  <2>3. RowsSafe'
    BY <1>2, <2>2, RowsFixed
  <2>4. CASE Booked("monitor")'
    <3>1. monitor' = MonitorNext
      BY <1>5, <2>4
    <3> QED
      BY <1>1, <1>3, <2>2, <2>3, <3>1, MonitorMovesOn DEF Untouched
  <2>5. CASE ~Booked("monitor")'
    <3>1. monitor' = monitor
      BY <1>5, <2>5
    <3>2. MonitorSafe(monitor)'
      BY <1>1, <1>2, <1>3, <2>2, <3>1 DEF MonitorSafe, Untouched, Fixed, Safe, Allowed
    <3>3. BookSafe("monitor")'
      BY <1>3, <2>2, <2>5, <3>1 DEF BookSafe, CurOf, CopySafe, Covers, Allowed
    <3> QED
      BY <1>1, <1>2, <2>3, <3>2, <3>3, MonitorSerial
  <2> QED
    BY <2>4, <2>5
<1> QED
  BY <1>3, <1>4, <1>5 DEF MonitorBook

-----------------------------------------------------------------------------
(* The final reclaim.                                                      *)

\* The final reclaim marks only rows that are still empty.
LEMMA FinalSerial ==
  ASSUME SerialInv, IInv', ~Overlap, FinalStart \/ FinalStep
  PROVE  SerialInv'
<1>1. /\ UNCHANGED <<deliveries, highest, monitor, tracker, resume>>
      /\ FinalStart => MayStart
      /\ FinalStep => final.pc # "idle"
  BY DEF FinalStart, FinalStep, FinalReclaim, FinalMark, FinalUnchanged
<1>2. monitor.pc = "idle" /\ TrackersIdle /\ resume.pc = "idle"
  BY <1>1, Alone DEF AllIdle
<1>3. /\ RowsSafe /\ FinalSafe(final) /\ final \in FinalRun /\ (final.pc = "mark" => final.cur \in Addresses)
      /\ row = [b \in Addresses |-> row[b]] /\ \A b \in Addresses : row[b] \in Row
  BY AllowedNat DEF SerialInv, IInv, FinalGood, RowsGood
<1>4. CASE UNCHANGED row /\ ~FinalMark
  <2>1. RowsSafe'
    BY <1>1, <1>3, <1>4, RowsFixed, FixedSame DEF Untouched
  <2>2. FinalSafe(final)'
    <3>1. CASE FinalStart
      <4>1. final'.pc = "loop" /\ final'.todo = {a \in Addresses : FinalDue(a)}
        BY <3>1 DEF FinalStart, FinalIdle
      <4> QED
        BY <1>4, <4>1 DEF FinalSafe, FinalDue
    <3>2. ASSUME NEW a \in Addresses, FinalReclaim(a) PROVE FinalSafe(final)'
      <4>1. /\ final.pc = "loop" /\ a \in final.todo
            /\ \/ final' = [pc |-> "mark", todo |-> final.todo \ {a}, cur |-> a]
               \/ final' = FinalNext(final.todo \ {a})
        BY <3>2 DEF FinalReclaim, Thrown
      <4>2. /\ final'.pc # "idle" => final'.todo \subseteq final.todo
            /\ final'.pc = "mark" => final'.cur = a
        <5>1. CASE final' = FinalNext(final.todo \ {a})
          BY <5>1 DEF FinalNext, FinalIdle
        <5> QED
          BY <4>1, <5>1
      <4> QED
        BY <1>3, <1>4, <4>1, <4>2 DEF FinalSafe
    <3> QED
      BY <1>4, <3>1, <3>2 DEF FinalStep
  <2> QED
    BY <1>1, <1>2, <2>1, <2>2, OtherSerial
<1>5. CASE FinalMark
  <2>1. final.pc = "mark" /\ final' = FinalNext(final.todo)
    BY <1>5 DEF FinalMark
  <2>2. PICK a \in Addresses : a = final.cur
    BY <1>3, <2>1
  <2>3. row' \in {row, [row EXCEPT ![a] = [row[a] EXCEPT !.finalDone = TRUE, !.resting = TRUE]]}
    BY <1>5, <2>2 DEF FinalMark, Put
  <2>4. /\ \A b \in Addresses : row'[b].remaining = row[b].remaining
        /\ \A b \in Addresses \ {a} : row'[b] = row[b]
    <3> DEFINE q == [row[a] EXCEPT !.finalDone = TRUE, !.resting = TRUE]
    <3>1. q.remaining = row[a].remaining
      BY <1>3 DEF Row
    <3> HIDE DEF q
    <3> QED
      BY <1>3, <2>3, <3>1 DEF q
  <2>5. row[a].remaining = 0
    BY <1>3, <2>1, <2>2 DEF FinalSafe
  <2>6. RowsSafe'
    <3>1. Safe(a, row[a].remaining)'
      BY <2>4, <2>5 DEF Safe
    <3>2. \A b \in Addresses \ {a} : Untouched(b)
      BY <1>1, <2>4, FixedSame DEF Untouched
    <3> QED
      BY <1>3, <3>1, <3>2, RowsFixed
  <2>7. FinalSafe(final)'
    <3>1. /\ final'.pc # "idle" => final'.todo = final.todo
          /\ final'.pc # "mark" /\ final.todo \subseteq Addresses
      BY <1>3, <2>1 DEF FinalNext, FinalIdle, FinalRun
    <3> QED
      BY <1>3, <2>1, <2>4, <3>1 DEF FinalSafe
  <2> QED
    BY <1>1, <1>2, <2>6, <2>7, OtherSerial
<1> QED
  BY <1>4, <1>5 DEF FinalStart, FinalStep, FinalReclaim

-----------------------------------------------------------------------------
(* Every step, and the theorems.                                           *)

\* Nobody is at work, nothing is bought.
LEMMA SerialInit ==
  ASSUME Init
  PROVE  SerialInv
<1>1. IInv
  BY InitInv
<1>2. AllIdle /\ \A a \in Addresses : row[a].remaining = 0
  BY DEF Init, AllIdle, MonitorIdle, TrackerIdle, FinalIdle, ResumeIdle, NoRow
<1>3. OneActor /\ RowsSafe /\ TrackersSafe /\ MonitorSafe(monitor) /\ FinalSafe(final)
  BY <1>2 DEF AllIdle, OneActor, TrackersIdle, RowsSafe, Safe, TrackersSafe, TrackerSafe, MonitorSafe,
     FinalSafe
<1>4. BooksSafe
  BY <1>2 DEF AllIdle, BooksSafe, BookSafe, Booking, Workers
<1> QED
  BY <1>1, <1>3, <1>4 DEF SerialInv

\* Every step keeps the invariant when runs do not overlap.
LEMMA SerialNext ==
  ASSUME SerialInv, ~Overlap, [Next]_vars
  PROVE  SerialInv'
<1>0. IInv'
  BY NextInv DEF SerialInv
<1>1. ASSUME NEW a \in Addresses, NEW n \in Amounts, Recharge(a, n) PROVE SerialInv'
  BY <1>0, <1>1, RechargeSerial
<1>2. ASSUME NEW a \in Addresses, NEW n \in SetCounts, SetCount(a, n) PROVE SerialInv'
  BY <1>0, <1>2, SetCountSerial
<1>3. ASSUME NEW a \in Addresses,
             Suspend(a) \/ ResumeRead(a) \/ Transfer(a) \/ SpendElsewhere(a)
      PROVE SerialInv'
  BY <1>0, <1>3, SuspendSerial, ResumeReadSerial, OwnerSerial
<1>4. ASSUME NEW t \in Trackers, TrackerStart(t) \/ (\E a \in Addresses : Audit(t, a)) PROVE SerialInv'
  BY <1>0, <1>4, TrackerStartSerial
<1>5. CASE ResumeWrite \/ Restart
  BY <1>0, <1>5, ResumeWriteSerial, RestartSerial
<1>6. CASE MinutesPass \/ HalfDayPasses \/ UNCHANGED vars
  BY <1>0, <1>6, OwnerSerial
<1>7. CASE MonitorStart \/ MonitorStep
  BY <1>0, <1>7, MonitorStartSerial, MonitorCheckSerial, MonitorFineSerial, MonitorDelegating,
     MonitorWriteSerial, MonitorReadSerial, MonitorBookSerial DEF MonitorStep
<1>8. CASE FinalStart \/ FinalStep
  BY <1>0, <1>8, FinalSerial
<1>9. ASSUME NEW t \in Trackers, TrackerStep(t) PROVE SerialInv'
  BY <1>0, <1>9, TrackerFetchSerial, TrackerChargeSerial, TrackerReadSerial, TrackerBookSerial,
     TrackerStampSerial DEF TrackerStep
<1> QED
  BY <1>1, <1>2, <1>3, <1>4, <1>5, <1>6, <1>7, <1>8, <1>9 DEF Next

\* The invariant of runs that do not overlap holds in every state they reach.
THEOREM SerialInvariance == ~Overlap /\ Spec => []SerialInv
<1>1. ASSUME ~Overlap PROVE Spec => []SerialInv
  <2>1. Init => SerialInv
    BY SerialInit
  <2>2. SerialInv /\ [Next]_vars => SerialInv'
    BY <1>1, SerialNext
  <2> QED
    BY <2>1, <2>2, PTL DEF Spec
<1> QED
  BY <1>1

\* Where runs, requests and edits wait for each other, the counter of an address
\* never exceeds what is open on its purchases, or was written for it, although
\* counter and deliveries are written by statements of their own of which either
\* may fail or be cut off by a restart: the counter is always lowered first.
THEOREM CountsWithinDeliveries == ~Overlap /\ Spec => []CountWithinDeliveries
<1>1. SerialInv => CountWithinDeliveries
  <2> SUFFICES ASSUME SerialInv, NEW a \in Addresses
               PROVE  row[a].remaining <= Pending(a) + highest[a]
    BY DEF CountWithinDeliveries
  <2>1. Safe(a, row[a].remaining) /\ Pending(a) \in Nat /\ highest[a] \in Nat
    BY AllowedNat DEF SerialInv, RowsSafe
  <2> QED
    BY <2>1 DEF Safe, Allowed
<1> QED
  BY <1>1, SerialInvariance, PTL

\* Where they wait for each other, an address with transactions left is not
\* marked as finally reclaimed: a purchase takes the mark away, and none comes
\* between the list of empty addresses and the statement that marks one of them.
THEOREM FinallyReclaimedIsEmpty == ~Overlap /\ Spec => []FinalDoneMeansEmpty
<1>1. SerialInv => FinalDoneMeansEmpty
  BY AllowedNat DEF SerialInv, RowsSafe, Safe, FinalDoneMeansEmpty
<1> QED
  BY <1>1, SerialInvariance, PTL

-----------------------------------------------------------------------------
(* Counts that only purchases raise.  A count written back is never higher *)
(* than the row, unless two things fail in one run: the log of a fine,     *)
(* after which the address counts as not fined, and then the search for    *)
(* its transfers, after which the old count is written.                    *)

\* The count the monitor read is the row's, or by one higher after a fine; a fine
\* whose log failed leaves the address out of `fined`, but nothing else can fail.
Close(m, a) ==
  /\ m.list[a] <= row[a].remaining + 1
  /\ m.list[a] > row[a].remaining => a \in m.fined \/ incidents = 0

TrackerFresh(r) ==
  r.pc # "idle" =>
    /\ \A a \in Addresses : a \in r.todo => r.list[a] <= row[a].remaining
    /\ r.pc = "charge" => \A a \in Addresses : a = r.cur => r.list[a] <= row[a].remaining

MonitorFresh(m) ==
  m.pc # "idle" =>
    /\ \A a \in Addresses : a \in m.todo => m.list[a] <= row[a].remaining
    /\ \A a \in Addresses : a \in m.adjust => Close(m, a)
    /\ m.pc = "fine" => \A a \in Addresses : a = m.cur =>
         m.use = row[a].remaining /\ m.use > 0 /\ m.list[a] <= m.use
    /\ m.pc \in {"delegate", "count", "stamp"} => \A a \in Addresses : a = m.cur => Close(m, a)
    /\ m.pc \in {"count", "stamp"} => m.cur \notin m.fined
    /\ m.pc \in {"stamp", "write"} =>
         \A a \in Addresses : a = m.cur => m.list[a] <= row[a].remaining + m.use

TrackersFresh == \A t \in Trackers : TrackerFresh(tracker[t])

FreshInv == SerialInv /\ incidents <= 1 /\ TrackersFresh /\ MonitorFresh(monitor)

SameCount(a) == row'[a].remaining = row[a].remaining

Lowered == \A a \in Addresses : row'[a].remaining <= row[a].remaining

\* Types of what the invariant speaks of.
LEMMA FreshTypes ==
  ASSUME IInv
  PROVE  /\ incidents \in Nat /\ monitor \in MonitorRun
         /\ row = [a \in Addresses |-> row[a]]
         /\ tracker = [t \in Trackers |-> tracker[t]]
         /\ \A t \in Trackers : tracker[t] \in TrackerRun
         /\ \A a \in Addresses : row[a] \in Row /\ row[a].remaining \in Nat
BY AllowedNat DEF IInv, WorldGood, RowsGood, MonitorGood, TrackersGood, TrackerGood

\* Nobody has read anything.
LEMMA FreshIdle ==
  ASSUME SerialInv', incidents' <= 1, monitor'.pc = "idle", \A t \in Trackers : tracker'[t].pc = "idle"
  PROVE  FreshInv'
BY DEF FreshInv, TrackersFresh, TrackerFresh, MonitorFresh

\* A step that concerns neither counts nor the runs that have read them.
LEMMA FreshRest ==
  ASSUME FreshInv, SerialInv', incidents' <= incidents, UNCHANGED <<monitor, tracker>>,
         \A a \in Addresses : SameCount(a)
  PROVE  FreshInv' /\ Lowered
<1>1. incidents \in Nat /\ incidents' \in Nat
  BY DEF FreshInv, SerialInv, IInv, WorldGood
<1>2. \A a \in Addresses : row[a].remaining \in Nat
  BY FreshTypes DEF FreshInv, SerialInv
<1>3. TrackersFresh'
  BY DEF FreshInv, TrackersFresh, TrackerFresh, SameCount
<1>4. MonitorFresh(monitor)'
  BY <1>1 DEF FreshInv, MonitorFresh, Close, SameCount
<1> QED
  BY <1>1, <1>2, <1>3, <1>4 DEF FreshInv, Lowered, SameCount

\* A purchase, or a count written by an administrator, while nobody is at work.
LEMMA RechargeFresh ==
  ASSUME FreshInv, SerialInv', ~Overlap, NEW a \in Addresses,
         \/ \E n \in Amounts : Recharge(a, n)
         \/ \E n \in SetCounts : SetCount(a, n)
  PROVE  /\ FreshInv'
         /\ \A b \in Addresses : row'[b].remaining > row[b].remaining =>
              bought'[b] > bought[b] \/ row'[b].remaining <= highest'[b]
<1>1. /\ MayStart /\ UNCHANGED <<monitor, tracker>>
      /\ incidents' \in {incidents, incidents - 1}
  BY DEF Recharge, SetCount, Quiet, Fault, Incident
<1>2. AllIdle
  BY <1>1, Alone DEF FreshInv
<1>3. FreshInv'
  BY <1>1, <1>2, FreshIdle, FreshTypes DEF AllIdle, FreshInv, SerialInv
<1>4. row = [b \in Addresses |-> row[b]] /\ \A b \in Addresses : row[b].remaining \in Nat /\ row[b] \in Row
  BY FreshTypes DEF FreshInv, SerialInv
<1>5. bought \in [Addresses -> Nat] /\ highest \in [Addresses -> Nat]
  BY DEF FreshInv, SerialInv, IInv, WorldGood
<1>6. ASSUME NEW n \in Amounts, Recharge(a, n)
      PROVE  bought'[a] > bought[a] /\ \A b \in Addresses \ {a} : row'[b] = row[b]
  <2>1. n \in Nat /\ n > 0
    BY UpkeepAssumption
  <2> QED
    BY <1>4, <1>5, <1>6, <2>1 DEF Recharge, Put
<1>7. ASSUME NEW n \in SetCounts, SetCount(a, n)
      PROVE  row'[a].remaining <= highest'[a] /\ \A b \in Addresses \ {a} : row'[b] = row[b]
  <2>1. n \in Nat
    BY UpkeepAssumption
  <2>2. PICK stamps \in BOOLEAN :
          row' = [row EXCEPT ![a] = [row[a] EXCEPT !.remaining = n, !.resting = stamps \/ @]]
    BY <1>7 DEF SetCount, Put
  <2>3. row'[a].remaining = n /\ \A b \in Addresses \ {a} : row'[b] = row[b]
    BY <1>4, <2>2 DEF Row
  <2>4. highest' = [highest EXCEPT ![a] = IF n > highest[a] THEN n ELSE highest[a]]
    BY <1>7 DEF SetCount
  <2>5. highest'[a] = IF n > highest[a] THEN n ELSE highest[a]
    BY <1>5, <2>4
  <2> QED
    BY <1>5, <2>1, <2>3, <2>5
<1> QED
  BY <1>3, <1>4, <1>6, <1>7

\* The other steps of administrators, owners, time and the final reclaim.
LEMMA OthersFresh ==
  ASSUME FreshInv, SerialInv',
         \/ \E a \in Addresses : Suspend(a) \/ ResumeRead(a) \/ Transfer(a) \/ SpendElsewhere(a)
         \/ ResumeWrite \/ MinutesPass \/ HalfDayPasses \/ FinalStart \/ FinalStep \/ UNCHANGED vars
  PROVE  FreshInv' /\ Lowered
<1>1. row = [b \in Addresses |-> row[b]] /\ (\A b \in Addresses : row[b] \in Row) /\ incidents \in Nat
  BY FreshTypes DEF FreshInv, SerialInv
<1>2. /\ UNCHANGED <<monitor, tracker>> /\ incidents' \in {incidents, incidents - 1}
      /\ \A b \in Addresses : SameCount(b)
  <2>1. CASE \E a \in Addresses : ResumeRead(a) \/ Transfer(a) \/ SpendElsewhere(a)
    BY <2>1 DEF ResumeRead, Transfer, SpendElsewhere, Quiet, rows, SameCount
  <2>2. ASSUME NEW a \in Addresses, Suspend(a)
        PROVE  /\ UNCHANGED <<monitor, tracker>> /\ incidents' \in {incidents, incidents - 1}
               /\ \A b \in Addresses : SameCount(b)
    BY <1>1, <2>2 DEF Suspend, Put, Row, SameCount, Fault, Incident
  <2>3. CASE ResumeWrite
    <3>1. row' = [row EXCEPT ![resume.cur] = Resumed(row[resume.cur])]
      BY <2>3 DEF ResumeWrite, Put
    <3>2. \A b \in Addresses : SameCount(b)
      BY <1>1, <3>1 DEF Resumed, Row, SameCount
    <3> QED
      BY <2>3, <3>2 DEF ResumeWrite, Quiet
  <2>4. CASE MinutesPass
    BY <1>1, <2>4 DEF MinutesPass, Row, SameCount, Quiet
  <2>5. CASE HalfDayPasses
    BY <1>1, <2>5 DEF HalfDayPasses, Row, SameCount, Quiet
  <2>6. CASE FinalStart
    BY <2>6 DEF FinalStart, FinalUnchanged, Quiet, SameCount
  <2>7. ASSUME NEW a \in Addresses, FinalReclaim(a)
        PROVE  /\ UNCHANGED <<monitor, tracker>> /\ incidents' \in {incidents, incidents - 1}
               /\ \A b \in Addresses : SameCount(b)
    BY <2>7 DEF FinalReclaim, FinalUnchanged, Quiet, Fault, Refusal, Incident, SameCount
  <2>8. CASE FinalMark
    <3>1. PICK a \in Addresses : a = final.cur
      BY <2>8 DEF FinalMark, FreshInv, SerialInv, IInv, FinalGood
    <3> DEFINE marked == [row[a] EXCEPT !.finalDone = TRUE, !.resting = TRUE]
    <3>2. marked.remaining = row[a].remaining
      BY <1>1 DEF Row
    <3> HIDE DEF marked
    <3>3. row' = row \/ row' = [row EXCEPT ![a] = marked]
      BY <2>8, <3>1 DEF FinalMark, Put, marked
    <3>4. \A b \in Addresses : SameCount(b)
      BY <1>1, <3>2, <3>3 DEF SameCount
    <3> QED
      BY <2>8, <3>4 DEF FinalMark, FinalUnchanged, Quiet, Fault, Incident
  <2>9. CASE UNCHANGED vars
    BY <2>9 DEF vars, rows, SameCount
  <2> QED
    BY <2>1, <2>2, <2>3, <2>4, <2>5, <2>6, <2>7, <2>8, <2>9 DEF FinalStep
<1>3. incidents' <= incidents
  BY <1>1, <1>2
<1> QED
  BY <1>2, <1>3, FreshRest

\* A restart forgets all that was read.
LEMMA RestartFresh ==
  ASSUME FreshInv, SerialInv', Restart
  PROVE  FreshInv' /\ Lowered
<1>1. /\ monitor'.pc = "idle" /\ \A t \in Trackers : tracker'[t].pc = "idle"
      /\ UNCHANGED row /\ incidents' = incidents - 1
  BY DEF Restart, MonitorIdle, TrackerIdle, rows, Fault, Incident
<1>2. incidents' <= 1 /\ \A a \in Addresses : row[a].remaining \in Nat
  BY <1>1, FreshTypes DEF FreshInv, SerialInv
<1> QED
  BY <1>1, <1>2, FreshIdle DEF Lowered

\* A step of a tracker, the only run under way.
LEMMA TrackerFreshStep ==
  ASSUME FreshInv, SerialInv', ~Overlap, NEW t \in Trackers, tracker[t].pc # "idle" \/ AllIdle,
         UNCHANGED monitor, \A u \in Trackers \ {t} : tracker'[u] = tracker[u],
         incidents' <= incidents, TrackerFresh(tracker[t])'
  PROVE  FreshInv'
<1>1. TrackerAlone(t)
  BY Alone DEF FreshInv
<1>2. TrackersFresh' /\ MonitorFresh(monitor)'
  BY <1>1 DEF TrackerAlone, TrackersFresh, TrackerFresh, MonitorFresh
<1>3. incidents \in Nat /\ incidents' \in Nat
  BY DEF FreshInv, SerialInv, IInv, WorldGood
<1> QED
  BY <1>2, <1>3 DEF FreshInv

\* The list of a tracker, and the row an audit reads.
LEMMA TrackerStartFresh ==
  ASSUME FreshInv, SerialInv', ~Overlap, NEW t \in Trackers,
         TrackerStart(t) \/ (\E a \in Addresses : Audit(t, a))
  PROVE  FreshInv' /\ Lowered
<1>1. MayStart /\ UNCHANGED <<row, monitor, incidents>>
  BY DEF TrackerStart, Audit, TrackerUnchanged, Quiet
<1>2. AllIdle
  BY <1>1, Alone DEF FreshInv
<1>3. /\ tracker = [u \in Trackers |-> tracker[u]] /\ incidents \in Nat
      /\ \A a \in Addresses : row[a].remaining \in Nat
  BY FreshTypes DEF FreshInv, SerialInv
<1>4. TrackerFresh(tracker[t])' /\ \A u \in Trackers \ {t} : tracker'[u] = tracker[u]
  <2>1. CASE TrackerStart(t)
    <3> DEFINE list == [a \in Addresses |-> IF Listed(a) THEN row[a].remaining ELSE 0]
               todo == {a \in Addresses : Listed(a)}
    <3>1. /\ tracker'[t].pc = "loop" /\ tracker'[t].list = list /\ tracker'[t].todo = todo
          /\ \A u \in Trackers \ {t} : tracker'[u] = tracker[u]
      BY <2>1, <1>3 DEF TrackerStart, Looping
    <3>2. \A a \in Addresses : a \in todo => list[a] = row[a].remaining
      OBVIOUS
    <3> HIDE DEF list, todo
    <3> QED
      BY <1>1, <1>3, <3>1, <3>2 DEF TrackerFresh
  <2>2. ASSUME NEW a \in Addresses, Audit(t, a)
        PROVE  TrackerFresh(tracker[t])' /\ \A u \in Trackers \ {t} : tracker'[u] = tracker[u]
    <3> DEFINE list == [b \in Addresses |-> IF b = a THEN row[a].remaining ELSE 0]
    <3>1. /\ tracker'[t].pc = "charge" /\ tracker'[t].list = list /\ tracker'[t].todo = {}
          /\ tracker'[t].cur = a
          /\ \A u \in Trackers \ {t} : tracker'[u] = tracker[u]
      BY <2>2, <1>3 DEF Audit
    <3>2. list[a] = row[a].remaining
      OBVIOUS
    <3> HIDE DEF list
    <3> QED
      BY <1>1, <1>3, <3>1, <3>2 DEF TrackerFresh
  <2> QED
    BY <2>1, <2>2
<1> QED
  BY <1>1, <1>2, <1>3, <1>4, TrackerFreshStep DEF Lowered

\* The next address of the list.
LEMMA TrackerFetchFresh ==
  ASSUME FreshInv, SerialInv', ~Overlap, NEW t \in Trackers, NEW a \in Addresses, TrackerFetch(t, a)
  PROVE  FreshInv' /\ Lowered
<1> DEFINE r == tracker[t]
           rest == r.todo \ {a}
<1>1. /\ UNCHANGED <<row, monitor>> /\ r.pc = "loop" /\ a \in r.todo
      /\ incidents' \in {incidents, incidents - 1}
  BY DEF TrackerFetch, TrackerUnchanged, Quiet, Fault, Incident
<1>2. /\ tracker = [u \in Trackers |-> tracker[u]] /\ r \in TrackerRun /\ incidents \in Nat
      /\ \A b \in Addresses : row[b].remaining \in Nat
  BY FreshTypes DEF FreshInv, SerialInv
<1>3. /\ tracker'[t].pc \in {"idle", "loop", "charge", "stamp"}
      /\ tracker'[t].pc # "idle" => tracker'[t].list = r.list /\ tracker'[t].todo = rest
      /\ tracker'[t].pc = "charge" => tracker'[t].cur = a
      /\ \A u \in Trackers \ {t} : tracker'[u] = tracker[u]
  BY <1>2 DEF TrackerFetch, TrackerIdle, Looping
<1>4. TrackerFresh(r)
  BY DEF FreshInv, TrackersFresh
<1> HIDE DEF r
<1>5. TrackerFresh(tracker[t])'
  BY <1>1, <1>3, <1>4 DEF TrackerFresh
<1>6. incidents' <= incidents
  BY <1>1, <1>2
<1> QED
  BY <1>1, <1>2, <1>3, <1>5, <1>6, TrackerFreshStep DEF Lowered, r

\* A tracker goes on with its address, which it has charged, or leaves it.
LEMMA TrackerCarriesOn ==
  ASSUME FreshInv, SerialInv', ~Overlap, NEW t \in Trackers,
         tracker[t].pc \in {"charge", "read", "book", "stamp"},
         \/ tracker' = [tracker EXCEPT ![t] = TrackerNext(t)]
         \/ tracker' = [tracker EXCEPT ![t] = TrackerCharged(t)]
         \/ tracker' = [tracker EXCEPT ![t] = [tracker[t] EXCEPT !.pc = "read"]]
         \/ tracker' = [tracker EXCEPT ![t] = [tracker[t] EXCEPT !.pc = "book"]]
         \/ tracker' = tracker /\ tracker[t].pc = "book",
         UNCHANGED monitor, incidents' <= incidents,
         \A a \in Addresses : SameCount(a) \/ a = tracker[t].cur
  PROVE  FreshInv'
<1> DEFINE r == tracker[t]
<1>1. tracker = [u \in Trackers |-> tracker[u]] /\ r \in TrackerRun
  BY FreshTypes DEF FreshInv, SerialInv
<1>2. TrackerFresh(r) /\ r.cur \notin r.todo
  BY DEF FreshInv, TrackersFresh, SerialInv, TrackersSafe, TrackerSafe
<1>3. /\ \A u \in Trackers \ {t} : tracker'[u] = tracker[u]
      /\ \/ tracker'[t] \in {TrackerIdle, Looping(r.list, r.marks, r.todo)}
         \/ tracker'[t] \in {[r EXCEPT !.pc = p] : p \in {"read", "book", "stamp"}}
         \/ tracker'[t] = r /\ r.pc = "book"
  BY <1>1 DEF TrackerNext, TrackerCharged
<1>4. /\ tracker'[t].pc # "charge"
      /\ tracker'[t].pc # "idle" => tracker'[t].list = r.list /\ tracker'[t].todo = r.todo
  BY <1>1, <1>3 DEF TrackerIdle, Looping, TrackerRun
<1> HIDE DEF r
<1>5. TrackerFresh(tracker[t])'
  <2>1. \A a \in Addresses : a \in r.todo => SameCount(a) /\ r.list[a] <= row[a].remaining
    BY <1>2 DEF TrackerFresh, r
  <2> QED
    BY <1>4, <2>1 DEF TrackerFresh, SameCount
<1> QED
  BY <1>3, <1>5, TrackerFreshStep

\* The count is charged from a list entry that the row still holds.
LEMMA TrackerChargeFresh ==
  ASSUME FreshInv, SerialInv', ~Overlap, NEW t \in Trackers, TrackerCharge(t)
  PROVE  FreshInv' /\ Lowered
<1> DEFINE r == tracker[t]
<1>1. /\ UNCHANGED monitor /\ r.pc = "charge"
      /\ incidents' \in {incidents, incidents - 1}
  BY DEF TrackerCharge, TrackerUnchanged, Quiet, Fault, Incident
<1>2. /\ row = [b \in Addresses |-> row[b]] /\ r \in TrackerRun /\ incidents \in Nat
      /\ \A b \in Addresses : row[b] \in Row /\ row[b].remaining \in Nat
      /\ TrackerFresh(r)
  BY FreshTypes DEF FreshInv, SerialInv, TrackersFresh
<1>3. PICK a \in Addresses : a = r.cur
  BY <1>1, TrackerFacts DEF FreshInv
<1> DEFINE n == Reduced(r.list[a], r.use)
           q == [row[a] EXCEPT !.remaining = n, !.delegationAge = 0, !.resting = TRUE]
<1>4. q.remaining = n /\ n <= row[a].remaining
  <2>1. r.list[a] \in Nat /\ r.use \in Nat /\ r.list[a] <= row[a].remaining
    BY <1>1, <1>2, <1>3 DEF TrackerFresh, TrackerRun
  <2> QED
    BY <1>2, <2>1 DEF Reduced, Row
<1>5. row' = row \/ row' = [row EXCEPT ![a] = q]
  BY <1>3 DEF TrackerCharge, Put
<1> HIDE DEF n, q
<1>6. Lowered /\ \A b \in Addresses : SameCount(b) \/ b = a
  BY <1>2, <1>4, <1>5 DEF Lowered, SameCount
<1>7. incidents' <= incidents
  BY <1>1, <1>2
<1>8. \/ tracker' = [tracker EXCEPT ![t] = TrackerCharged(t)]
      \/ tracker' = [tracker EXCEPT ![t] = [tracker[t] EXCEPT !.pc = "read"]]
  BY DEF TrackerCharge
<1> QED
  BY <1>1, <1>3, <1>6, <1>7, <1>8, TrackerCarriesOn

\* Booking and stamping change no count.
LEMMA TrackerBookFresh ==
  ASSUME FreshInv, SerialInv', ~Overlap, NEW t \in Trackers,
         TrackerRead(t) \/ TrackerBook(t) \/ TrackerStamp(t)
  PROVE  FreshInv' /\ Lowered
<1>1. /\ UNCHANGED monitor /\ tracker[t].pc \in {"read", "book", "stamp"}
      /\ incidents' \in {incidents, incidents - 1}
  BY DEF TrackerRead, TrackerBook, TrackerStamp, TrackerUnchanged, Quiet, Fault, Incident
<1>2. /\ row = [b \in Addresses |-> row[b]] /\ tracker = [u \in Trackers |-> tracker[u]]
      /\ \A b \in Addresses : row[b] \in Row /\ row[b].remaining \in Nat
      /\ incidents \in Nat
  BY FreshTypes DEF FreshInv, SerialInv
<1>3. PICK a \in Addresses : a = tracker[t].cur
  BY <1>1, TrackerFacts DEF FreshInv
<1> DEFINE q == [row[a] EXCEPT !.checked = tracker[t].upTo]
<1>4. q.remaining = row[a].remaining
  BY <1>2 DEF Row
<1>5. row' = row \/ row' = [row EXCEPT ![a] = q]
  BY <1>3 DEF TrackerRead, TrackerBook, TrackerStamp, Put
<1> HIDE DEF q
<1>6. Lowered /\ \A b \in Addresses : SameCount(b)
  BY <1>2, <1>4, <1>5 DEF Lowered, SameCount
<1>7. incidents' <= incidents
  BY <1>1, <1>2
<1>8. \/ tracker' = [tracker EXCEPT ![t] = TrackerNext(t)]
      \/ tracker' = [tracker EXCEPT ![t] = TrackerCharged(t)]
      \/ tracker' = [tracker EXCEPT ![t] = [tracker[t] EXCEPT !.pc = "book"]]
      \/ tracker' = tracker /\ tracker[t].pc = "book"
  <2>1. CASE TrackerRead(t)
    BY <2>1 DEF TrackerRead
  <2>2. CASE TrackerStamp(t)
    BY <2>2 DEF TrackerStamp
  <2>3. CASE TrackerBook(t)
    <3>1. \/ tracker' = [tracker EXCEPT ![t] = TrackerCharged(t)]
          \/ tracker' = [tracker EXCEPT ![t] = tracker[t]]
      BY <2>3, Zenon DEF TrackerBook
    <3> QED
      BY <1>2, <2>3, <3>1 DEF TrackerBook
  <2> QED
    BY <2>1, <2>2, <2>3
<1> QED
  BY <1>1, <1>6, <1>7, <1>8, TrackerCarriesOn

\* A step of the monitor, the only run under way.
LEMMA MonitorFreshStep ==
  ASSUME FreshInv, SerialInv', ~Overlap, monitor.pc # "idle" \/ AllIdle,
         UNCHANGED tracker, incidents' <= incidents, MonitorFresh(monitor)'
  PROVE  FreshInv'
<1>1. MonitorAlone
  BY Alone DEF FreshInv
<1>2. TrackersFresh'
  BY <1>1 DEF MonitorAlone, TrackersIdle, TrackersFresh, TrackerFresh
<1>3. incidents \in Nat /\ incidents' \in Nat
  BY DEF FreshInv, SerialInv, IInv, WorldGood
<1> QED
  BY <1>2, <1>3 DEF FreshInv

\* What the lemmas about the monitor's statements start from.
LEMMA MonitorFreshFacts ==
  ASSUME FreshInv, SerialInv', ~Overlap, monitor.pc # "idle"
  PROVE  /\ MonitorFresh(monitor) /\ MonitorSafe(monitor) /\ monitor \in MonitorRun
         /\ row = [a \in Addresses |-> row[a]]
         /\ \A a \in Addresses : row[a] \in Row /\ row[a].remaining \in Nat /\ monitor.list[a] \in Nat
         /\ monitor.pc \in {"fine", "delegate", "count", "stamp", "write", "read", "book"} =>
              monitor.cur \in Addresses
         /\ incidents \in Nat /\ incidents' \in Nat /\ incidents <= 1
BY FreshTypes, MonitorFacts DEF FreshInv, SerialInv, IInv, WorldGood, MonitorRun

\* The list of the monitor.
LEMMA MonitorStartFresh ==
  ASSUME FreshInv, SerialInv', ~Overlap, MonitorStart
  PROVE  FreshInv' /\ Lowered
<1> DEFINE list == [a \in Addresses |-> IF Listed(a) THEN row[a].remaining ELSE 0]
           todo == {a \in Addresses : Listed(a)}
<1>1. /\ UNCHANGED <<row, tracker, incidents>> /\ AllIdle
      /\ monitor'.pc = "check" /\ monitor'.list = list /\ monitor'.todo = todo /\ monitor'.adjust = {}
  BY Alone DEF MonitorStart, MonitorUnchanged, MonitorIdle, Quiet, FreshInv
<1>2. \A a \in Addresses : a \in todo => list[a] = row[a].remaining
  OBVIOUS
<1>3. incidents \in Nat /\ \A a \in Addresses : row[a].remaining \in Nat
  BY FreshTypes DEF FreshInv, SerialInv
<1> HIDE DEF list, todo
<1>4. MonitorFresh(monitor)'
  BY <1>1, <1>2, <1>3 DEF MonitorFresh
<1> QED
  BY <1>1, <1>3, <1>4, MonitorFreshStep DEF Lowered

\* An address looked at: it leaves the list, and may have to be adjusted.
LEMMA CheckedFresh ==
  ASSUME monitor \in MonitorRun, NEW a \in Addresses, NEW q \in {Checked(a), Measured(a)}
  PROVE  /\ q.pc \in {"check", "fetch"} /\ q.list = monitor.list /\ q.todo = monitor.todo \ {a}
         /\ q.adjust \in {monitor.adjust, monitor.adjust \cup {a}} /\ q.fined = monitor.fined
         /\ q \in MonitorRun
<1>1. monitor.todo \ {a} \in SUBSET Addresses /\ monitor.adjust \cup {a} \in SUBSET Addresses /\ 0 \in Nat
  BY DEF MonitorRun
<1>2. Checked(a) \in MonitorRun
  BY <1>1 DEF Checked, MonitorRun
<1>3. /\ Checked(a).pc \in {"check", "fetch"} /\ Checked(a).list = monitor.list
      /\ Checked(a).todo = monitor.todo \ {a} /\ Checked(a).adjust = monitor.adjust
      /\ Checked(a).fined = monitor.fined
  BY DEF Checked, MonitorRun
<1> HIDE DEF Checked
<1>4. Measured(a) \in {Checked(a), [Checked(a) EXCEPT !.adjust = monitor.adjust \cup {a}]}
  <2>1. CASE energy[a] < Full
    BY <1>3, <2>1 DEF Measured
  <2>2. CASE ~(energy[a] < Full)
    <3>1. Measured(a) = [Checked(a) EXCEPT !.adjust = monitor.adjust]
      BY <1>3, <2>2 DEF Measured
    <3> QED
      BY <1>2, <1>3, <3>1 DEF MonitorRun
  <2> QED
    BY <2>1, <2>2
<1> QED
  BY <1>1, <1>2, <1>3, <1>4 DEF MonitorRun

\* It looks at an address; the row it may fine is read here.
LEMMA MonitorCheckFresh ==
  ASSUME FreshInv, SerialInv', ~Overlap, NEW a \in Addresses, MonitorCheck(a)
  PROVE  FreshInv' /\ Lowered
<1>1. /\ UNCHANGED <<row, tracker>> /\ monitor.pc = "check" /\ a \in monitor.todo
      /\ incidents' \in {incidents, incidents - 1}
  BY DEF MonitorCheck, MonitorUnchanged, Quiet, Fault, Incident
<1>2. /\ MonitorFresh(monitor) /\ monitor \in MonitorRun
      /\ \A b \in Addresses : row[b].remaining \in Nat /\ monitor.list[b] \in Nat
      /\ incidents \in Nat /\ incidents' \in Nat
  BY <1>1, MonitorFreshFacts
<1>3. incidents' <= incidents
  BY <1>1, <1>2
<1>4. monitor.list[a] <= row[a].remaining
  BY <1>1, <1>2 DEF MonitorFresh
<1>5. CASE monitor' \in {Checked(a), Measured(a)}
  <2>1. /\ monitor'.pc \in {"check", "fetch"} /\ monitor'.list = monitor.list
        /\ monitor'.todo = monitor.todo \ {a}
        /\ monitor'.adjust \in {monitor.adjust, monitor.adjust \cup {a}}
        /\ monitor'.fined = monitor.fined
    BY <1>2, <1>5, CheckedFresh
  <2>2. MonitorFresh(monitor)'
    BY <1>1, <1>2, <1>3, <1>4, <2>1 DEF MonitorFresh, Close
  <2> QED
    BY <1>1, <1>2, <1>3, <2>2, MonitorFreshStep DEF Lowered
<1>6. CASE /\ PenaltyDue(row[a])
           /\ monitor' = [monitor EXCEPT !.pc = "fine", !.cur = a, !.use = row[a].remaining]
  <2>1. /\ monitor'.pc = "fine" /\ monitor'.cur = a /\ monitor'.use = row[a].remaining
        /\ monitor'.list = monitor.list /\ monitor'.todo = monitor.todo
        /\ monitor'.adjust = monitor.adjust /\ monitor'.fined = monitor.fined
    BY <1>2, <1>6 DEF MonitorRun
  <2>2. row[a].remaining > 0
    BY <1>6 DEF PenaltyDue
  <2>3. MonitorFresh(monitor)'
    BY <1>1, <1>2, <1>3, <1>4, <2>1, <2>2 DEF MonitorFresh, Close
  <2> QED
    BY <1>1, <1>2, <1>3, <2>3, MonitorFreshStep DEF Lowered
<1> QED
  BY <1>5, <1>6 DEF MonitorCheck

\* A fine takes one of the row and leaves the list as it is.
LEMMA MonitorFineFresh ==
  ASSUME FreshInv, SerialInv', ~Overlap, MonitorFine
  PROVE  FreshInv' /\ Lowered
<1>1. UNCHANGED tracker /\ monitor.pc = "fine" /\ incidents' \in {incidents, incidents - 1}
  BY DEF MonitorFine, MonitorUnchanged, Quiet, Fault, Incident
<1>2. /\ MonitorFresh(monitor) /\ MonitorSafe(monitor) /\ monitor \in MonitorRun
      /\ row = [b \in Addresses |-> row[b]]
      /\ \A b \in Addresses : row[b] \in Row /\ row[b].remaining \in Nat /\ monitor.list[b] \in Nat
      /\ incidents \in Nat /\ incidents' \in Nat /\ incidents <= 1
  BY <1>1, MonitorFreshFacts
<1>3. PICK a \in Addresses : a = monitor.cur
  BY <1>1, MonitorFreshFacts
<1> DEFINE n == Reduced(monitor.use, 1)
           f == [row[a] EXCEPT !.remaining = n, !.penaltyAge = 0, !.penalties = @ + 1, !.resting = TRUE]
<1>4. f.remaining = row[a].remaining - 1 /\ row[a].remaining > 0 /\ monitor.list[a] <= row[a].remaining
  BY <1>1, <1>2, <1>3 DEF MonitorFresh, Reduced, Row
<1>5. row' = row \/ row' = [row EXCEPT ![a] = f]
  BY <1>3 DEF MonitorFine, Put
<1>6. /\ \A b \in Addresses \ {a} : SameCount(b)
      /\ monitor.list[a] <= row'[a].remaining + 1 /\ row'[a].remaining \in Nat
      /\ row'[a].remaining <= row[a].remaining
  <2> HIDE DEF f
  <2> QED
    BY <1>2, <1>4, <1>5 DEF SameCount
<1>7. Lowered
  BY <1>2, <1>6 DEF Lowered, SameCount
<1>8. /\ monitor'.pc \in {"check", "fetch"} /\ monitor'.list = monitor.list
      /\ monitor'.todo = monitor.todo \ {a}
      /\ monitor'.adjust \in {monitor.adjust, monitor.adjust \cup {a}}
      /\ \A b \in monitor.fined : b \in monitor'.fined
      /\ a \in monitor'.fined \/ incidents' = 0
  <2>1. CASE monitor' = [Checked(a) EXCEPT !.adjust = @ \cup {a}, !.fined = @ \cup {a}]
    BY <1>2, <2>1, CheckedFresh DEF MonitorRun
  <2>2. CASE Fault /\ monitor' \in {Checked(a), Measured(a)}
    <3>1. incidents' = 0
      BY <1>2, <2>2 DEF Fault, Incident
    <3> QED
      BY <1>2, <2>2, <3>1, CheckedFresh
  <2> QED
    BY <1>3, <2>1, <2>2 DEF MonitorFine
<1>9. incidents' <= incidents
  BY <1>1, <1>2
<1>10. MonitorFresh(monitor)'
  BY <1>1, <1>2, <1>6, <1>8, <1>9 DEF MonitorFresh, Close, SameCount
<1> QED
  BY <1>1, <1>7, <1>9, <1>10, MonitorFreshStep

\* The monitor is done with the address in its hands, or books for it.
LEMMA MonitorCarriesOn ==
  ASSUME FreshInv, SerialInv', ~Overlap,
         monitor.pc \in {"delegate", "write", "read", "book"},
         monitor' \in {MonitorNext, [monitor EXCEPT !.pc = "read"], [monitor EXCEPT !.pc = "book"]},
         UNCHANGED tracker, incidents' <= incidents,
         \A a \in Addresses : SameCount(a) \/ a = monitor.cur
  PROVE  FreshInv'
<1>1. MonitorFresh(monitor) /\ MonitorSafe(monitor) /\ monitor \in MonitorRun
      /\ incidents \in Nat /\ incidents' \in Nat
  BY MonitorFreshFacts
<1>2. monitor.todo = {} /\ monitor.cur \notin monitor.adjust
  BY <1>1 DEF MonitorSafe
<1>3. /\ monitor'.pc \in {"idle", "adjust", "read", "book"}
      /\ monitor'.pc # "idle" => /\ monitor'.list = monitor.list /\ monitor'.todo = monitor.todo
                                /\ monitor'.adjust = monitor.adjust /\ monitor'.fined = monitor.fined
  <2>1. CASE monitor' = MonitorNext
    BY <1>1, <2>1 DEF MonitorNext, MonitorIdle, MonitorRun
  <2>2. CASE monitor' \in {[monitor EXCEPT !.pc = "read"], [monitor EXCEPT !.pc = "book"]}
    BY <1>1, <2>2 DEF MonitorRun
  <2> QED
    BY <2>1, <2>2
<1>4. \A a \in Addresses : a \in monitor.adjust => SameCount(a) /\ Close(monitor, a)
  BY <1>1, <1>2 DEF MonitorFresh
<1>5. ASSUME NEW a \in Addresses, a \in monitor.adjust, monitor'.pc # "idle"
      PROVE  Close(monitor, a)'
  <2>1. /\ monitor'.list = monitor.list /\ monitor'.fined = monitor.fined
        /\ row'[a].remaining = row[a].remaining /\ Close(monitor, a)
    BY <1>3, <1>4, <1>5 DEF SameCount
  <2>2. incidents = 0 => incidents' = 0
    BY <1>1
  <2> QED
    BY <2>1, <2>2 DEF Close
<1>6. MonitorFresh(monitor)'
  BY <1>2, <1>3, <1>5 DEF MonitorFresh
<1> QED
  BY <1>6, MonitorFreshStep

\* The calls to the chain: an address fined in this run is charged for the fine.
LEMMA MonitorDelegateFresh ==
  ASSUME FreshInv, SerialInv', ~Overlap,
         MonitorFetch \/ MonitorDelegate \/ (\E a \in Addresses : MonitorReclaim(a))
  PROVE  FreshInv' /\ Lowered
<1>1. /\ UNCHANGED <<row, tracker>> /\ monitor.pc \in {"fetch", "adjust", "delegate"}
      /\ incidents' \in {incidents, incidents - 1}
  BY DEF MonitorFetch, MonitorDelegate, MonitorReclaim, MonitorUnchanged, Quiet, Fault, Refusal, Incident
<1>2. /\ MonitorFresh(monitor) /\ MonitorSafe(monitor) /\ monitor \in MonitorRun
      /\ \A b \in Addresses : row[b].remaining \in Nat /\ monitor.list[b] \in Nat
      /\ incidents \in Nat /\ incidents' \in Nat
  BY <1>1, MonitorFreshFacts
<1>3. incidents' <= incidents /\ Lowered /\ \A a \in Addresses : SameCount(a)
  BY <1>1, <1>2 DEF Lowered, SameCount
<1>4. monitor.todo = {}
  BY <1>1, <1>2 DEF MonitorSafe
<1>5. CASE MonitorFetch
  <2>1. monitor' = MonitorIdle \/ monitor' = [monitor EXCEPT !.pc = "adjust"]
    BY <1>5 DEF MonitorFetch, Aborted
  <2>2. /\ monitor'.pc \in {"idle", "adjust"}
        /\ monitor'.pc # "idle" => /\ monitor'.list = monitor.list /\ monitor'.todo = {}
                                  /\ monitor'.adjust = monitor.adjust /\ monitor'.fined = monitor.fined
    BY <1>2, <1>4, <2>1 DEF MonitorIdle, MonitorRun
  <2>3. MonitorFresh(monitor)'
    BY <1>1, <1>2, <1>3, <2>2 DEF MonitorFresh, Close
  <2> QED
    BY <1>1, <1>3, <2>3, MonitorFreshStep
<1>6. ASSUME NEW a \in Addresses, MonitorReclaim(a) PROVE FreshInv'
  <2>1. /\ monitor'.pc = "delegate" /\ monitor'.list = monitor.list /\ monitor'.todo = {}
        /\ monitor'.adjust = monitor.adjust \ {a} /\ monitor'.fined = monitor.fined
        /\ monitor'.cur = a /\ a \in monitor.adjust
    BY <1>2, <1>4, <1>6 DEF MonitorReclaim, MonitorRun
  <2>2. MonitorFresh(monitor)'
    BY <1>1, <1>2, <1>3, <2>1 DEF MonitorFresh, Close
  <2> QED
    BY <1>1, <1>3, <2>2, MonitorFreshStep
<1>7. CASE MonitorDelegate
  <2>1. monitor.pc = "delegate" /\ monitor' \in {Delegated, MonitorNext}
    BY <1>7 DEF MonitorDelegate
  <2>2. PICK a \in Addresses : a = monitor.cur
    BY <2>1, MonitorFreshFacts
  <2>3. CASE monitor' = MonitorNext
    BY <1>1, <1>3, <2>1, <2>3, MonitorCarriesOn
  <2>4. CASE monitor' = Delegated
    <3>1. /\ \/ monitor'.pc = "write" /\ monitor'.use = 1
             \/ monitor'.pc = "count" /\ a \notin monitor'.fined
          /\ monitor'.list = monitor.list /\ monitor'.todo = {} /\ monitor'.cur = a
          /\ monitor'.adjust = monitor.adjust /\ monitor'.fined = monitor.fined
      BY <1>2, <1>4, <2>2, <2>4 DEF Delegated, MonitorRun
    <3>2. Close(monitor, a)
      BY <1>2, <2>1, <2>2 DEF MonitorFresh
    <3>3. MonitorFresh(monitor)'
      BY <1>1, <1>2, <1>3, <3>1, <3>2 DEF MonitorFresh, Close
    <3> QED
      BY <1>1, <1>3, <3>3, MonitorFreshStep
  <2> QED
    BY <2>1, <2>3, <2>4
<1> QED
  BY <1>3, <1>5, <1>6, <1>7

\* What a search that succeeds charges makes up for what the list is too high.
LEMMA MonitorCountFresh ==
  ASSUME FreshInv, SerialInv', ~Overlap, MonitorCount \/ MonitorStamp
  PROVE  FreshInv' /\ Lowered
<1>1. /\ UNCHANGED tracker /\ monitor.pc \in {"count", "stamp"}
      /\ incidents' \in {incidents, incidents - 1}
  BY DEF MonitorCount, MonitorStamp, MonitorUnchanged, Quiet, Fault, Incident
<1>2. /\ MonitorFresh(monitor) /\ MonitorSafe(monitor) /\ monitor \in MonitorRun
      /\ row = [b \in Addresses |-> row[b]]
      /\ \A b \in Addresses : row[b] \in Row /\ row[b].remaining \in Nat /\ monitor.list[b] \in Nat
      /\ incidents \in Nat /\ incidents' \in Nat
  BY <1>1, MonitorFreshFacts
<1>3. PICK a \in Addresses : a = monitor.cur
  BY <1>1, MonitorFreshFacts
<1>4. Close(monitor, a) /\ a \notin monitor.fined /\ monitor.todo = {}
  BY <1>1, <1>2, <1>3 DEF MonitorFresh, MonitorSafe
<1>5. incidents' <= incidents /\ Lowered /\ \A b \in Addresses : SameCount(b)
  <2> DEFINE q == [row[a] EXCEPT !.checked = made[a]]
  <2>1. q.remaining = row[a].remaining
    BY <1>2 DEF Row
  <2>2. row' = row \/ row' = [row EXCEPT ![a] = q]
    BY <1>3 DEF MonitorCount, MonitorStamp, Put
  <2> HIDE DEF q
  <2>3. \A b \in Addresses : SameCount(b)
    <3>1. ASSUME NEW b \in Addresses PROVE row'[b] = row[b] \/ (b = a /\ row'[b] = q)
      BY <1>2, <2>2
    <3> QED
      BY <2>1, <3>1 DEF SameCount
  <2>4. incidents' <= incidents
    <3> /\ incidents \in Nat
        /\ incidents' = incidents \/ incidents' = incidents - 1
      BY <1>1, <1>2
    <3> QED
      OBVIOUS
  <2>5. Lowered
    <3>1. ASSUME NEW b \in Addresses PROVE row'[b].remaining <= row[b].remaining
      <4>1. row[b].remaining \in Nat
        BY <1>2, Zenon
      <4>2. row'[b].remaining = row[b].remaining
        BY <2>3, Zenon DEF SameCount
      <4> QED
        BY <4>1, <4>2
    <3> QED
      BY <3>1 DEF Lowered
  <2> QED
    BY <2>3, <2>4, <2>5
<1>6. /\ monitor'.pc \in {"stamp", "write"}
      /\ monitor'.list = monitor.list /\ monitor'.todo = monitor.todo /\ monitor'.cur = monitor.cur
      /\ monitor'.adjust = monitor.adjust /\ monitor'.fined = monitor.fined
      /\ monitor.list[a] <= row[a].remaining + monitor'.use
  <2>1. CASE incidents' = incidents - 1 /\ incidents > 0 /\ monitor' = [monitor EXCEPT !.pc = "write", !.use = 0]
    BY <1>2, <1>4, <2>1 DEF Close, MonitorRun
  <2>2. CASE monitor.pc = "stamp" /\ monitor' = [monitor EXCEPT !.pc = "write"]
    BY <1>2, <1>3, <2>2 DEF MonitorFresh, MonitorRun
  <2>3. ASSUME NEW k \in Since(a, row[a].checked),
               monitor' = [monitor EXCEPT !.pc = "stamp", !.use = Lesser(monitor.list[a],
                 IF made[a] > k THEN made[a] - k ELSE EnergyBased(monitor.level))]
        PROVE  /\ monitor'.pc \in {"stamp", "write"}
               /\ monitor'.list = monitor.list /\ monitor'.todo = monitor.todo /\ monitor'.cur = monitor.cur
               /\ monitor'.adjust = monitor.adjust /\ monitor'.fined = monitor.fined
               /\ monitor.list[a] <= row[a].remaining + monitor'.use
    <3> DEFINE p == IF made[a] > k THEN made[a] - k ELSE EnergyBased(monitor.level)
    <3>1. made[a] \in Int /\ k \in Int
      <4>1. made[a] \in Nat
        BY UpkeepAssumption DEF FreshInv, SerialInv, IInv, WorldGood
      <4>2. row[a].checked \in Int
        BY <1>2, UpkeepAssumption DEF Row, Marks, Never
      <4> QED
        BY <4>1, <4>2 DEF Since
    <3>2. p \in Nat /\ p >= 1
      BY <3>1 DEF EnergyBased
    <3> HIDE DEF p
    <3>3. monitor.list[a] <= row[a].remaining + Lesser(monitor.list[a], p)
      BY <1>2, <1>4, <3>2 DEF Close, Lesser
    <3>4. monitor' = [monitor EXCEPT !.pc = "stamp", !.use = Lesser(monitor.list[a], p)]
      BY <2>3 DEF p
    <3> QED
      BY <1>2, <3>3, <3>4 DEF MonitorRun
  <2> QED
    BY <1>3, <2>1, <2>2, <2>3 DEF MonitorCount, MonitorStamp, Fault, Incident
<1>7. MonitorFresh(monitor)'
  BY <1>1, <1>2, <1>3, <1>4, <1>5, <1>6 DEF MonitorFresh, Close, SameCount
<1> QED
  BY <1>1, <1>5, <1>7, MonitorFreshStep

\* The count written is the list's without what was used: the row's, or less.
LEMMA MonitorWriteFresh ==
  ASSUME FreshInv, SerialInv', ~Overlap, MonitorWrite
  PROVE  FreshInv' /\ Lowered
<1>1. UNCHANGED tracker /\ monitor.pc = "write" /\ incidents' \in {incidents, incidents - 1}
  BY DEF MonitorWrite, MonitorUnchanged, Quiet, Fault, Incident
<1>2. /\ MonitorFresh(monitor) /\ monitor \in MonitorRun
      /\ row = [b \in Addresses |-> row[b]]
      /\ \A b \in Addresses : row[b] \in Row /\ row[b].remaining \in Nat /\ monitor.list[b] \in Nat
      /\ incidents \in Nat /\ incidents' \in Nat
  BY <1>1, MonitorFreshFacts
<1>3. PICK a \in Addresses : a = monitor.cur
  BY <1>1, MonitorFreshFacts
<1> DEFINE n == Reduced(monitor.list[a], monitor.use)
           q == [row[a] EXCEPT !.remaining = n, !.delegationAge = 0, !.resting = TRUE]
<1>4. q.remaining = n /\ n <= row[a].remaining
  <2>1. monitor.use \in Nat /\ monitor.list[a] <= row[a].remaining + monitor.use
    BY <1>1, <1>2, <1>3 DEF MonitorFresh, MonitorRun
  <2> QED
    BY <1>2, <2>1 DEF Reduced, Row
<1>5. row' = row \/ row' = [row EXCEPT ![a] = q]
  BY <1>3 DEF MonitorWrite, Put
<1> HIDE DEF n, q
<1>6. Lowered /\ \A b \in Addresses : SameCount(b) \/ b = a
  BY <1>2, <1>4, <1>5 DEF Lowered, SameCount
<1>7. monitor' = MonitorNext \/ monitor' = [monitor EXCEPT !.pc = "read"]
  BY DEF MonitorWrite
<1>8. incidents' <= incidents
  BY <1>1, <1>2
<1> QED
  BY <1>1, <1>3, <1>6, <1>7, <1>8, MonitorCarriesOn

\* Booking changes no count.
LEMMA MonitorBookFresh ==
  ASSUME FreshInv, SerialInv', ~Overlap, MonitorRead \/ MonitorBook
  PROVE  FreshInv' /\ Lowered
<1>1. /\ UNCHANGED <<row, tracker>> /\ monitor.pc \in {"read", "book"}
      /\ incidents' \in {incidents, incidents - 1}
  BY DEF MonitorRead, MonitorBook, MonitorUnchanged, Quiet, Fault, Incident
<1>2. incidents \in Nat /\ \A b \in Addresses : row[b].remaining \in Nat
  BY <1>1, MonitorFreshFacts
<1>3. incidents' <= incidents /\ Lowered /\ \A b \in Addresses : SameCount(b)
  BY <1>1, <1>2 DEF Lowered, SameCount
<1>4. monitor' = MonitorNext \/ monitor' = [monitor EXCEPT !.pc = "book"]
  <2>1. monitor.pc = "book" => monitor = [monitor EXCEPT !.pc = "book"]
    BY <1>1, MonitorFreshFacts DEF MonitorRun
  <2> QED
    BY <2>1 DEF MonitorRead, MonitorBook
<1> QED
  BY <1>1, <1>3, <1>4, MonitorCarriesOn

\* Every step keeps the invariant, and raises no count but for a purchase or an
\* administrator.
LEMMA FreshNext ==
  ASSUME FreshInv, ~Overlap, [Next]_vars
  PROVE  /\ FreshInv'
         /\ \A a \in Addresses : row'[a].remaining > row[a].remaining =>
              bought'[a] > bought[a] \/ row'[a].remaining <= highest'[a]
<1>0. SerialInv'
  BY SerialNext DEF FreshInv
<1>1. CASE FreshInv' /\ Lowered
  <2>1. \A a \in Addresses : row[a].remaining \in Nat /\ row'[a].remaining \in Nat
    BY <1>0, FreshTypes DEF FreshInv, SerialInv, IInv, RowsGood, RowGood, Row
  <2> QED
    BY <1>1, <2>1 DEF Lowered
<1>2. ASSUME NEW a \in Addresses,
             \/ \E n \in Amounts : Recharge(a, n)
             \/ \E n \in SetCounts : SetCount(a, n)
      PROVE  /\ FreshInv'
             /\ \A b \in Addresses : row'[b].remaining > row[b].remaining =>
                  bought'[b] > bought[b] \/ row'[b].remaining <= highest'[b]
  BY <1>0, <1>2, RechargeFresh
<1>3. CASE \/ \E a \in Addresses : Suspend(a) \/ ResumeRead(a) \/ Transfer(a) \/ SpendElsewhere(a)
           \/ ResumeWrite \/ MinutesPass \/ HalfDayPasses \/ FinalStart \/ FinalStep \/ UNCHANGED vars
  BY <1>0, <1>1, <1>3, OthersFresh
<1>4. CASE Restart
  BY <1>0, <1>1, <1>4, RestartFresh
<1>5. CASE MonitorStart \/ MonitorStep
  BY <1>0, <1>1, <1>5, MonitorStartFresh, MonitorCheckFresh, MonitorFineFresh, MonitorDelegateFresh,
     MonitorCountFresh, MonitorWriteFresh, MonitorBookFresh DEF MonitorStep
<1>6. ASSUME NEW t \in Trackers,
             TrackerStart(t) \/ TrackerStep(t) \/ (\E a \in Addresses : Audit(t, a))
      PROVE  FreshInv' /\ Lowered
  BY <1>0, <1>6, TrackerStartFresh, TrackerFetchFresh, TrackerChargeFresh, TrackerBookFresh
     DEF TrackerStep
<1> QED
  BY <1>1, <1>2, <1>3, <1>4, <1>5, <1>6 DEF Next

\* Where runs, requests and edits wait for each other, and at most one of them
\* fails, the count of an address grows by a purchase or the hand of an
\* administrator only: neither monitor nor tracker ever writes back a count it
\* read before another statement lowered the row.  A second failure in one run of
\* the monitor would bring back the transaction a fine has taken.
THEOREM CountsOnlyBought == ~Overlap /\ Incidents <= 1 /\ Spec => OnlyPurchasesRaise
<1>1. ASSUME ~Overlap, Incidents <= 1 PROVE Spec => OnlyPurchasesRaise
  <2>1. Init => FreshInv
    <3> SUFFICES ASSUME Init PROVE FreshInv
      OBVIOUS
    <3>1. monitor.pc = "idle" /\ (\A t \in Trackers : tracker[t].pc = "idle") /\ incidents <= 1
      BY <1>1 DEF Init, MonitorIdle, TrackerIdle
    <3> QED
      BY <3>1, SerialInit DEF FreshInv, TrackersFresh, TrackerFresh, MonitorFresh
  <2>2. FreshInv /\ [Next]_vars => FreshInv'
    BY <1>1, FreshNext
  <2>3. FreshInv /\ [Next]_vars =>
          [\A a \in Addresses : row'[a].remaining > row[a].remaining =>
             bought'[a] > bought[a] \/ row'[a].remaining <= highest'[a]]_vars
    BY <1>1, FreshNext
  <2> QED
    BY <2>1, <2>2, <2>3, PTL DEF Spec, OnlyPurchasesRaise
<1> QED
  BY <1>1
=============================================================================
