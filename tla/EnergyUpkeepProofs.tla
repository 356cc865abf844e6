------------------------- MODULE EnergyUpkeepProofs -------------------------
(***************************************************************************)
(* What holds of EnergyUpkeep however its runs overlap, whatever fails and *)
(* for every value of the constants.  The invariant says of every number a *)
(* worker carries from a read to a write what the row itself satisfies, so *)
(* that writing it back, however late, breaks nothing.                     *)
(***************************************************************************)
EXTENDS EnergyUpkeep, SequenceTheorems, TLAPS

Entitled(a) == bought[a] + highest[a]

\* Ages and fines of a row: a day passes before each fine.
AgesGood(r) ==
  /\ r.delegationAge # Never => r.delegationAge <= halfDays
  /\ r.penaltyAge = Never => r.penalties = 0
  /\ r.penaltyAge # Never => r.penalties * 2 + r.penaltyAge <= halfDays

RowGood(r, a) ==
  /\ r \in Row
  /\ r.remaining <= Entitled(a)
  /\ r.checked <= made[a]
  /\ AgesGood(r)

RowsGood == row = [a \in Addresses |-> row[a]] /\ \A a \in Addresses : RowGood(row[a], a)

\* What a tracker read is still an entitlement and a moment of the past.
TrackerGood(r) ==
  /\ r \in TrackerRun
  /\ r.pc \in {"charge", "read", "book", "stamp"} => r.cur \in Addresses
  /\ \A a \in Addresses : r.list[a] <= Entitled(a) /\ r.marks[a] <= made[a]
  /\ r.pc = "stamp" => r.upTo <= made[r.cur]
  /\ r.pc \in {"charge", "read", "book"} => r.upTo <= made[r.cur]

TrackersGood ==
  tracker = [t \in Trackers |-> tracker[t]] /\ \A t \in Trackers : TrackerGood(tracker[t])

\* A fine about to be written is due.
FineGood(m) ==
  m.pc = "fine" =>
    /\ m.cur \in Addresses
    /\ m.use <= Entitled(m.cur)
    /\ halfDays >= 2
    /\ row[m.cur].penaltyAge \in {Never, Day}

MonitorGood(m) ==
  /\ m \in MonitorRun
  /\ m.pc \in {"fine", "delegate", "count", "stamp", "write", "read", "book"} => m.cur \in Addresses
  /\ \A a \in Addresses : m.list[a] <= Entitled(a)

FinalGood  == final \in FinalRun /\ (final.pc = "mark" => final.cur \in Addresses)
ResumeGood == /\ resume \in [pc : {"idle", "write"}, cur : Addresses \cup {"none"}, ids : SUBSET Nat]
              /\ resume.pc = "write" => resume.cur \in Addresses

DeliveriesGood ==
  deliveries \in [Addresses -> Seq(Delivery)] /\ DeliveredWithinTotal

\* A copy of deliveries: each was read no higher than its total.
CopyGood(h, a) ==
  h # NoHanding =>
    /\ h.left \in Nat
    /\ \A i \in DOMAIN h.copy :
         /\ i \in DOMAIN deliveries[a]
         /\ h.copy[i] \in Nat
         /\ h.copy[i] <= deliveries[a][i].total

Booking(w) == IF w = "monitor" THEN monitor.pc = "book" ELSE tracker[w].pc = "book"
CurOf(w)   == IF w = "monitor" THEN monitor.cur ELSE tracker[w].cur

HandingGood ==
  /\ handing = [w \in Workers |-> handing[w]]
  /\ \A w \in Workers : IF Booking(w) THEN CopyGood(handing[w], CurOf(w)) ELSE handing[w] = NoHanding

WorldGood ==
  /\ delegated \subseteq Addresses
  /\ energy \in [Addresses -> 0 .. Full]
  /\ made \in [Addresses -> 0 .. MaxTransfers]
  /\ bought \in [Addresses -> Nat]
  /\ highest \in [Addresses -> Nat]
  /\ halfDays \in Nat
  /\ incidents \in Nat
  /\ refused \subseteq Addresses

IInv ==
  /\ RowsGood /\ TrackersGood /\ MonitorGood(monitor) /\ FineGood(monitor)
  /\ FinalGood /\ ResumeGood /\ DeliveriesGood /\ HandingGood /\ WorldGood

-----------------------------------------------------------------------------
(* Frames: what a write of one variable leaves intact.                     *)

History == <<bought, highest, made, halfDays>>

\* Writing a good row keeps all rows good.
LEMMA PutGood ==
  ASSUME RowsGood, NEW a \in Addresses, NEW r, RowGood(r, a), Put(a, r), UNCHANGED History
  PROVE  RowsGood'
<1>1. row' = [b \in Addresses |-> IF b = a THEN r ELSE row[b]]
  BY DEF Put, RowsGood
<1>2. ASSUME NEW b \in Addresses PROVE RowGood(row'[b], b)
  BY <1>1, <1>2 DEF RowsGood
<1>3. ASSUME NEW b \in Addresses PROVE RowGood(row[b], b)'
  BY <1>2, <1>3 DEF RowGood, Entitled, AgesGood, History
<1> QED
  BY <1>1, <1>3 DEF RowsGood

\* A tracker that moves to a good run keeps all trackers good.
LEMMA MoveGood ==
  ASSUME TrackersGood, NEW t \in Trackers, NEW r, TrackerGood(r),
         tracker' = [tracker EXCEPT ![t] = r], UNCHANGED History
  PROVE  TrackersGood'
<1>1. tracker' = [u \in Trackers |-> IF u = t THEN r ELSE tracker[u]]
  BY DEF TrackersGood
<1>2. ASSUME NEW u \in Trackers PROVE TrackerGood(tracker'[u])
  BY <1>1, <1>2 DEF TrackersGood
<1>3. ASSUME NEW u \in Trackers PROVE TrackerGood(tracker[u])'
  BY <1>2, <1>3 DEF TrackerGood, Entitled, History
<1> QED
  BY <1>1, <1>3 DEF TrackersGood

\* History only grows: what was good stays so.
LEMMA MonitorFrame ==
  ASSUME NEW m, MonitorGood(m), UNCHANGED History
  PROVE  MonitorGood(m)'
BY DEF MonitorGood, Entitled, History

\* Only the monitor's own fine makes the age of a penalty zero.
LEMMA FineFrame ==
  ASSUME FineGood(monitor), RowsGood, NEW a \in Addresses, NEW r, Put(a, r),
         r.penaltyAge = row[a].penaltyAge, UNCHANGED History, UNCHANGED monitor
  PROVE  FineGood(monitor)'
BY DEF FineGood, RowsGood, Put, Entitled, History

\* Deliveries keep their totals, and none disappears.
Kept == \A a \in Addresses : \A i \in DOMAIN deliveries[a] :
          /\ i \in DOMAIN deliveries'[a]
          /\ deliveries'[a][i].total = deliveries[a][i].total

LEMMA CopyFrame ==
  ASSUME NEW h, NEW a \in Addresses, CopyGood(h, a), Kept
  PROVE  CopyGood(h, a)'
BY DEF CopyGood, Kept, NoHanding

LEMMA HandingFrame ==
  ASSUME IInv, Kept, UNCHANGED <<handing, monitor, tracker>>
  PROVE  HandingGood'
<1>1. ASSUME NEW w \in Workers, Booking(w) PROVE CurOf(w) \in Addresses
  BY <1>1 DEF IInv, Booking, CurOf, MonitorGood, TrackersGood, TrackerGood, Workers
<1>2. ASSUME NEW w \in Workers PROVE Booking(w)' = Booking(w) /\ CurOf(w)' = CurOf(w)
  BY DEF Booking, CurOf
<1>3. ASSUME NEW w \in Workers, Booking(w) PROVE CopyGood(handing[w], CurOf(w))'
  <2>1. CopyGood(handing[w], CurOf(w))
    BY <1>3 DEF IInv, HandingGood
  <2>2. CopyGood(handing[w], CurOf(w)) /\ handing[w]' = handing[w]
    BY <2>1
  <2> QED
    BY <2>2, <1>1, <1>2, <1>3 DEF CopyGood, Kept, NoHanding
<1> QED
  BY <1>2, <1>3 DEF IInv, HandingGood

\* An idle run is good.
LEMMA IdleGood ==
  ASSUME WorldGood
  PROVE  TrackerGood(TrackerIdle) /\ MonitorGood(MonitorIdle) /\ FinalIdle \in FinalRun
BY UpkeepAssumption DEF WorldGood, TrackerGood, TrackerIdle, TrackerRun, Marks, Never, MonitorGood,
   MonitorIdle, MonitorRun, Full, Entitled, FinalIdle, FinalRun

LEMMA TrackerHanding ==
  ASSUME IInv, NEW t \in Trackers, NEW r, tracker' = [tracker EXCEPT ![t] = r],
         NEW h, handing' = [handing EXCEPT ![t] = h], Kept, UNCHANGED monitor,
         IF r.pc = "book" THEN CopyGood(h, r.cur)' ELSE h = NoHanding
  PROVE  HandingGood'
<1>1. handing' = [w \in Workers |-> IF w = t THEN h ELSE handing[w]]
  BY DEF IInv, HandingGood
<1>2. tracker' = [u \in Trackers |-> IF u = t THEN r ELSE tracker[u]]
  BY DEF IInv, TrackersGood
<1>3. ASSUME NEW w \in Workers
      PROVE  IF Booking(w)' THEN CopyGood(handing[w], CurOf(w))' ELSE handing'[w] = NoHanding
  <2>1. CASE w = t
    BY <2>1, <1>1, <1>2, UpkeepAssumption DEF Booking, CurOf, CopyGood, Workers
  <2>2. CASE w # t
    <3>1. Booking(w)' = Booking(w) /\ CurOf(w)' = CurOf(w) /\ handing'[w] = handing[w]
      BY <2>2, <1>1, <1>2 DEF Booking, CurOf, Workers
    <3>2. CASE Booking(w)
      <4>1. CopyGood(handing[w], CurOf(w)) /\ CurOf(w) \in Addresses
        BY <3>2 DEF IInv, HandingGood, Booking, CurOf, MonitorGood, TrackersGood, TrackerGood, Workers
      <4>2. Kept
        OBVIOUS
      <4> QED
        BY <4>1, <4>2, <3>1, <3>2 DEF CopyGood, Kept, NoHanding
    <3>3. CASE ~Booking(w)
      BY <3>1, <3>3 DEF IInv, HandingGood
    <3> QED
      BY <3>2, <3>3
  <2> QED
    BY <2>1, <2>2
<1> QED
  BY <1>1, <1>3 DEF HandingGood

LEMMA MonitorHanding ==
  ASSUME IInv, NEW h, handing' = [handing EXCEPT !["monitor"] = h], Kept, UNCHANGED tracker,
         IF monitor'.pc = "book" THEN CopyGood(h, monitor.cur)' ELSE h = NoHanding
  PROVE  HandingGood'
<1>1. handing' = [w \in Workers |-> IF w = "monitor" THEN h ELSE handing[w]]
  BY DEF IInv, HandingGood
<1>3. ASSUME NEW w \in Workers
      PROVE  IF Booking(w)' THEN CopyGood(handing[w], CurOf(w))' ELSE handing'[w] = NoHanding
  <2>1. CASE w = "monitor"
    BY <2>1, <1>1 DEF Booking, CurOf, CopyGood, Workers
  <2>2. CASE w # "monitor"
    <3>1. Booking(w)' = Booking(w) /\ CurOf(w)' = CurOf(w) /\ handing'[w] = handing[w]
      BY <2>2, <1>1 DEF Booking, CurOf, Workers
    <3>2. CASE Booking(w)
      <4>1. CopyGood(handing[w], CurOf(w)) /\ CurOf(w) \in Addresses
        BY <2>2, <3>2 DEF IInv, HandingGood, Booking, CurOf, TrackersGood, TrackerGood, Workers
      <4>2. Kept
        OBVIOUS
      <4> QED
        BY <4>1, <4>2, <3>1, <3>2 DEF CopyGood, Kept, NoHanding
    <3>3. CASE ~Booking(w)
      BY <3>1, <3>3 DEF IInv, HandingGood
    <3> QED
      BY <3>2, <3>3
  <2> QED
    BY <2>1, <2>2
<1> QED
  BY <1>1, <1>3 DEF HandingGood

LEMMA KeptSame ==
  ASSUME UNCHANGED deliveries
  PROVE  Kept
BY DEF Kept

\* What one statement may do to the fault counters.
LEMMA FaultsGood ==
  ASSUME IInv, Quiet \/ Fault \/ (\E a \in Addresses : Refusal(a))
  PROVE  incidents' \in Nat /\ refused' \subseteq Addresses
<1>1. incidents \in Nat /\ refused \subseteq Addresses
  BY DEF IInv, WorldGood
<1> QED
  BY <1>1 DEF Quiet, Fault, Refusal, Incident

LEMMA RowsSame ==
  ASSUME IInv, UNCHANGED row, UNCHANGED History
  PROVE  RowsGood'
BY DEF IInv, RowsGood, RowGood, AgesGood, Entitled, History

LEMMA TrackersSame ==
  ASSUME IInv, UNCHANGED tracker, UNCHANGED History
  PROVE  TrackersGood'
BY DEF IInv, TrackersGood, TrackerGood, Entitled, History

LEMMA FineSame ==
  ASSUME IInv, UNCHANGED <<row, monitor>>, UNCHANGED History
  PROVE  FineGood(monitor)'
BY DEF IInv, FineGood, Entitled, History

LEMMA DeliveriesSame ==
  ASSUME IInv, UNCHANGED deliveries
  PROVE  DeliveriesGood'
BY DEF IInv, DeliveriesGood, DeliveredWithinTotal

\* A tracker that is not booking, before or after.
LEMMA TrackerNotBooking ==
  ASSUME IInv, NEW t \in Trackers, NEW r, tracker' = [tracker EXCEPT ![t] = r],
         tracker[t].pc # "book", r.pc # "book", UNCHANGED <<handing, monitor, deliveries>>
  PROVE  HandingGood'
<1>1. handing[t] = NoHanding /\ handing = [w \in Workers |-> handing[w]] /\ t \in Workers
  BY UpkeepAssumption DEF IInv, HandingGood, Booking, Workers
<1>2. handing' = [handing EXCEPT ![t] = NoHanding]
  BY <1>1
<1> QED
  BY <1>2, KeptSame, TrackerHanding

LEMMA MonitorNotBooking ==
  ASSUME IInv, monitor.pc # "book", monitor'.pc # "book", UNCHANGED <<handing, tracker, deliveries>>
  PROVE  HandingGood'
<1>1. handing["monitor"] = NoHanding /\ handing = [w \in Workers |-> handing[w]] /\ "monitor" \in Workers
  BY DEF IInv, HandingGood, Booking, Workers
<1>2. handing' = [handing EXCEPT !["monitor"] = NoHanding]
  BY <1>1
<1> QED
  BY <1>2, KeptSame, MonitorHanding

\* A step of a tracker.
LEMMA TrackerInv ==
  ASSUME IInv, NEW t \in Trackers, NEW r, TrackerGood(r), tracker' = [tracker EXCEPT ![t] = r],
         TrackerUnchanged, Quiet \/ Fault,
         RowsGood', FineGood(monitor)', DeliveriesGood', HandingGood'
  PROVE  IInv'
<1>1. UNCHANGED History /\ UNCHANGED <<chain, monitor, final, resume>>
  BY DEF TrackerUnchanged, History, chain
<1>2. TrackersGood'
  BY <1>1, MoveGood DEF IInv
<1>3. MonitorGood(monitor)'
  BY <1>1, MonitorFrame DEF IInv, MonitorGood, Entitled, History
<1>4. FinalGood' /\ ResumeGood'
  BY <1>1 DEF IInv, FinalGood, ResumeGood
<1>5. WorldGood'
  BY <1>1, FaultsGood DEF IInv, WorldGood, chain, History
<1> QED
  BY <1>2, <1>3, <1>4, <1>5 DEF IInv

\* A step of the monitor.
LEMMA MonitorInv ==
  ASSUME IInv, MonitorGood(monitor'), FineGood(monitor)', MonitorUnchanged,
         RowsGood', DeliveriesGood', HandingGood',
         Quiet \/ Fault \/ (\E a \in Addresses : Refusal(a)),
         delegated' \subseteq Addresses, energy' \in [Addresses -> 0 .. Full]
  PROVE  IInv'
<1>1. UNCHANGED History /\ UNCHANGED <<tracker, final, resume>>
  BY DEF MonitorUnchanged, History
<1>2. TrackersGood'
  BY <1>1, TrackersSame
<1>3. MonitorGood(monitor)'
  BY <1>1 DEF MonitorGood, Entitled, History
<1>4. FinalGood' /\ ResumeGood'
  BY <1>1 DEF IInv, FinalGood, ResumeGood
<1>5. WorldGood'
  BY <1>1, FaultsGood DEF IInv, WorldGood, History
<1> QED
  BY <1>2, <1>3, <1>4, <1>5 DEF IInv

\* A step of neither, with nothing under way disturbed.
LEMMA OtherInv ==
  ASSUME IInv, UNCHANGED <<monitor, tracker, handing>>, UNCHANGED History,
         RowsGood', FineGood(monitor)', DeliveriesGood', Kept, FinalGood', ResumeGood',
         Quiet \/ Fault \/ (\E a \in Addresses : Refusal(a)),
         delegated' \subseteq Addresses, energy' \in [Addresses -> 0 .. Full]
  PROVE  IInv'
<1>1. TrackersGood' /\ HandingGood'
  BY TrackersSame, HandingFrame
<1>2. MonitorGood(monitor)'
  BY DEF IInv, MonitorGood, Entitled, History
<1>3. WorldGood'
  BY FaultsGood DEF IInv, WorldGood, History
<1> QED
  BY <1>1, <1>2, <1>3 DEF IInv

-----------------------------------------------------------------------------
(* Rows as they are written.                                               *)

LEMMA MarksGood ==
  Never \in Marks /\ 0 \in Marks /\ 0 \in Ages /\ Day \in Ages /\ Never \in Ages /\ Never < 0
BY UpkeepAssumption DEF Marks, Never, Ages, Day

\* The count is written, as the monitor and the tracker do.
LEMMA ChargedRow ==
  ASSUME IInv, NEW a \in Addresses, NEW n \in Nat, n <= Entitled(a)
  PROVE  LET r == [row[a] EXCEPT !.remaining = n, !.delegationAge = 0, !.resting = TRUE] IN
         RowGood(r, a) /\ r.penaltyAge = row[a].penaltyAge
<1> DEFINE r == [row[a] EXCEPT !.remaining = n, !.delegationAge = 0, !.resting = TRUE]
<1>1. RowGood(row[a], a) /\ row[a] \in Row /\ halfDays \in Nat
  BY DEF IInv, RowsGood, RowGood, WorldGood
<1>2. /\ r \in Row /\ r.remaining = n /\ r.checked = row[a].checked /\ r.delegationAge = 0
      /\ r.penaltyAge = row[a].penaltyAge /\ r.penalties = row[a].penalties
  BY <1>1, MarksGood DEF Row
<1> QED
  BY <1>1, <1>2 DEF RowGood, AgesGood

\* The mark is written.
LEMMA StampedRow ==
  ASSUME IInv, NEW a \in Addresses, NEW k \in Marks, k <= made[a]
  PROVE  LET r == [row[a] EXCEPT !.checked = k] IN
         RowGood(r, a) /\ r.penaltyAge = row[a].penaltyAge
<1> DEFINE r == [row[a] EXCEPT !.checked = k]
<1>1. RowGood(row[a], a) /\ row[a] \in Row
  BY DEF IInv, RowsGood, RowGood
<1>2. /\ r \in Row /\ r.remaining = row[a].remaining /\ r.checked = k
      /\ r.delegationAge = row[a].delegationAge
      /\ r.penaltyAge = row[a].penaltyAge /\ r.penalties = row[a].penalties
  BY <1>1 DEF Row
<1> QED
  BY <1>1, <1>2 DEF RowGood, AgesGood

\* A fine that is due.
LEMMA FinedRow ==
  ASSUME IInv, NEW a \in Addresses, NEW n \in Nat, n <= Entitled(a), halfDays >= 2,
         row[a].penaltyAge \in {Never, Day}
  PROVE  RowGood([row[a] EXCEPT !.remaining = n, !.penaltyAge = 0, !.penalties = @ + 1, !.resting = TRUE], a)
<1> DEFINE r == [row[a] EXCEPT !.remaining = n, !.penaltyAge = 0, !.penalties = @ + 1, !.resting = TRUE]
<1>1. RowGood(row[a], a) /\ row[a] \in Row /\ halfDays \in Nat
  BY DEF IInv, RowsGood, RowGood, WorldGood
<1>2. row[a].penalties \in Nat /\ row[a].penalties + 1 \in Nat
  BY <1>1 DEF Row
<1>3. r \in Row
  BY <1>1, <1>2, MarksGood DEF Row
<1>4. r.remaining = n /\ r.checked = row[a].checked /\ r.delegationAge = row[a].delegationAge
  BY <1>1 DEF Row
<1>5. r.penaltyAge = 0 /\ r.penalties = row[a].penalties + 1
  BY <1>1 DEF Row
<1>6. (row[a].penalties + 1) * 2 + 0 <= halfDays
  BY <1>1, <1>2 DEF RowGood, AgesGood, Day, Never
<1> QED
  BY <1>1, <1>3, <1>4, <1>5, <1>6 DEF RowGood, AgesGood, Never

-----------------------------------------------------------------------------
(* Recharges, administrators, the owner of the address, time.              *)

\* What a run has read stays within a growing entitlement.
LEMMA EntitledGrows ==
  ASSUME IInv, UNCHANGED <<made, halfDays, monitor, tracker>>,
         \A b \in Addresses :
           Entitled(b) <= Entitled(b)' /\ Entitled(b) \in Nat /\ Entitled(b)' \in Nat,
         \A b \in Addresses : row'[b].penaltyAge = row[b].penaltyAge
  PROVE  TrackersGood' /\ MonitorGood(monitor)' /\ FineGood(monitor)'
<1>1. TrackersGood'
  <2>1. ASSUME NEW t \in Trackers PROVE TrackerGood(tracker[t])'
    <3>1. TrackerGood(tracker[t])
      BY DEF IInv, TrackersGood
    <3>2. \A b \in Addresses : tracker[t].list[b] \in Nat
      BY <3>1 DEF TrackerGood, TrackerRun
    <3>3. \A b \in Addresses : tracker[t].list[b] <= Entitled(b)'
      BY <3>1, <3>2 DEF TrackerGood
    <3> QED
      BY <3>1, <3>3 DEF TrackerGood
  <2> QED
    BY <2>1 DEF IInv, TrackersGood
<1>2. MonitorGood(monitor)'
  <2>1. MonitorGood(monitor) /\ \A b \in Addresses : monitor.list[b] \in Nat
    BY DEF IInv, MonitorGood, MonitorRun
  <2>2. \A b \in Addresses : monitor.list[b] <= Entitled(b)'
    BY <2>1 DEF MonitorGood
  <2> QED
    BY <2>1, <2>2 DEF MonitorGood
<1>3. FineGood(monitor)'
  <2>1. CASE monitor.pc = "fine"
    <3>1. monitor.cur \in Addresses /\ FineGood(monitor) /\ monitor.use \in Nat
      BY <2>1 DEF IInv, FineGood, MonitorGood, MonitorRun
    <3>2. monitor.use <= bought'[monitor.cur] + highest'[monitor.cur]
      BY <2>1, <3>1 DEF FineGood, Entitled
    <3> QED
      BY <2>1, <3>1, <3>2 DEF FineGood, Entitled
  <2>2. CASE monitor.pc # "fine"
    BY <2>2 DEF FineGood
  <2> QED
    BY <2>1, <2>2
<1> QED
  BY <1>1, <1>2, <1>3

LEMMA RechargeInv ==
  ASSUME IInv, NEW a \in Addresses, NEW n \in Amounts, Recharge(a, n)
  PROVE  IInv'
<1> DEFINE r == Credited(row[a], n)
           d == [total |-> n, delivered |-> 0, active |-> TRUE]
<1>1. /\ UNCHANGED <<highest, delegated, energy, made, monitor, tracker, handing, final, resume, halfDays>>
      /\ Quiet
      /\ row' = [row EXCEPT ![a] = r]
      /\ bought' = [bought EXCEPT ![a] = @ + n]
      /\ deliveries' = [deliveries EXCEPT ![a] = Append(@, d)]
      /\ n \in Nat
  BY UpkeepAssumption DEF Recharge, Put, chain
<1>2. /\ \A b \in Addresses :
           Entitled(b) <= Entitled(b)' /\ Entitled(b) \in Nat /\ Entitled(b)' \in Nat
      /\ Entitled(a)' = Entitled(a) + n
  BY <1>1 DEF Entitled, IInv, WorldGood
<1>3. row' = [b \in Addresses |-> IF b = a THEN r ELSE row[b]]
  BY <1>1 DEF IInv, RowsGood
<1>4. RowGood(row[a], a) /\ row[a] \in Row
  BY DEF IInv, RowsGood, RowGood
<1>5. row[a].remaining \in Nat /\ row[a].remaining + n \in Nat
  BY <1>1, <1>4 DEF Row
<1>6. r \in Row /\ r.remaining = row[a].remaining + n
  BY <1>4, <1>5 DEF Row, Credited
<1>7. /\ r.checked = row[a].checked /\ r.delegationAge = row[a].delegationAge
      /\ r.penaltyAge = row[a].penaltyAge /\ r.penalties = row[a].penalties
  BY <1>4 DEF Row, Credited
<1>8. RowGood(row[a], a)'
  <2>1. row'[a] = r
    BY <1>3
  <2>2. r.remaining <= Entitled(a)'
    BY <1>1, <1>2, <1>4, <1>5, <1>6 DEF RowGood
  <2>3. r.checked <= made'[a] /\ halfDays' = halfDays
    BY <1>1, <1>4, <1>7 DEF RowGood
  <2> QED
    BY <2>1, <2>2, <2>3, <1>4, <1>6, <1>7 DEF RowGood, AgesGood
<1>9. ASSUME NEW b \in Addresses, b # a PROVE RowGood(row[b], b)'
  <2>1. RowGood(row[b], b) /\ row'[b] = row[b] /\ Entitled(b)' = Entitled(b)
    BY <1>1, <1>3, <1>9 DEF IInv, RowsGood, Entitled, WorldGood
  <2> QED
    BY <2>1, <1>1 DEF RowGood, AgesGood
<1>10. RowsGood'
  BY <1>3, <1>8, <1>9 DEF RowsGood
<1>11. \A b \in Addresses : row'[b].penaltyAge = row[b].penaltyAge
  BY <1>3, <1>7
<1>12. bought' \in [Addresses -> Nat]
  BY <1>1 DEF IInv, WorldGood
<1>13. TrackersGood' /\ MonitorGood(monitor)' /\ FineGood(monitor)'
  BY <1>1, <1>2, <1>11, <1>12, EntitledGrows DEF IInv, WorldGood
<1>14. FinalGood' /\ ResumeGood'
  BY <1>1 DEF IInv, FinalGood, ResumeGood
<1>15. DeliveriesGood' /\ Kept
  <2>1. d \in Delivery /\ d.delivered <= d.total
    BY <1>1 DEF Delivery
  <2>2. deliveries' = [b \in Addresses |-> IF b = a THEN Append(deliveries[a], d) ELSE deliveries[b]]
    BY <1>1 DEF IInv, DeliveriesGood
  <2>3. deliveries[a] \in Seq(Delivery) /\ Append(deliveries[a], d) \in Seq(Delivery)
    BY <2>1 DEF IInv, DeliveriesGood
  <2>4. /\ DOMAIN Append(deliveries[a], d) = DOMAIN deliveries[a] \cup {Len(deliveries[a]) + 1}
        /\ \A i \in DOMAIN deliveries[a] : Append(deliveries[a], d)[i] = deliveries[a][i]
        /\ Append(deliveries[a], d)[Len(deliveries[a]) + 1] = d
    BY <2>3
  <2> QED
    BY <2>1, <2>2, <2>3, <2>4 DEF IInv, DeliveriesGood, DeliveredWithinTotal, Kept
<1>16. HandingGood'
  BY <1>1, <1>15, HandingFrame
<1>17. WorldGood'
  BY <1>12, <1>1 DEF IInv, WorldGood, Quiet
<1> QED
  BY <1>10, <1>13, <1>14, <1>15, <1>16, <1>17 DEF IInv

\* Changing the flags of deliveries changes nothing that is booked on them.
LEMMA FlagsGood ==
  ASSUME IInv, NEW a \in Addresses, NEW s,
         s = [i \in DOMAIN deliveries[a] |-> s[i]],
         \A i \in DOMAIN deliveries[a] :
           /\ s[i] \in Delivery
           /\ s[i].total = deliveries[a][i].total
           /\ s[i].delivered = deliveries[a][i].delivered,
         deliveries' = [deliveries EXCEPT ![a] = s]
  PROVE  DeliveriesGood' /\ Kept
<1>1. deliveries' = [b \in Addresses |-> IF b = a THEN s ELSE deliveries[b]]
  BY DEF IInv, DeliveriesGood
<1>2. s \in Seq(Delivery) /\ DOMAIN s = DOMAIN deliveries[a]
  BY DEF IInv, DeliveriesGood
<1> QED
  BY <1>1, <1>2 DEF IInv, DeliveriesGood, DeliveredWithinTotal, Kept

LEMMA SuspendInv ==
  ASSUME IInv, NEW a \in Addresses, Suspend(a)
  PROVE  IInv'
<1> DEFINE r == [row[a] EXCEPT !.status = "SUSPENDED"]
           s == [i \in DOMAIN deliveries[a] |-> [deliveries[a][i] EXCEPT !.active = FALSE]]
<1>1. /\ UNCHANGED <<bought, highest, delegated, energy, made, monitor, tracker, handing, final, resume, halfDays>>
      /\ Put(a, r) /\ Fault
  BY DEF Suspend, chain
<1>2. UNCHANGED History /\ DOMAIN deliveries = Addresses
  BY <1>1 DEF History, IInv, DeliveriesGood
<1>3. RowGood(r, a) /\ r.penaltyAge = row[a].penaltyAge
  BY DEF IInv, RowsGood, RowGood, Row, AgesGood
<1>4. RowsGood' /\ FineGood(monitor)'
  BY <1>1, <1>2, <1>3, PutGood, FineFrame DEF IInv
<1>5. DeliveriesGood' /\ Kept
  <2>1. deliveries' = [deliveries EXCEPT ![a] = s]
    BY <1>2 DEF Suspend
  <2>2. \A i \in DOMAIN deliveries[a] : deliveries[a][i] \in Delivery
    BY DEF IInv, DeliveriesGood
  <2>3. \A i \in DOMAIN deliveries[a] :
          /\ s[i] \in Delivery
          /\ s[i].total = deliveries[a][i].total
          /\ s[i].delivered = deliveries[a][i].delivered
    BY <2>2 DEF Delivery
  <2> QED
    BY <2>1, <2>3, FlagsGood
<1>6. FinalGood' /\ ResumeGood' /\ delegated' \subseteq Addresses /\ energy' \in [Addresses -> 0 .. Full]
  BY <1>1 DEF IInv, FinalGood, ResumeGood, WorldGood
<1> QED
  BY <1>1, <1>2, <1>4, <1>5, <1>6, OtherInv

LEMMA ResumeReadInv ==
  ASSUME IInv, NEW a \in Addresses, ResumeRead(a)
  PROVE  IInv'
<1>1. /\ UNCHANGED <<rows, chain, monitor, tracker, handing, final, halfDays>> /\ Quiet
      /\ UNCHANGED History
  BY DEF ResumeRead, History, rows, chain
<1>2. {i \in DOMAIN deliveries[a] : ~deliveries[a][i].active /\ Open(deliveries[a][i])} \in SUBSET Nat
  BY DEF IInv, DeliveriesGood
<1>3. ResumeGood'
  BY <1>2 DEF ResumeRead, ResumeGood
<1>4. /\ RowsGood' /\ FineGood(monitor)' /\ DeliveriesGood' /\ Kept
      /\ FinalGood' /\ delegated' \subseteq Addresses /\ energy' \in [Addresses -> 0 .. Full]
  BY <1>1, RowsSame, FineSame, DeliveriesSame, KeptSame DEF rows, chain, IInv, FinalGood, WorldGood
<1> QED
  BY <1>1, <1>3, <1>4, OtherInv

LEMMA ResumeWriteInv ==
  ASSUME IInv, ResumeWrite
  PROVE  IInv'
<1> DEFINE a == resume.cur
           r == [row[a] EXCEPT !.status = "ACTIVE"]
           s == [i \in DOMAIN deliveries[a] |-> IF i \in resume.ids
                   THEN [deliveries[a][i] EXCEPT !.active = TRUE] ELSE deliveries[a][i]]
<1>1. /\ UNCHANGED <<bought, highest, delegated, energy, made, monitor, tracker, handing, final, halfDays>>
      /\ Put(a, r) /\ Quiet /\ resume' = ResumeIdle /\ a \in Addresses
  BY DEF ResumeWrite, Resumed, chain, IInv, ResumeGood
<1>2. UNCHANGED History /\ DOMAIN deliveries = Addresses
  BY <1>1 DEF History, IInv, DeliveriesGood
<1>3. RowGood(r, a) /\ r.penaltyAge = row[a].penaltyAge
  BY <1>1 DEF IInv, RowsGood, RowGood, Row, AgesGood
<1>4. RowsGood' /\ FineGood(monitor)'
  BY <1>1, <1>2, <1>3, PutGood, FineFrame DEF IInv
<1>5. DeliveriesGood' /\ Kept
  <2>1. deliveries' = [deliveries EXCEPT ![a] = s]
    BY <1>1, <1>2 DEF ResumeWrite
  <2>2. \A i \in DOMAIN deliveries[a] : deliveries[a][i] \in Delivery
    BY <1>1 DEF IInv, DeliveriesGood
  <2>3. \A i \in DOMAIN deliveries[a] :
          /\ s[i] \in Delivery
          /\ s[i].total = deliveries[a][i].total
          /\ s[i].delivered = deliveries[a][i].delivered
    BY <2>2 DEF Delivery
  <2> QED
    BY <1>1, <2>1, <2>3, FlagsGood
<1>6. FinalGood' /\ delegated' \subseteq Addresses /\ energy' \in [Addresses -> 0 .. Full]
  BY <1>1 DEF IInv, FinalGood, WorldGood
<1>7. ResumeGood'
  BY <1>1 DEF ResumeGood, ResumeIdle
<1> QED
  BY <1>1, <1>2, <1>4, <1>5, <1>6, <1>7, OtherInv

LEMMA SetCountInv ==
  ASSUME IInv, NEW a \in Addresses, NEW n \in SetCounts, SetCount(a, n)
  PROVE  IInv'
<1>1. PICK stamps \in BOOLEAN : Put(a, [row[a] EXCEPT !.remaining = n, !.resting = stamps \/ @])
  BY DEF SetCount
<1> DEFINE r == [row[a] EXCEPT !.remaining = n, !.resting = stamps \/ @]
<1>2. /\ UNCHANGED <<bought, delegated, energy, made, monitor, tracker, handing, final, resume, halfDays, deliveries>>
      /\ Fault /\ n \in Nat
      /\ highest' = [highest EXCEPT ![a] = IF n > @ THEN n ELSE @]
  BY UpkeepAssumption DEF SetCount, chain
<1>3. highest' \in [Addresses -> Nat]
  BY <1>2 DEF IInv, WorldGood
<1>4. /\ \A b \in Addresses :
           Entitled(b) <= Entitled(b)' /\ Entitled(b) \in Nat /\ Entitled(b)' \in Nat
      /\ n <= Entitled(a)'
  <2>1. /\ \A b \in Addresses : highest[b] \in Nat /\ bought[b] \in Nat /\ bought'[b] = bought[b]
        /\ \A b \in Addresses : highest'[b] \in Nat /\ highest[b] <= highest'[b]
        /\ n <= highest'[a]
    BY <1>2 DEF IInv, WorldGood
  <2> QED
    BY <2>1, <1>2 DEF Entitled
<1>5. row' = [b \in Addresses |-> IF b = a THEN r ELSE row[b]]
  BY <1>1 DEF Put, IInv, RowsGood
<1>6. RowGood(row[a], a) /\ row[a] \in Row
  BY DEF IInv, RowsGood, RowGood
<1>7. row[a].resting \in BOOLEAN /\ (stamps \/ row[a].resting) \in BOOLEAN
  BY <1>6 DEF Row
<1>8. r \in Row /\ r.remaining = n
  BY <1>2, <1>6, <1>7 DEF Row
<1>9. /\ r.checked = row[a].checked /\ r.delegationAge = row[a].delegationAge
      /\ r.penaltyAge = row[a].penaltyAge /\ r.penalties = row[a].penalties
  BY <1>6 DEF Row
<1>10. RowGood(row[a], a)'
  BY <1>2, <1>4, <1>5, <1>6, <1>8, <1>9 DEF RowGood, AgesGood
<1>11. ASSUME NEW b \in Addresses, b # a PROVE RowGood(row[b], b)'
  <2>1. RowGood(row[b], b) /\ row'[b] = row[b] /\ Entitled(b)' = Entitled(b)
    BY <1>2, <1>5, <1>11 DEF IInv, RowsGood, Entitled, WorldGood
  <2> QED
    BY <2>1, <1>2 DEF RowGood, AgesGood
<1>12. RowsGood'
  BY <1>5, <1>10, <1>11 DEF RowsGood
<1>13. \A b \in Addresses : row'[b].penaltyAge = row[b].penaltyAge
  BY <1>5, <1>9
<1>14. TrackersGood' /\ MonitorGood(monitor)' /\ FineGood(monitor)'
  BY <1>2, <1>4, <1>13, EntitledGrows
<1>15. FinalGood' /\ ResumeGood' /\ DeliveriesGood'
  BY <1>2, DeliveriesSame DEF IInv, FinalGood, ResumeGood
<1>16. HandingGood'
  BY <1>2, KeptSame, HandingFrame
<1>17. WorldGood'
  BY <1>2, <1>3, FaultsGood DEF IInv, WorldGood
<1> QED
  BY <1>12, <1>14, <1>15, <1>16, <1>17 DEF IInv

\* The marks of rows and runs stay in the past.
LEMMA TransferInv ==
  ASSUME IInv, NEW a \in Addresses, Transfer(a)
  PROVE  IInv'
<1>1. /\ UNCHANGED <<row, deliveries, bought, highest, delegated, monitor, tracker, handing, final, resume, halfDays>>
      /\ Quiet
  BY DEF Transfer, rows
<1>2. /\ made' \in [Addresses -> 0 .. MaxTransfers]
      /\ \A b \in Addresses : made[b] <= made'[b] /\ made[b] \in Nat /\ made'[b] \in Nat
  BY UpkeepAssumption DEF Transfer, IInv, WorldGood
<1>3. energy' \in [Addresses -> 0 .. Full]
  <2>1. Reduced(energy[a], 1) \in 0 .. Full
    BY DEF IInv, WorldGood, Reduced, Full
  <2> QED
    BY <2>1 DEF Transfer, IInv, WorldGood
<1>4. RowsGood'
  <2>1. ASSUME NEW b \in Addresses PROVE RowGood(row[b], b)'
    <3>1. RowGood(row[b], b) /\ row[b].checked \in Int
      BY UpkeepAssumption DEF IInv, RowsGood, RowGood, Row, Marks, Never
    <3>2. row[b].checked <= made'[b]
      BY <3>1, <1>2 DEF RowGood
    <3> QED
      BY <3>1, <3>2, <1>1 DEF RowGood, AgesGood, Entitled
  <2> QED
    BY <2>1, <1>1 DEF IInv, RowsGood
<1>5. TrackersGood'
  <2>1. ASSUME NEW t \in Trackers PROVE TrackerGood(tracker[t])'
    <3>1. TrackerGood(tracker[t]) /\ tracker[t].upTo \in Int /\ \A b \in Addresses : tracker[t].marks[b] \in Int
      BY UpkeepAssumption DEF IInv, TrackersGood, TrackerGood, TrackerRun, Marks, Never
    <3>2. \A b \in Addresses : tracker[t].marks[b] <= made'[b]
      BY <3>1, <1>2 DEF TrackerGood
    <3>3. tracker[t].pc \in {"charge", "read", "book", "stamp"} => tracker[t].upTo <= made'[tracker[t].cur]
      BY <3>1, <1>2 DEF TrackerGood
    <3> QED
      BY <3>1, <3>2, <3>3, <1>1 DEF TrackerGood, Entitled
  <2> QED
    BY <2>1, <1>1 DEF IInv, TrackersGood
<1>6. MonitorGood(monitor)' /\ FineGood(monitor)' /\ FinalGood' /\ ResumeGood'
  BY <1>1 DEF IInv, MonitorGood, FineGood, FinalGood, ResumeGood, Entitled
<1>7. DeliveriesGood' /\ HandingGood'
  BY <1>1, DeliveriesSame, KeptSame, HandingFrame
<1>8. WorldGood'
  BY <1>1, <1>2, <1>3 DEF IInv, WorldGood, Quiet
<1> QED
  BY <1>4, <1>5, <1>6, <1>7, <1>8 DEF IInv

LEMMA SpendElsewhereInv ==
  ASSUME IInv, NEW a \in Addresses, SpendElsewhere(a)
  PROVE  IInv'
<1>1. /\ UNCHANGED <<row, deliveries, delegated, made, monitor, tracker, handing, final, resume>> /\ Quiet
      /\ UNCHANGED History
  BY DEF SpendElsewhere, History, rows
<1>2. energy' \in [Addresses -> 0 .. Full]
  <2>1. energy[a] - 1 \in 0 .. Full
    BY DEF SpendElsewhere, IInv, WorldGood, Full
  <2> QED
    BY <2>1 DEF SpendElsewhere, IInv, WorldGood
<1>3. /\ RowsGood' /\ FineGood(monitor)' /\ DeliveriesGood' /\ Kept
      /\ FinalGood' /\ ResumeGood' /\ delegated' \subseteq Addresses
  BY <1>1, RowsSame, FineSame, DeliveriesSame, KeptSame DEF IInv, FinalGood, ResumeGood, WorldGood
<1> QED
  BY <1>1, <1>2, <1>3, OtherInv

LEMMA MinutesPassInv ==
  ASSUME IInv, MinutesPass
  PROVE  IInv'
<1>1. /\ UNCHANGED <<deliveries, delegated, energy, made, monitor, tracker, handing, final, resume>> /\ Quiet
      /\ UNCHANGED History
      /\ row' = [a \in Addresses |-> [row[a] EXCEPT !.resting = FALSE]]
  BY DEF MinutesPass, History, chain
<1>2. ASSUME NEW a \in Addresses
      PROVE  row'[a] \in Row /\ row'[a].remaining = row[a].remaining /\ row'[a].checked = row[a].checked
  BY <1>1 DEF IInv, RowsGood, RowGood, Row
<1>3. ASSUME NEW a \in Addresses
      PROVE  /\ row'[a].delegationAge = row[a].delegationAge
             /\ row'[a].penaltyAge = row[a].penaltyAge /\ row'[a].penalties = row[a].penalties
  BY <1>1 DEF IInv, RowsGood, RowGood, Row
<1>4. ASSUME NEW a \in Addresses PROVE RowGood(row[a], a)'
  BY <1>1, <1>2, <1>3 DEF IInv, RowsGood, RowGood, AgesGood, Entitled, History
<1>5. RowsGood'
  BY <1>1, <1>4 DEF RowsGood
<1>6. FineGood(monitor)'
  BY <1>1, <1>3 DEF IInv, FineGood, Entitled, History
<1>7. /\ DeliveriesGood' /\ Kept /\ FinalGood' /\ ResumeGood'
      /\ delegated' \subseteq Addresses /\ energy' \in [Addresses -> 0 .. Full]
  BY <1>1, DeliveriesSame, KeptSame DEF IInv, FinalGood, ResumeGood, WorldGood
<1> QED
  BY <1>1, <1>5, <1>6, <1>7, OtherInv

\* Half a day makes ages grow by no more than the clock.
LEMMA HalfDayPassesInv ==
  ASSUME IInv, HalfDayPasses
  PROVE  IInv'
<1>1. /\ UNCHANGED <<deliveries, bought, highest, delegated, energy, made, monitor, tracker, handing, final, resume>>
      /\ Quiet
      /\ halfDays' = halfDays + 1 /\ halfDays \in Nat
  BY DEF HalfDayPasses, chain, IInv, WorldGood
<1>0. row' = [a \in Addresses |-> [row[a] EXCEPT !.resting = FALSE,
               !.delegationAge = Older(@), !.penaltyAge = Older(@)]]
  BY DEF HalfDayPasses
<1>2. ASSUME NEW age \in Ages
      PROVE  /\ Older(age) \in Ages /\ (Older(age) = Never <=> age = Never)
             /\ Older(age) <= age + 1 /\ (age = Day => Older(age) = Day)
  BY <1>2 DEF Older, Lesser, Ages, Never, Day
<1>3. ASSUME NEW a \in Addresses
      PROVE  /\ row'[a] \in Row
             /\ row'[a].remaining = row[a].remaining /\ row'[a].checked = row[a].checked
             /\ row'[a].penalties = row[a].penalties
  <2>1. row[a] \in Row /\ Older(row[a].delegationAge) \in Ages /\ Older(row[a].penaltyAge) \in Ages
    BY <1>2 DEF IInv, RowsGood, RowGood, Row
  <2> QED
    BY <1>0, <2>1 DEF Row
<1>4. ASSUME NEW a \in Addresses
      PROVE  /\ row'[a].delegationAge = Older(row[a].delegationAge)
             /\ row'[a].penaltyAge = Older(row[a].penaltyAge)
  BY <1>0 DEF IInv, RowsGood, RowGood, Row
<1>5. ASSUME NEW a \in Addresses PROVE RowGood(row[a], a)'
  <2>1. RowGood(row[a], a) /\ row[a] \in Row
    BY DEF IInv, RowsGood, RowGood
  <2>2. row[a].delegationAge \in Ages /\ row[a].penaltyAge \in Ages /\ row[a].penalties \in Nat
    BY <2>1 DEF Row
  <2>3. row'[a].delegationAge # Never => row'[a].delegationAge <= halfDays + 1
    BY <2>1, <2>2, <1>1, <1>2, <1>4 DEF RowGood, AgesGood, Ages, Never, Day
  <2>4. row'[a].penaltyAge = Never => row[a].penalties = 0
    BY <2>1, <2>2, <1>2, <1>4 DEF RowGood, AgesGood
  <2>5. row'[a].penaltyAge # Never => row[a].penalties * 2 + row'[a].penaltyAge <= halfDays + 1
    BY <2>1, <2>2, <1>1, <1>2, <1>4 DEF RowGood, AgesGood, Ages, Never, Day
  <2> QED
    BY <1>1, <1>3, <1>4, <2>1, <2>3, <2>4, <2>5 DEF RowGood, AgesGood, Entitled
<1>6. RowsGood'
  BY <1>0, <1>5 DEF RowsGood
<1>7. TrackersGood' /\ MonitorGood(monitor)'
  BY <1>1 DEF IInv, TrackersGood, TrackerGood, MonitorGood, Entitled
<1>8. FineGood(monitor)'
  <2>1. CASE monitor.pc = "fine"
    <3>1. /\ monitor.cur \in Addresses /\ halfDays >= 2 /\ row[monitor.cur].penaltyAge \in {Never, Day}
          /\ monitor.use <= bought[monitor.cur] + highest[monitor.cur]
      BY <2>1 DEF IInv, FineGood, Entitled
    <3>2. row'[monitor.cur].penaltyAge \in {Never, Day}
      BY <3>1, <1>2, <1>4, MarksGood
    <3> QED
      BY <2>1, <3>1, <3>2, <1>1 DEF FineGood, Entitled
  <2>2. CASE monitor.pc # "fine"
    BY <2>2, <1>1 DEF FineGood
  <2> QED
    BY <2>1, <2>2
<1>9. FinalGood' /\ ResumeGood' /\ DeliveriesGood' /\ HandingGood'
  BY <1>1, DeliveriesSame, KeptSame, HandingFrame DEF IInv, FinalGood, ResumeGood
<1>10. WorldGood'
  <2>1. halfDays' \in Nat
    BY <1>1
  <2> QED
    BY <1>1, <2>1 DEF IInv, WorldGood, Quiet
<1> QED
  BY <1>6, <1>7, <1>8, <1>9, <1>10 DEF IInv

LEMMA RestartInv ==
  ASSUME IInv, Restart
  PROVE  IInv'
<1>1. /\ UNCHANGED <<row, deliveries, delegated, energy>> /\ Fault /\ UNCHANGED History
      /\ monitor' = MonitorIdle /\ tracker' = [t \in Trackers |-> TrackerIdle]
      /\ handing' = [w \in Workers |-> NoHanding] /\ final' = FinalIdle /\ resume' = ResumeIdle
  BY DEF Restart, History, rows, chain
<1>2. WorldGood'
  BY <1>1, FaultsGood DEF IInv, WorldGood, History
<1>3. TrackerGood(TrackerIdle)' /\ MonitorGood(MonitorIdle)' /\ FinalIdle \in FinalRun
  BY <1>1, IdleGood DEF IInv, TrackerGood, MonitorGood, Entitled, History
<1>4. TrackersGood'
  BY <1>1, <1>3 DEF TrackersGood, TrackerGood
<1>5. MonitorGood(monitor)' /\ FineGood(monitor)'
  BY <1>1, <1>3 DEF MonitorGood, FineGood, MonitorIdle
<1>6. FinalGood' /\ ResumeGood'
  BY <1>1, <1>3 DEF FinalGood, ResumeGood, FinalIdle, ResumeIdle
<1>7. RowsGood' /\ DeliveriesGood'
  BY <1>1, RowsSame, DeliveriesSame
<1>8. HandingGood'
  <2>1. \A w \in Workers : ~Booking(w)'
    BY <1>1 DEF Booking, Workers, MonitorIdle, TrackerIdle
  <2> QED
    BY <1>1, <2>1 DEF HandingGood
<1> QED
  BY <1>2, <1>4, <1>5, <1>6, <1>7, <1>8 DEF IInv

-----------------------------------------------------------------------------
(* Booking.                                                                *)

LEMMA WorkersGood ==
  ASSUME IInv, NEW w \in Workers, NEW h, handing' = [handing EXCEPT ![w] = h]
  PROVE  handing'[w] = h /\ (Booked(w)' <=> h = NoHanding)
BY DEF IInv, HandingGood, Booked

LEMMA BookFromGood ==
  ASSUME IInv, NEW w \in Workers, NEW a \in Addresses, NEW n \in Nat, BookFrom(w, a, n)
  PROVE  \E h : /\ handing' = [handing EXCEPT ![w] = h] /\ CopyGood(h, a)
                /\ Booked(w)' <=> h = NoHanding
<1> DEFINE copy == [i \in ActiveDeliveries(a) |-> deliveries[a][i].delivered]
           h == Handing(n, copy)
<1>1. handing' = [handing EXCEPT ![w] = h]
  BY DEF BookFrom
<1>2. \A i \in DOMAIN copy :
        /\ i \in DOMAIN deliveries[a] /\ copy[i] = deliveries[a][i].delivered
        /\ deliveries[a][i] \in Delivery
        /\ deliveries[a][i].delivered <= deliveries[a][i].total
  BY DEF ActiveDeliveries, IInv, DeliveriesGood, DeliveredWithinTotal
<1>3. \A i \in DOMAIN copy : copy[i] \in Nat
  BY <1>2 DEF Delivery
<1>4. ASSUME h # NoHanding PROVE h.left = n /\ h.copy = copy
  BY <1>4 DEF Handing
<1>5. CopyGood(h, a)
  BY <1>2, <1>3, <1>4 DEF CopyGood
<1>6. Booked(w)' <=> h = NoHanding
  BY <1>1, WorkersGood
<1> QED
  BY <1>1, <1>5, <1>6

\* A delivery is written from a copy that was within its total.
LEMMA BookOneGood ==
  ASSUME IInv, NEW w \in Workers, NEW a \in Addresses, CopyGood(handing[w], a), BookOne(w, a)
  PROVE  /\ DeliveriesGood' /\ Kept
         /\ \E h : /\ handing' = [handing EXCEPT ![w] = h] /\ CopyGood(h, a)'
                   /\ Booked(w)' <=> h = NoHanding
<1> DEFINE g == handing[w]
           K(i) == Share(g.left, deliveries[a][i].total, g.copy[i])
<1>1. PICK i \in DOMAIN g.copy :
        /\ deliveries' = IF K(i) > 0
             THEN [deliveries EXCEPT ![a] = [@ EXCEPT ![i] = Taken(deliveries[a][i], g.copy[i] + K(i))]]
             ELSE deliveries
        /\ handing' = [handing EXCEPT ![w] =
             Handing(g.left - K(i), [j \in DOMAIN g.copy \ {i} |-> g.copy[j]])]
  BY DEF BookOne
<1> DEFINE d == deliveries[a][i]
           k == K(i)
           rest == [j \in DOMAIN g.copy \ {i} |-> g.copy[j]]
           h == Handing(g.left - k, rest)
           e == Taken(d, g.copy[i] + k)
<1>2. g # NoHanding
  BY DEF NoHanding
<1>3. /\ g.left \in Nat /\ i \in DOMAIN deliveries[a] /\ g.copy[i] \in Nat /\ g.copy[i] <= d.total
      /\ \A j \in DOMAIN g.copy :
           j \in DOMAIN deliveries[a] /\ g.copy[j] \in Nat /\ g.copy[j] <= deliveries[a][j].total
  BY <1>2 DEF CopyGood
<1>4. d \in Delivery /\ d.total \in Nat /\ deliveries[a] \in Seq(Delivery)
  <2>1. deliveries[a] \in Seq(Delivery)
    BY DEF IInv, DeliveriesGood
  <2>2. d \in Delivery
    BY <2>1, <1>3
  <2> QED
    BY <2>1, <2>2 DEF Delivery
<1>5. k \in Nat /\ g.left - k \in Nat /\ g.copy[i] + k \in Nat /\ g.copy[i] + k <= d.total
  BY <1>3, <1>4 DEF Share, Lesser
<1>6. e \in Delivery /\ e.total = d.total /\ e.delivered = g.copy[i] + k
  <2>1. (g.copy[i] + k < d.total) \in BOOLEAN
    OBVIOUS
  <2> QED
    BY <1>4, <1>5, <2>1 DEF Delivery, Taken
<1>7. DeliveriesGood' /\ Kept
  <2>1. CASE k > 0
    <3>1. deliveries' = [deliveries EXCEPT ![a] = [deliveries[a] EXCEPT ![i] = e]]
      BY <1>1, <2>1
    <3>2. [deliveries[a] EXCEPT ![i] = e] \in Seq(Delivery)
      <4> HIDE DEF e, d
      <4>1. i \in 1 .. Len(deliveries[a])
        BY <1>3, <1>4
      <4> QED
        BY <4>1, <1>4, <1>6, ExceptSeq
    <3>3. deliveries' = [b \in Addresses |->
             IF b = a THEN [deliveries[a] EXCEPT ![i] = e] ELSE deliveries[b]]
      BY <3>1 DEF IInv, DeliveriesGood
    <3>4. deliveries' \in [Addresses -> Seq(Delivery)]
      BY <3>2, <3>3 DEF IInv, DeliveriesGood
    <3>5. ASSUME NEW b \in Addresses, NEW j \in DOMAIN deliveries[b]
          PROVE  /\ j \in DOMAIN deliveries'[b]
                 /\ deliveries'[b][j] = IF b = a /\ j = i THEN e ELSE deliveries[b][j]
      BY <3>3, <1>4
    <3>6. \A b \in Addresses : DOMAIN deliveries'[b] = DOMAIN deliveries[b]
      BY <3>3, <1>4
    <3>7. DeliveredWithinTotal'
      <4>1. ASSUME NEW b \in Addresses, NEW j \in DOMAIN deliveries'[b]
            PROVE  deliveries'[b][j].delivered <= deliveries'[b][j].total
        <5> HIDE DEF e, d, k
        <5>1. j \in DOMAIN deliveries[b]
          BY <3>6, <4>1
        <5>2. deliveries[b][j].delivered <= deliveries[b][j].total
          BY <5>1 DEF IInv, DeliveriesGood, DeliveredWithinTotal
        <5> QED
          BY <5>1, <5>2, <3>5, <1>5, <1>6
      <4> QED
        BY <4>1 DEF DeliveredWithinTotal
    <3>8. Kept
      BY <3>5, <1>6 DEF Kept
    <3> QED
      BY <3>4, <3>7, <3>8 DEF DeliveriesGood
  <2>2. CASE ~(k > 0)
    BY <1>1, <2>2, DeliveriesSame, KeptSame
  <2> QED
    BY <2>1, <2>2
<1>8. CopyGood(h, a)
  <2>1. ASSUME h # NoHanding PROVE h.left = g.left - k /\ h.copy = rest
    BY <2>1 DEF Handing
  <2> QED
    BY <1>3, <1>5, <2>1 DEF CopyGood
<1>9. handing' = [handing EXCEPT ![w] = h]
  BY <1>1
<1>10. PICK p : p = h
  OBVIOUS
<1> HIDE DEF h
<1>11. handing' = [handing EXCEPT ![w] = p] /\ CopyGood(p, a)
  BY <1>8, <1>9, <1>10
<1>12. CopyGood(p, a)' /\ (Booked(w)' <=> p = NoHanding)
  BY <1>7, <1>11, CopyFrame, WorkersGood
<1> QED
  BY <1>7, <1>11, <1>12

-----------------------------------------------------------------------------
(* The usage tracker.                                                      *)

LEMMA LoopingGood ==
  ASSUME NEW list \in [Addresses -> Nat], NEW marks \in [Addresses -> Marks], NEW todo \in SUBSET Addresses,
         \A a \in Addresses : list[a] <= Entitled(a) /\ marks[a] <= made[a]
  PROVE  TrackerGood(Looping(list, marks, todo)) /\ Looping(list, marks, todo).pc = "loop"
BY MarksGood DEF TrackerGood, TrackerRun, Looping

LEMMA TrackerIdleGood ==
  ASSUME IInv
  PROVE  TrackerGood(TrackerIdle) /\ TrackerIdle.pc = "idle"
BY IdleGood DEF IInv, TrackerIdle

\* The next address of the list.
LEMMA TrackerNextGood ==
  ASSUME IInv, NEW t \in Trackers
  PROVE  TrackerGood(TrackerNext(t)) /\ TrackerNext(t).pc \in {"idle", "loop"}
<1>1. TrackerGood(tracker[t])
  BY DEF IInv, TrackersGood
<1>2. /\ tracker[t].list \in [Addresses -> Nat] /\ tracker[t].marks \in [Addresses -> Marks]
      /\ tracker[t].todo \in SUBSET Addresses
      /\ \A a \in Addresses : tracker[t].list[a] <= Entitled(a) /\ tracker[t].marks[a] <= made[a]
  BY <1>1 DEF TrackerGood, TrackerRun
<1> QED
  BY <1>2, LoopingGood, TrackerIdleGood DEF TrackerNext

\* What follows a charge.
LEMMA TrackerChargedGood ==
  ASSUME IInv, NEW t \in Trackers, tracker[t].pc \in {"charge", "read", "book"}
  PROVE  TrackerGood(TrackerCharged(t)) /\ TrackerCharged(t).pc \in {"idle", "stamp"}
<1>1. TrackerGood(tracker[t])
  BY DEF IInv, TrackersGood
<1>2. CASE tracker[t].upTo = Never
  BY <1>2, TrackerIdleGood DEF TrackerCharged
<1>3. CASE tracker[t].upTo # Never
  <2>1. TrackerCharged(t) = [tracker[t] EXCEPT !.pc = "stamp"]
    BY <1>3 DEF TrackerCharged
  <2> QED
    BY <1>1, <2>1 DEF TrackerGood, TrackerRun
<1> QED
  BY <1>2, <1>3

\* A tracker that only changes what it does next.
LEMMA TrackerMoves ==
  ASSUME IInv, NEW t \in Trackers, NEW r, TrackerGood(r), tracker' = [tracker EXCEPT ![t] = r],
         tracker[t].pc # "book", r.pc # "book",
         TrackerUnchanged, Quiet \/ Fault, UNCHANGED <<row, deliveries, handing>>
  PROVE  IInv'
<1>1. UNCHANGED History /\ UNCHANGED monitor
  BY DEF TrackerUnchanged, History, chain
<1>2. RowsGood' /\ FineGood(monitor)' /\ DeliveriesGood'
  BY <1>1, RowsSame, FineSame, DeliveriesSame
<1>3. HandingGood'
  BY <1>1, TrackerNotBooking
<1> QED
  BY <1>2, <1>3, TrackerInv

LEMMA TrackerStartInv ==
  ASSUME IInv, NEW t \in Trackers, TrackerStart(t)
  PROVE  IInv'
<1> DEFINE list  == [a \in Addresses |-> IF Listed(a) THEN row[a].remaining ELSE 0]
           marks == [a \in Addresses |-> IF Listed(a) THEN row[a].checked ELSE Never]
           todo  == {a \in Addresses : Listed(a)}
<1>1. ASSUME NEW a \in Addresses
      PROVE  /\ row[a].remaining \in Nat /\ row[a].remaining <= Entitled(a) /\ 0 <= Entitled(a)
             /\ row[a].checked \in Marks /\ row[a].checked <= made[a] /\ Never <= made[a]
  <2>1. RowGood(row[a], a) /\ bought[a] \in Nat /\ highest[a] \in Nat /\ made[a] \in 0 .. MaxTransfers
    BY DEF IInv, RowsGood, WorldGood
  <2>2. row[a].remaining \in Nat /\ row[a].checked \in Marks
    BY <2>1 DEF RowGood, Row
  <2> QED
    BY <2>1, <2>2 DEF RowGood, Entitled, Never
<1>2. list \in [Addresses -> Nat] /\ marks \in [Addresses -> Marks] /\ todo \in SUBSET Addresses
  BY <1>1, MarksGood
<1>3. \A a \in Addresses : list[a] <= Entitled(a) /\ marks[a] <= made[a]
  BY <1>1
<1>4. /\ tracker' = [tracker EXCEPT ![t] = Looping(list, marks, todo)]
      /\ tracker[t].pc = "idle" /\ TrackerUnchanged /\ Quiet /\ UNCHANGED <<row, deliveries, handing>>
  BY DEF TrackerStart
<1> HIDE DEF list, marks, todo
<1>5. TrackerGood(Looping(list, marks, todo)) /\ Looping(list, marks, todo).pc = "loop"
  BY <1>2, <1>3, LoopingGood
<1> QED
  BY <1>4, <1>5, TrackerMoves

LEMMA TrackerFetchInv ==
  ASSUME IInv, NEW t \in Trackers, NEW a \in Addresses, TrackerFetch(t, a)
  PROVE  IInv'
<1> DEFINE s == tracker[t]
           rest == s.todo \ {a}
<1>1. /\ s.pc = "loop" /\ TrackerUnchanged /\ UNCHANGED <<row, deliveries, handing>>
      /\ Quiet \/ Fault
  BY DEF TrackerFetch
<1>2. /\ TrackerGood(s) /\ made[a] \in Nat /\ made[a] \in Marks
      /\ s.list \in [Addresses -> Nat] /\ s.marks \in [Addresses -> Marks] /\ rest \in SUBSET Addresses
      /\ \A b \in Addresses : s.list[b] <= Entitled(b) /\ s.marks[b] <= made[b]
  BY UpkeepAssumption DEF IInv, TrackersGood, TrackerGood, TrackerRun, WorldGood, Marks, Never
<1>3. CASE \E k \in Since(a, s.marks[a]) :
             tracker' = [tracker EXCEPT ![t] =
               [pc |-> IF made[a] > k THEN "charge" ELSE "stamp", list |-> s.list,
                marks |-> s.marks, todo |-> rest, cur |-> a, use |-> made[a] - k, upTo |-> made[a]]]
  <2>1. PICK k \in Since(a, s.marks[a]) :
             tracker' = [tracker EXCEPT ![t] =
               [pc |-> IF made[a] > k THEN "charge" ELSE "stamp", list |-> s.list,
                marks |-> s.marks, todo |-> rest, cur |-> a, use |-> made[a] - k, upTo |-> made[a]]]
    BY <1>3
  <2>2. k \in Int /\ k <= made[a] /\ k >= 0
    <3>1. CASE s.marks[a] = Never
      BY <3>1, <1>2 DEF Since
    <3>2. CASE s.marks[a] # Never
      BY <3>2, <1>2 DEF Since, Marks, Never
    <3> QED
      BY <3>1, <3>2
  <2> DEFINE r == [pc |-> IF made[a] > k THEN "charge" ELSE "stamp", list |-> s.list,
                   marks |-> s.marks, todo |-> rest, cur |-> a, use |-> made[a] - k, upTo |-> made[a]]
  <2>3. made[a] - k \in Nat
    BY <2>2, <1>2
  <2>4. r \in TrackerRun /\ r.pc \in {"charge", "stamp"}
    BY <2>3, <1>2 DEF TrackerRun
  <2>5. TrackerGood(r)
    BY <2>4, <1>2 DEF TrackerGood
  <2> QED
    BY <2>1, <2>4, <2>5, <1>1, TrackerMoves
<1>4. CASE tracker' = [tracker EXCEPT ![t] =
             IF rest = {} THEN TrackerIdle ELSE Looping(s.list, s.marks, rest)]
  <2> DEFINE r == IF rest = {} THEN TrackerIdle ELSE Looping(s.list, s.marks, rest)
  <2>1. TrackerGood(r) /\ r.pc \in {"idle", "loop"}
    <3> HIDE DEF rest, s
    <3> QED
      BY <1>2, LoopingGood, TrackerIdleGood
  <2>2. tracker' = [tracker EXCEPT ![t] = r]
    BY <1>4
  <2> HIDE DEF r
  <2> QED
    BY <1>1, <2>1, <2>2, TrackerMoves
<1> QED
  BY <1>3, <1>4 DEF TrackerFetch

LEMMA AuditInv ==
  ASSUME IInv, NEW t \in Trackers, NEW a \in Addresses, Audit(t, a)
  PROVE  IInv'
<1> DEFINE list == [b \in Addresses |-> IF b = a THEN row[a].remaining ELSE 0]
           r == [pc |-> "charge", list |-> list, marks |-> TrackerIdle.marks, todo |-> {},
                 cur |-> a, use |-> made[a], upTo |-> Never]
<1>1. /\ tracker' = [tracker EXCEPT ![t] = r] /\ tracker[t].pc = "idle"
      /\ TrackerUnchanged /\ Quiet /\ UNCHANGED <<row, deliveries, handing>>
  BY DEF Audit
<1>2. \A b \in Addresses : Entitled(b) \in Nat /\ made[b] \in Nat
  BY DEF IInv, WorldGood, Entitled
<1>3. row[a].remaining \in Nat /\ row[a].remaining <= Entitled(a)
  BY DEF IInv, RowsGood, RowGood, Row
<1>4. TrackerIdle.marks = [b \in Addresses |-> Never]
  BY DEF TrackerIdle
<1>5. list \in [Addresses -> Nat] /\ \A b \in Addresses : list[b] <= Entitled(b)
  BY <1>2, <1>3
<1>6. TrackerIdle.marks \in [Addresses -> Marks] /\ \A b \in Addresses : TrackerIdle.marks[b] <= made[b]
  BY <1>2, <1>4, MarksGood DEF Never
<1>7. Never <= made[a]
  BY <1>2 DEF Never
<1>8. TrackerGood(r)
  <2> HIDE DEF list
  <2>1. r \in TrackerRun
    BY <1>2, <1>5, <1>6, MarksGood DEF TrackerRun
  <2> QED
    BY <2>1, <1>5, <1>6, <1>7 DEF TrackerGood
<1> QED
  BY <1>1, <1>8, TrackerMoves

LEMMA ReducedGood ==
  ASSUME NEW m \in Nat, NEW n \in Nat, NEW k \in Nat, m <= k
  PROVE  Reduced(m, n) \in Nat /\ Reduced(m, n) <= k
BY DEF Reduced

\* What a tracker holds when it charges or books.
LEMMA TrackerHolds ==
  ASSUME IInv, NEW t \in Trackers, tracker[t].pc \in {"charge", "read", "book", "stamp"}
  PROVE  /\ TrackerGood(tracker[t]) /\ tracker[t].cur \in Addresses
         /\ tracker[t].list[tracker[t].cur] \in Nat
         /\ tracker[t].list[tracker[t].cur] <= Entitled(tracker[t].cur)
         /\ Entitled(tracker[t].cur) \in Nat
         /\ tracker[t].use \in Nat /\ tracker[t].upTo \in Marks
<1>1. TrackerGood(tracker[t])
  BY DEF IInv, TrackersGood
<1>2. tracker[t].cur \in Addresses
  BY <1>1 DEF TrackerGood
<1>3. Entitled(tracker[t].cur) \in Nat
  BY <1>2 DEF IInv, WorldGood, Entitled
<1> QED
  BY <1>1, <1>2, <1>3 DEF TrackerGood, TrackerRun

LEMMA TrackerChargeInv ==
  ASSUME IInv, NEW t \in Trackers, TrackerCharge(t)
  PROVE  IInv'
<1> DEFINE s == tracker[t]
           a == s.cur
           n == Reduced(s.list[a], s.use)
           r == [row[a] EXCEPT !.remaining = n, !.delegationAge = 0, !.resting = TRUE]
<1>1. s.pc = "charge" /\ TrackerUnchanged /\ UNCHANGED <<deliveries, handing>>
  BY DEF TrackerCharge
<1>2. /\ TrackerGood(s) /\ a \in Addresses /\ s.list[a] \in Nat /\ s.list[a] <= Entitled(a)
      /\ Entitled(a) \in Nat /\ s.use \in Nat
  BY <1>1, TrackerHolds
<1>3. CASE Put(a, r) /\ tracker' = [tracker EXCEPT ![t] = [@ EXCEPT !.pc = "read"]] /\ Quiet
  <2> DEFINE q == [s EXCEPT !.pc = "read"]
  <2>1. n \in Nat /\ n <= Entitled(a)
    BY <1>2, ReducedGood
  <2>2. RowGood(r, a) /\ r.penaltyAge = row[a].penaltyAge
    <3> HIDE DEF n, a
    <3> QED
      BY <1>2, <2>1, ChargedRow
  <2>3. UNCHANGED History /\ UNCHANGED monitor
    BY <1>1 DEF TrackerUnchanged, History, chain
  <2>4. RowsGood' /\ FineGood(monitor)' /\ DeliveriesGood'
    <3> HIDE DEF r, a
    <3> QED
      BY <1>1, <1>2, <1>3, <2>2, <2>3, PutGood, FineFrame, DeliveriesSame DEF IInv
  <2>5. TrackerGood(q) /\ q.pc = "read"
    BY <1>1, <1>2 DEF TrackerGood, TrackerRun
  <2>6. tracker' = [tracker EXCEPT ![t] = q]
    <3> HIDE DEF r
    <3> QED
      BY <1>3
  <2>7. HandingGood'
    <3> HIDE DEF q
    <3> QED
      BY <1>1, <2>3, <2>5, <2>6, TrackerNotBooking
  <2> HIDE DEF q
  <2> QED
    BY <1>1, <1>3, <2>4, <2>5, <2>6, <2>7, TrackerInv
<1>4. CASE Fault /\ tracker' = [tracker EXCEPT ![t] = TrackerCharged(t)] /\ UNCHANGED row
  BY <1>1, <1>4, TrackerChargedGood, TrackerMoves
<1> QED
  BY <1>3, <1>4 DEF TrackerCharge

LEMMA TrackerReadInv ==
  ASSUME IInv, NEW t \in Trackers, TrackerRead(t)
  PROVE  IInv'
<1> DEFINE s == tracker[t]
           a == s.cur
           n == Lesser(s.use, s.list[a])
<1>1. s.pc = "read" /\ TrackerUnchanged /\ UNCHANGED <<row, deliveries>>
  BY DEF TrackerRead
<1>2. TrackerGood(s) /\ a \in Addresses /\ s.list[a] \in Nat /\ s.use \in Nat /\ t \in Workers
  BY <1>1, TrackerHolds DEF Workers
<1>3. TrackerGood(TrackerCharged(t)) /\ TrackerCharged(t).pc \in {"idle", "stamp"}
  BY <1>1, TrackerChargedGood
<1>4. UNCHANGED History /\ UNCHANGED monitor
  BY <1>1 DEF TrackerUnchanged, History, chain
<1>5. RowsGood' /\ FineGood(monitor)' /\ DeliveriesGood' /\ Kept
  BY <1>1, <1>4, RowsSame, FineSame, DeliveriesSame, KeptSame
<1>6. CASE /\ BookFrom(t, a, n)
           /\ tracker' = [tracker EXCEPT ![t] =
                IF Booked(t)' THEN TrackerCharged(t) ELSE [@ EXCEPT !.pc = "book"]]
           /\ Quiet
  <2>1. n \in Nat
    BY <1>2 DEF Lesser
  <2>2. PICK h : /\ handing' = [handing EXCEPT ![t] = h] /\ CopyGood(h, a)
                 /\ Booked(t)' <=> h = NoHanding
    BY <1>2, <1>6, <2>1, BookFromGood
  <2>3. CASE h = NoHanding
    <3>1. tracker' = [tracker EXCEPT ![t] = TrackerCharged(t)]
      BY <1>6, <2>2, <2>3
    <3>2. HandingGood'
      BY <1>3, <1>4, <1>5, <2>2, <2>3, <3>1, TrackerHanding
    <3> QED
      BY <1>1, <1>3, <1>5, <1>6, <3>1, <3>2, TrackerInv
  <2>4. CASE h # NoHanding
    <3>1. PICK q : q = [s EXCEPT !.pc = "book"]
      OBVIOUS
    <3>2. tracker' = [tracker EXCEPT ![t] = q]
      BY <1>6, <2>2, <2>4, <3>1
    <3>3. TrackerGood(q) /\ q.pc = "book" /\ q.cur = a
      BY <1>1, <1>2, <3>1 DEF TrackerGood, TrackerRun
    <3>4. CopyGood(h, q.cur) /\ q.cur \in Addresses
      BY <1>2, <2>2, <3>3
    <3>5. CopyGood(h, q.cur)'
      BY <1>5, <3>4, CopyFrame
    <3>6. HandingGood'
      BY <1>4, <1>5, <2>2, <3>2, <3>3, <3>5, TrackerHanding
    <3> QED
      BY <1>1, <1>5, <1>6, <3>2, <3>3, <3>6, TrackerInv
  <2> QED
    BY <2>3, <2>4
<1>7. CASE Fault /\ tracker' = [tracker EXCEPT ![t] = TrackerCharged(t)] /\ UNCHANGED handing
  BY <1>1, <1>3, <1>7, TrackerMoves
<1> QED
  BY <1>6, <1>7 DEF TrackerRead

LEMMA TrackerBookInv ==
  ASSUME IInv, NEW t \in Trackers, TrackerBook(t)
  PROVE  IInv'
<1> DEFINE s == tracker[t]
           a == s.cur
<1>1. s.pc = "book" /\ TrackerUnchanged /\ UNCHANGED row
  BY DEF TrackerBook
<1>2. TrackerGood(s) /\ a \in Addresses /\ t \in Workers /\ t # "monitor"
  BY <1>1, TrackerHolds, UpkeepAssumption DEF Workers
<1>3. TrackerGood(TrackerCharged(t)) /\ TrackerCharged(t).pc \in {"idle", "stamp"}
  BY <1>1, TrackerChargedGood
<1>4. UNCHANGED History /\ UNCHANGED monitor
  BY <1>1 DEF TrackerUnchanged, History, chain
<1>5. RowsGood' /\ FineGood(monitor)'
  BY <1>1, <1>4, RowsSame, FineSame
<1>6. CopyGood(handing[t], a)
  BY <1>1, <1>2 DEF IInv, HandingGood, Booking, CurOf
<1>7. CASE /\ BookOne(t, a)
           /\ tracker' = [tracker EXCEPT ![t] = IF Booked(t)' THEN TrackerCharged(t) ELSE @]
           /\ Quiet
  <2>1. DeliveriesGood' /\ Kept
    BY <1>2, <1>6, <1>7, BookOneGood
  <2>2. PICK b : b = a
    OBVIOUS
  <2>3. BookOne(t, b) /\ b \in Addresses /\ CopyGood(handing[t], b)
    BY <1>2, <1>6, <1>7, <2>2
  <2>4. PICK h : /\ handing' = [handing EXCEPT ![t] = h] /\ CopyGood(h, b)'
                 /\ Booked(t)' <=> h = NoHanding
    BY <1>2, <2>3, BookOneGood
  <2>5. CASE h = NoHanding
    <3>1. tracker' = [tracker EXCEPT ![t] = TrackerCharged(t)]
      BY <1>7, <2>4, <2>5
    <3>2. HandingGood'
      BY <1>3, <1>4, <2>1, <2>4, <2>5, <3>1, TrackerHanding
    <3> QED
      BY <1>1, <1>3, <1>5, <1>7, <2>1, <3>1, <3>2, TrackerInv
  <2>6. CASE h # NoHanding
    <3>1. PICK q : q = s
      OBVIOUS
    <3>2. tracker' = [tracker EXCEPT ![t] = q]
      BY <1>7, <2>4, <2>6, <3>1
    <3>3. TrackerGood(q) /\ q.pc = "book" /\ q.cur = b
      BY <1>1, <1>2, <2>2, <3>1
    <3>4. CopyGood(h, q.cur)'
      BY <2>4, <3>3
    <3>5. HandingGood'
      BY <1>4, <2>1, <2>4, <3>2, <3>3, <3>4, TrackerHanding
    <3> QED
      BY <1>1, <1>5, <1>7, <2>1, <3>2, <3>3, <3>5, TrackerInv
  <2> QED
    BY <2>5, <2>6
<1>8. CASE /\ Fault
           /\ tracker' = [tracker EXCEPT ![t] = TrackerCharged(t)]
           /\ handing' = [handing EXCEPT ![t] = NoHanding]
           /\ UNCHANGED deliveries
  <2>1. HandingGood'
    BY <1>3, <1>4, <1>8, KeptSame, TrackerHanding
  <2> QED
    BY <1>1, <1>3, <1>5, <1>8, <2>1, DeliveriesSame, TrackerInv
<1> QED
  BY <1>7, <1>8 DEF TrackerBook

LEMMA TrackerStampInv ==
  ASSUME IInv, NEW t \in Trackers, TrackerStamp(t)
  PROVE  IInv'
<1> DEFINE s == tracker[t]
           a == s.cur
           r == [row[a] EXCEPT !.checked = s.upTo]
<1>1. /\ s.pc = "stamp" /\ TrackerUnchanged /\ UNCHANGED <<deliveries, handing>>
      /\ tracker' = [tracker EXCEPT ![t] = TrackerNext(t)]
  BY DEF TrackerStamp
<1>2. TrackerGood(s) /\ a \in Addresses /\ s.upTo \in Marks /\ s.upTo <= made[a]
  BY <1>1, TrackerHolds DEF TrackerGood
<1>3. TrackerGood(TrackerNext(t)) /\ TrackerNext(t).pc \in {"idle", "loop"}
  BY TrackerNextGood
<1>4. UNCHANGED History /\ UNCHANGED monitor
  BY <1>1 DEF TrackerUnchanged, History, chain
<1>5. CASE Put(a, r) /\ Quiet
  <2>1. RowGood(r, a) /\ r.penaltyAge = row[a].penaltyAge
    <3> HIDE DEF a
    <3> QED
      BY <1>2, StampedRow
  <2>2. RowsGood' /\ FineGood(monitor)' /\ DeliveriesGood'
    <3> HIDE DEF r, a
    <3> QED
      BY <1>1, <1>2, <1>4, <1>5, <2>1, PutGood, FineFrame, DeliveriesSame DEF IInv
  <2>3. HandingGood'
    BY <1>1, <1>3, <1>4, TrackerNotBooking
  <2> QED
    BY <1>1, <1>3, <1>5, <2>2, <2>3, TrackerInv
<1>6. CASE Fault /\ UNCHANGED row
  BY <1>1, <1>3, <1>6, TrackerMoves
<1> QED
  BY <1>5, <1>6 DEF TrackerStamp

-----------------------------------------------------------------------------
(* The monitor.                                                            *)

\* The runs the monitor goes on with after a check, and after an address.
LEMMA CheckedGood ==
  ASSUME IInv, NEW a \in Addresses
  PROVE  /\ MonitorGood(Checked(a)) /\ Checked(a).pc \in {"fetch", "check"}
         /\ MonitorGood(Measured(a)) /\ Measured(a).pc \in {"fetch", "check"}
<1>1. MonitorGood(monitor)
  BY DEF IInv
<1>2. MonitorGood(Checked(a)) /\ Checked(a).pc \in {"fetch", "check"}
  BY <1>1 DEF Checked, MonitorGood, MonitorRun, Full
<1>3. MonitorGood(Measured(a)) /\ Measured(a).pc \in {"fetch", "check"}
  BY <1>2 DEF Measured, MonitorGood, MonitorRun, Full
<1> QED
  BY <1>2, <1>3

LEMMA MonitorNextGood ==
  ASSUME IInv
  PROVE  /\ MonitorGood(MonitorNext) /\ MonitorNext.pc \in {"idle", "adjust"}
         /\ MonitorGood(MonitorIdle) /\ MonitorIdle.pc = "idle"
<1>1. MonitorGood(monitor) /\ MonitorGood(MonitorIdle) /\ MonitorIdle.pc = "idle"
  BY IdleGood DEF IInv, MonitorIdle
<1>2. CASE monitor.adjust = {}
  BY <1>1, <1>2 DEF MonitorNext
<1>3. CASE monitor.adjust # {}
  <2> DEFINE m == [monitor EXCEPT !.pc = "adjust", !.cur = "none", !.level = 0, !.use = 0]
  <2>1. m \in MonitorRun /\ m.pc = "adjust"
    <3>1. monitor \in MonitorRun
      BY <1>1 DEF MonitorGood
    <3>2. 0 \in 0 .. Full
      BY DEF Full
    <3> QED
      BY <3>1, <3>2 DEF MonitorRun
  <2>2. m.list = monitor.list
    BY <1>1 DEF MonitorGood, MonitorRun
  <2>3. MonitorGood(m)
    BY <1>1, <2>1, <2>2 DEF MonitorGood
  <2>4. MonitorNext = m
    BY <1>3 DEF MonitorNext
  <2> HIDE DEF m
  <2> QED
    BY <1>1, <2>1, <2>3, <2>4
<1> QED
  BY <1>2, <1>3

\* The monitor moves and changes no more than what energy is where.
LEMMA MonitorMoves ==
  ASSUME IInv, MonitorGood(monitor'), monitor.pc # "book", monitor'.pc \notin {"book", "fine"},
         MonitorUnchanged, UNCHANGED <<row, deliveries, handing>>,
         Quiet \/ Fault \/ (\E a \in Addresses : Refusal(a)),
         delegated' \subseteq Addresses, energy' \in [Addresses -> 0 .. Full]
  PROVE  IInv'
<1>1. UNCHANGED History /\ UNCHANGED tracker
  BY DEF MonitorUnchanged, History
<1>2. RowsGood' /\ DeliveriesGood'
  BY <1>1, RowsSame, DeliveriesSame
<1>3. FineGood(monitor)'
  BY DEF FineGood
<1>4. HandingGood'
  BY <1>1, MonitorNotBooking
<1> QED
  BY <1>2, <1>3, <1>4, MonitorInv

LEMMA EnergySame ==
  ASSUME IInv, UNCHANGED <<delegated, energy>>
  PROVE  delegated' \subseteq Addresses /\ energy' \in [Addresses -> 0 .. Full]
BY DEF IInv, WorldGood

\* The monitor writes a good row, and is not booking.
LEMMA MonitorWrites ==
  ASSUME IInv, MonitorGood(monitor'), monitor.pc # "book", monitor'.pc \notin {"book", "fine"},
         MonitorUnchanged, UNCHANGED <<deliveries, handing, delegated, energy>>, Quiet \/ Fault,
         NEW a \in Addresses, NEW r, RowGood(r, a), Put(a, r)
  PROVE  IInv'
<1>1. UNCHANGED History /\ UNCHANGED tracker
  BY DEF MonitorUnchanged, History
<1>2. RowsGood' /\ DeliveriesGood'
  BY <1>1, PutGood, DeliveriesSame DEF IInv
<1>3. FineGood(monitor)'
  BY DEF FineGood
<1>4. HandingGood'
  BY <1>1, MonitorNotBooking
<1> QED
  BY <1>2, <1>3, <1>4, EnergySame, MonitorInv

LEMMA MonitorStartInv ==
  ASSUME IInv, MonitorStart
  PROVE  IInv'
<1> DEFINE list == [a \in Addresses |-> IF Listed(a) THEN row[a].remaining ELSE 0]
           todo == {a \in Addresses : Listed(a)}
           m == [MonitorIdle EXCEPT !.pc = "check", !.list = list, !.todo = todo]
<1>1. /\ monitor.pc = "idle" /\ monitor' = m /\ Quiet
      /\ MonitorUnchanged /\ UNCHANGED <<row, deliveries, handing, delegated, energy>>
  BY DEF MonitorStart
<1>2. ASSUME NEW a \in Addresses
      PROVE  row[a].remaining \in Nat /\ row[a].remaining <= Entitled(a) /\ 0 <= Entitled(a)
  <2>1. RowGood(row[a], a) /\ bought[a] \in Nat /\ highest[a] \in Nat
    BY DEF IInv, RowsGood, WorldGood
  <2> QED
    BY <2>1 DEF RowGood, Row, Entitled
<1>3. list \in [Addresses -> Nat] /\ todo \in SUBSET Addresses /\ \A a \in Addresses : list[a] <= Entitled(a)
  BY <1>2
<1>4. MonitorGood(m) /\ m.pc = "check"
  <2> HIDE DEF list, todo
  <2>1. MonitorIdle \in MonitorRun
    BY IdleGood DEF IInv, MonitorGood
  <2>2. m \in MonitorRun /\ m.pc = "check" /\ m.list = list
    BY <1>3, <2>1 DEF MonitorRun
  <2> QED
    BY <1>3, <2>2 DEF MonitorGood
<1> HIDE DEF m
<1> QED
  BY <1>1, <1>4, EnergySame, MonitorMoves

LEMMA MonitorCheckInv ==
  ASSUME IInv, NEW a \in Addresses, MonitorCheck(a)
  PROVE  IInv'
<1>1. /\ monitor.pc = "check" /\ MonitorUnchanged
      /\ UNCHANGED <<row, deliveries, handing, delegated, energy>>
  BY DEF MonitorCheck
<1>2. MonitorGood(Checked(a)) /\ MonitorGood(Measured(a))
      /\ Checked(a).pc \in {"fetch", "check"} /\ Measured(a).pc \in {"fetch", "check"}
  BY CheckedGood
<1>3. CASE /\ PenaltyDue(row[a])
           /\ monitor' = [monitor EXCEPT !.pc = "fine", !.cur = a, !.use = row[a].remaining]
           /\ Quiet
  <2>1. MonitorGood(monitor) /\ RowGood(row[a], a) /\ row[a] \in Row
    BY DEF IInv, RowsGood, RowGood
  <2>2. row[a].remaining \in Nat /\ row[a].remaining <= Entitled(a)
    BY <2>1 DEF RowGood, Row
  <2>3. MonitorGood(monitor')
    BY <1>3, <2>1, <2>2 DEF MonitorGood, MonitorRun
  <2>4. UNCHANGED History /\ UNCHANGED tracker
    BY <1>1 DEF MonitorUnchanged, History
  <2>5. monitor'.pc = "fine" /\ monitor'.cur = a /\ monitor'.use = row[a].remaining
    BY <1>3, <2>1 DEF MonitorGood, MonitorRun
  <2>6. halfDays >= 2 /\ row[a].penaltyAge \in {Never, Day}
    BY <1>3, <2>1 DEF PenaltyDue, RowGood, AgesGood, Day, Never
  <2>7. FineGood(monitor)'
    BY <1>1, <2>2, <2>4, <2>5, <2>6 DEF FineGood, Entitled, History
  <2>8. RowsGood' /\ DeliveriesGood' /\ HandingGood'
    BY <1>1, <2>4, <2>5, RowsSame, DeliveriesSame, MonitorNotBooking
  <2> QED
    BY <1>1, <1>3, <2>3, <2>7, <2>8, EnergySame, MonitorInv
<1>4. CASE /\ monitor' = IF row[a].resting THEN Checked(a) ELSE Measured(a)
           /\ Quiet
  BY <1>1, <1>2, <1>4, EnergySame, MonitorMoves
<1>5. CASE Fault /\ monitor' = Checked(a)
  BY <1>1, <1>2, <1>5, EnergySame, MonitorMoves
<1> QED
  BY <1>3, <1>4, <1>5 DEF MonitorCheck

\* A fine is written from the count the check read.
LEMMA MonitorFineInv ==
  ASSUME IInv, MonitorFine
  PROVE  IInv'
<1> DEFINE a == monitor.cur
           n == Reduced(monitor.use, 1)
           r == [row[a] EXCEPT !.remaining = n, !.penaltyAge = 0, !.penalties = @ + 1, !.resting = TRUE]
           m == [Checked(a) EXCEPT !.adjust = @ \cup {a}, !.fined = @ \cup {a}]
<1>1. /\ monitor.pc = "fine" /\ MonitorUnchanged
      /\ UNCHANGED <<deliveries, handing, delegated, energy>>
  BY DEF MonitorFine
<1>2. /\ MonitorGood(monitor) /\ a \in Addresses /\ monitor.use \in Nat /\ monitor.use <= Entitled(a)
      /\ halfDays >= 2 /\ row[a].penaltyAge \in {Never, Day} /\ Entitled(a) \in Nat
  <2>1. MonitorGood(monitor) /\ FineGood(monitor)
    BY DEF IInv
  <2>2. a \in Addresses /\ monitor.use \in Nat
    BY <1>1, <2>1 DEF FineGood, MonitorGood, MonitorRun
  <2>3. Entitled(a) \in Nat
    BY <2>2 DEF IInv, WorldGood, Entitled
  <2> QED
    BY <1>1, <2>1, <2>2, <2>3 DEF FineGood
<1>3. /\ MonitorGood(Checked(a)) /\ Checked(a).pc \in {"fetch", "check"}
      /\ MonitorGood(Measured(a)) /\ Measured(a).pc \in {"fetch", "check"}
  BY <1>2, CheckedGood
<1>4. n \in Nat /\ n <= Entitled(a)
  BY <1>2, ReducedGood
<1>5. RowGood(r, a)
  <2> HIDE DEF n, a
  <2> QED
    BY <1>2, <1>4, FinedRow
<1>6. MonitorGood(m) /\ m.pc \in {"fetch", "check"}
  <2> HIDE DEF a
  <2> QED
    BY <1>2, <1>3 DEF MonitorGood, MonitorRun
<1>7. CASE Put(a, r) /\ monitor' = m /\ Quiet
  <2> HIDE DEF r, m, a
  <2> QED
    BY <1>1, <1>2, <1>5, <1>6, <1>7, MonitorWrites
<1>8. CASE Fault /\ (Put(a, r) \/ UNCHANGED row) /\ monitor' \in {Measured(a), Checked(a)}
  <2>1. MonitorGood(monitor') /\ monitor'.pc \in {"fetch", "check"}
    BY <1>3, <1>8
  <2> HIDE DEF r, a
  <2>2. CASE Put(a, r)
    BY <1>1, <1>2, <1>5, <1>8, <2>1, <2>2, MonitorWrites
  <2>3. CASE UNCHANGED row
    BY <1>1, <1>8, <2>1, <2>3, EnergySame, MonitorMoves
  <2> QED
    BY <1>8, <2>2, <2>3
<1> QED
  BY <1>7, <1>8 DEF MonitorFine

LEMMA MonitorFetchInv ==
  ASSUME IInv, MonitorFetch
  PROVE  IInv'
<1>1. /\ monitor.pc = "fetch" /\ MonitorUnchanged /\ (Quiet \/ Fault)
      /\ UNCHANGED <<row, deliveries, handing, delegated, energy>>
      /\ monitor' \in {MonitorIdle, [monitor EXCEPT !.pc = "adjust"]}
  BY DEF MonitorFetch, Aborted
<1>2. MonitorGood(monitor') /\ monitor'.pc \in {"idle", "adjust"}
  BY <1>1, MonitorNextGood DEF IInv, MonitorGood, MonitorRun
<1> QED
  BY <1>1, <1>2, EnergySame, MonitorMoves

\* What the monitor holds while it adjusts an address.
LEMMA MonitorHolds ==
  ASSUME IInv, monitor.pc \in {"delegate", "count", "stamp", "write", "read", "book"}
  PROVE  /\ MonitorGood(monitor) /\ monitor.cur \in Addresses
         /\ monitor.list[monitor.cur] \in Nat
         /\ monitor.list[monitor.cur] <= Entitled(monitor.cur)
         /\ Entitled(monitor.cur) \in Nat
         /\ monitor.use \in Nat
<1>1. MonitorGood(monitor)
  BY DEF IInv
<1>2. monitor.cur \in Addresses
  BY <1>1 DEF MonitorGood
<1>3. Entitled(monitor.cur) \in Nat
  BY <1>2 DEF IInv, WorldGood, Entitled
<1> QED
  BY <1>1, <1>2, <1>3 DEF MonitorGood, MonitorRun

\* The monitor goes on with the address at hand.
LEMMA MonitorGoesOn ==
  ASSUME MonitorGood(monitor), monitor.cur \in Addresses,
         NEW p \in {"count", "stamp", "write", "read", "book"}, NEW u \in Nat
  PROVE  LET m == [monitor EXCEPT !.pc = p, !.use = u] IN MonitorGood(m) /\ m.pc = p
BY DEF MonitorGood, MonitorRun

LEMMA MonitorTurns ==
  ASSUME MonitorGood(monitor), monitor.cur \in Addresses,
         NEW p \in {"count", "stamp", "write", "read", "book"}
  PROVE  LET m == [monitor EXCEPT !.pc = p] IN
         MonitorGood(m) /\ m.pc = p /\ m.cur = monitor.cur
BY DEF MonitorGood, MonitorRun

LEMMA MonitorReclaimInv ==
  ASSUME IInv, NEW a \in Addresses, MonitorReclaim(a)
  PROVE  IInv'
<1>1. /\ monitor.pc = "adjust" /\ MonitorUnchanged /\ UNCHANGED <<row, deliveries, handing>>
      /\ monitor' = [monitor EXCEPT !.pc = "delegate", !.adjust = @ \ {a}, !.cur = a, !.level = energy[a]]
  BY DEF MonitorReclaim
<1>2. MonitorGood(monitor) /\ energy \in [Addresses -> 0 .. Full] /\ delegated \subseteq Addresses
  BY DEF IInv, WorldGood
<1>3. energy[a] \in 0 .. Full
  BY <1>2
<1>4. MonitorGood(monitor') /\ monitor'.pc = "delegate"
  BY <1>1, <1>2, <1>3 DEF MonitorGood, MonitorRun
<1>5. CASE Reclaimed(a) /\ Quiet
  <2>1. delegated' \subseteq Addresses /\ energy' \in [Addresses -> 0 .. Full]
    BY <1>2, <1>5 DEF Reclaimed, Full
  <2> QED
    BY <1>1, <1>4, <1>5, <2>1, MonitorMoves
<1>6. CASE (Refusal(a) \/ Fault) /\ UNCHANGED <<delegated, energy>>
  BY <1>1, <1>4, <1>6, EnergySame, MonitorMoves
<1> QED
  BY <1>5, <1>6 DEF MonitorReclaim

LEMMA MonitorDelegateInv ==
  ASSUME IInv, MonitorDelegate
  PROVE  IInv'
<1> DEFINE a == monitor.cur
           delegate == delegated' = delegated \cup {a} /\ energy' = [energy EXCEPT ![a] = Full]
<1>1. monitor.pc = "delegate" /\ MonitorUnchanged /\ UNCHANGED <<row, deliveries, handing>>
  BY DEF MonitorDelegate
<1>2. MonitorGood(monitor) /\ a \in Addresses
  BY <1>1, MonitorHolds
<1>3. MonitorGood(Delegated) /\ Delegated.pc \in {"write", "count"}
  <2>1. CASE monitor.cur \in monitor.fined
    BY <1>2, <2>1, MonitorGoesOn DEF Delegated
  <2>2. CASE monitor.cur \notin monitor.fined
    BY <1>2, <2>2, MonitorTurns DEF Delegated
  <2> QED
    BY <2>1, <2>2
<1>4. MonitorGood(MonitorNext) /\ MonitorNext.pc \in {"idle", "adjust"}
  BY MonitorNextGood
<1>5. delegate \/ UNCHANGED <<delegated, energy>>
  BY DEF MonitorDelegate
<1>6. delegated' \subseteq Addresses /\ energy' \in [Addresses -> 0 .. Full]
  <2>1. CASE delegate
    BY <1>2, <2>1 DEF IInv, WorldGood, Full
  <2>2. CASE UNCHANGED <<delegated, energy>>
    BY <2>2, EnergySame
  <2> QED
    BY <1>5, <2>1, <2>2
<1>7. (monitor' = Delegated /\ Quiet) \/ (monitor' = MonitorNext /\ Fault)
  BY DEF MonitorDelegate
<1> QED
  BY <1>1, <1>3, <1>4, <1>6, <1>7, MonitorMoves

LEMMA MonitorCountInv ==
  ASSUME IInv, MonitorCount
  PROVE  IInv'
<1> DEFINE a == monitor.cur
<1>1. /\ monitor.pc = "count" /\ MonitorUnchanged
      /\ UNCHANGED <<row, deliveries, handing, delegated, energy>>
  BY DEF MonitorCount
<1>2. /\ MonitorGood(monitor) /\ a \in Addresses /\ monitor.list[a] \in Nat
      /\ made[a] \in 0 .. MaxTransfers
  BY <1>1, MonitorHolds DEF IInv, WorldGood
<1>3. CASE /\ \E k \in Since(a, row[a].checked) :
                monitor' = [monitor EXCEPT !.pc = "stamp", !.use = Lesser(monitor.list[a],
                  IF made[a] > k THEN made[a] - k ELSE EnergyBased(monitor.level))]
           /\ Quiet
  <2>1. PICK k \in Since(a, row[a].checked) :
          monitor' = [monitor EXCEPT !.pc = "stamp", !.use = Lesser(monitor.list[a],
            IF made[a] > k THEN made[a] - k ELSE EnergyBased(monitor.level))]
    BY <1>3
  <2>2. k \in Int
    <3>1. row[a].checked \in Marks
      BY <1>2 DEF IInv, RowsGood, RowGood, Row
    <3> QED
      BY <1>2, <2>1, <3>1, MarksGood, UpkeepAssumption DEF Since, Marks, Never
  <2>3. EnergyBased(monitor.level) \in Nat
    BY DEF EnergyBased
  <2>4. PICK u : u = Lesser(monitor.list[a], IF made[a] > k THEN made[a] - k ELSE EnergyBased(monitor.level))
    OBVIOUS
  <2>5. u \in Nat
    BY <1>2, <2>2, <2>3, <2>4 DEF Lesser
  <2>6. monitor' = [monitor EXCEPT !.pc = "stamp", !.use = u]
    BY <2>1, <2>4
  <2>7. MonitorGood(monitor') /\ monitor'.pc = "stamp"
    BY <1>2, <2>5, <2>6, MonitorGoesOn
  <2> QED
    BY <1>1, <1>3, <2>7, EnergySame, MonitorMoves
<1>4. CASE Fault /\ monitor' = [monitor EXCEPT !.pc = "write", !.use = 0]
  <2>1. MonitorGood(monitor') /\ monitor'.pc = "write"
    BY <1>2, <1>4, MonitorGoesOn
  <2> QED
    BY <1>1, <1>4, <2>1, EnergySame, MonitorMoves
<1> QED
  BY <1>3, <1>4 DEF MonitorCount

LEMMA MonitorStampInv ==
  ASSUME IInv, MonitorStamp
  PROVE  IInv'
<1> DEFINE a == monitor.cur
           r == [row[a] EXCEPT !.checked = made[a]]
<1>1. /\ monitor.pc = "stamp" /\ MonitorUnchanged
      /\ UNCHANGED <<deliveries, handing, delegated, energy>>
  BY DEF MonitorStamp
<1>2. MonitorGood(monitor) /\ a \in Addresses /\ made[a] \in 0 .. MaxTransfers
  BY <1>1, MonitorHolds DEF IInv, WorldGood
<1>3. CASE Put(a, r) /\ monitor' = [monitor EXCEPT !.pc = "write"] /\ Quiet
  <2>1. made[a] \in Marks /\ made[a] <= made[a]
    BY <1>2, UpkeepAssumption DEF Marks, Never
  <2>2. RowGood(r, a)
    <3> HIDE DEF a
    <3> QED
      BY <1>2, <2>1, StampedRow
  <2>3. MonitorGood(monitor') /\ monitor'.pc = "write"
    BY <1>2, <1>3, MonitorTurns
  <2> HIDE DEF r, a
  <2> QED
    BY <1>1, <1>2, <1>3, <2>2, <2>3, MonitorWrites
<1>4. CASE Fault /\ monitor' = [monitor EXCEPT !.pc = "write", !.use = 0] /\ UNCHANGED row
  <2>1. MonitorGood(monitor') /\ monitor'.pc = "write"
    BY <1>2, <1>4, MonitorGoesOn
  <2> QED
    BY <1>1, <1>4, <2>1, EnergySame, MonitorMoves
<1> QED
  BY <1>3, <1>4 DEF MonitorStamp

\* The count written comes from the list, and so does not exceed what was
\* bought when the run started.
LEMMA MonitorWriteInv ==
  ASSUME IInv, MonitorWrite
  PROVE  IInv'
<1> DEFINE a == monitor.cur
           n == Reduced(monitor.list[a], monitor.use)
           r == [row[a] EXCEPT !.remaining = n, !.delegationAge = 0, !.resting = TRUE]
           m == IF monitor.use > 0 THEN [monitor EXCEPT !.pc = "read"] ELSE MonitorNext
<1>1. /\ monitor.pc = "write" /\ MonitorUnchanged
      /\ UNCHANGED <<deliveries, handing, delegated, energy>>
  BY DEF MonitorWrite
<1>2. /\ MonitorGood(monitor) /\ a \in Addresses /\ monitor.list[a] \in Nat
      /\ monitor.list[a] <= Entitled(a) /\ Entitled(a) \in Nat /\ monitor.use \in Nat
  BY <1>1, MonitorHolds
<1>3. MonitorGood(MonitorNext) /\ MonitorNext.pc \in {"idle", "adjust"}
  BY MonitorNextGood
<1>4. MonitorGood(m) /\ m.pc \in {"read", "idle", "adjust"}
  <2>1. CASE monitor.use > 0
    BY <1>2, <2>1, MonitorTurns
  <2>2. CASE ~(monitor.use > 0)
    BY <1>3, <2>2
  <2> QED
    BY <2>1, <2>2
<1>5. CASE Put(a, r) /\ monitor' = m /\ Quiet
  <2>1. n \in Nat /\ n <= Entitled(a)
    BY <1>2, ReducedGood
  <2>2. RowGood(r, a)
    <3> HIDE DEF n, a
    <3> QED
      BY <1>2, <2>1, ChargedRow
  <2> HIDE DEF r, m, a
  <2> QED
    BY <1>1, <1>2, <1>4, <1>5, <2>2, MonitorWrites
<1>6. CASE Fault /\ monitor' = MonitorNext /\ UNCHANGED row
  BY <1>1, <1>3, <1>6, EnergySame, MonitorMoves
<1> QED
  BY <1>5, <1>6 DEF MonitorWrite

\* Between two statements of a booking of the monitor.
LEMMA MonitorBooks ==
  ASSUME IInv, MonitorUnchanged, UNCHANGED <<row, delegated, energy>>,
         MonitorGood(monitor'), monitor'.pc # "fine", DeliveriesGood', HandingGood', Quiet \/ Fault
  PROVE  IInv'
<1>1. UNCHANGED History
  BY DEF MonitorUnchanged, History
<1>2. RowsGood' /\ FineGood(monitor)'
  BY <1>1, RowsSame DEF FineGood
<1> QED
  BY <1>2, EnergySame, MonitorInv

LEMMA MonitorReadInv ==
  ASSUME IInv, MonitorRead
  PROVE  IInv'
<1> DEFINE a == monitor.cur
<1>1. /\ monitor.pc = "read" /\ MonitorUnchanged
      /\ UNCHANGED <<row, deliveries, delegated, energy>>
  BY DEF MonitorRead
<1>2. MonitorGood(monitor) /\ a \in Addresses /\ monitor.use \in Nat /\ "monitor" \in Workers
  BY <1>1, MonitorHolds DEF Workers
<1>3. MonitorGood(MonitorNext) /\ MonitorNext.pc \in {"idle", "adjust"}
  BY MonitorNextGood
<1>4. UNCHANGED tracker /\ DeliveriesGood' /\ Kept
  BY <1>1, DeliveriesSame, KeptSame DEF MonitorUnchanged
<1>5. CASE /\ BookFrom("monitor", a, monitor.use)
           /\ monitor' = IF Booked("monitor")' THEN MonitorNext ELSE [monitor EXCEPT !.pc = "book"]
           /\ Quiet
  <2>1. PICK h : /\ handing' = [handing EXCEPT !["monitor"] = h] /\ CopyGood(h, a)
                 /\ Booked("monitor")' <=> h = NoHanding
    BY <1>2, <1>5, BookFromGood
  <2>2. CASE h = NoHanding
    <3>1. monitor' = MonitorNext
      BY <1>5, <2>1, <2>2
    <3>2. HandingGood'
      BY <1>3, <1>4, <2>1, <2>2, <3>1, MonitorHanding
    <3> QED
      BY <1>1, <1>3, <1>4, <1>5, <3>1, <3>2, MonitorBooks
  <2>3. CASE h # NoHanding
    <3>1. monitor' = [monitor EXCEPT !.pc = "book"]
      BY <1>5, <2>1, <2>3
    <3>2. MonitorGood(monitor') /\ monitor'.pc = "book" /\ monitor'.cur = a
      BY <1>2, <3>1, MonitorTurns
    <3>3. CopyGood(h, a)'
      <4>1. PICK b : b = a
        OBVIOUS
      <4>2. CopyGood(h, b) /\ b \in Addresses
        BY <1>2, <2>1, <4>1
      <4>3. CopyGood(h, b)'
        BY <1>4, <4>2, CopyFrame
      <4> QED
        BY <3>2, <4>1, <4>3
    <3>4. HandingGood'
      BY <1>4, <2>1, <3>2, <3>3, MonitorHanding
    <3> QED
      BY <1>1, <1>4, <1>5, <3>2, <3>4, MonitorBooks
  <2> QED
    BY <2>2, <2>3
<1>6. CASE Fault /\ monitor' = MonitorNext /\ UNCHANGED handing
  BY <1>1, <1>3, <1>6, EnergySame, MonitorMoves
<1> QED
  BY <1>5, <1>6 DEF MonitorRead

LEMMA MonitorBookInv ==
  ASSUME IInv, MonitorBook
  PROVE  IInv'
<1> DEFINE a == monitor.cur
<1>1. monitor.pc = "book" /\ MonitorUnchanged /\ UNCHANGED <<row, delegated, energy>>
  BY DEF MonitorBook
<1>2. MonitorGood(monitor) /\ a \in Addresses /\ "monitor" \in Workers
  BY <1>1, MonitorHolds DEF Workers
<1>3. MonitorGood(MonitorNext) /\ MonitorNext.pc \in {"idle", "adjust"}
  BY MonitorNextGood
<1>4. UNCHANGED tracker
  BY <1>1 DEF MonitorUnchanged
<1>5. CopyGood(handing["monitor"], a)
  BY <1>1, <1>2 DEF IInv, HandingGood, Booking, CurOf
<1>6. CASE /\ BookOne("monitor", a)
           /\ monitor' = IF Booked("monitor")' THEN MonitorNext ELSE monitor
           /\ Quiet
  <2>1. PICK b : b = a
    OBVIOUS
  <2>2. BookOne("monitor", b) /\ b \in Addresses /\ CopyGood(handing["monitor"], b)
    BY <1>2, <1>5, <1>6, <2>1
  <2>3. DeliveriesGood' /\ Kept
    BY <1>2, <2>2, BookOneGood
  <2>4. PICK h : /\ handing' = [handing EXCEPT !["monitor"] = h] /\ CopyGood(h, b)'
                 /\ Booked("monitor")' <=> h = NoHanding
    BY <1>2, <2>2, BookOneGood
  <2>5. CASE h = NoHanding
    <3>1. monitor' = MonitorNext
      BY <1>6, <2>4, <2>5
    <3>2. HandingGood'
      BY <1>3, <1>4, <2>3, <2>4, <2>5, <3>1, MonitorHanding
    <3> QED
      BY <1>1, <1>3, <1>6, <2>3, <3>1, <3>2, MonitorBooks
  <2>6. CASE h # NoHanding
    <3>1. monitor' = monitor
      BY <1>6, <2>4, <2>6
    <3>2. CopyGood(h, monitor.cur)' /\ monitor'.pc = "book" /\ MonitorGood(monitor')
      BY <1>1, <1>2, <2>1, <2>4, <3>1
    <3>3. HandingGood'
      BY <1>4, <2>3, <2>4, <3>2, MonitorHanding
    <3> QED
      BY <1>1, <1>6, <2>3, <3>2, <3>3, MonitorBooks
  <2> QED
    BY <2>5, <2>6
<1>7. CASE /\ Fault
           /\ monitor' = MonitorNext
           /\ handing' = [handing EXCEPT !["monitor"] = NoHanding]
           /\ UNCHANGED deliveries
  <2>1. HandingGood'
    BY <1>3, <1>4, <1>7, KeptSame, MonitorHanding
  <2> QED
    BY <1>1, <1>3, <1>7, <2>1, DeliveriesSame, MonitorBooks
<1> QED
  BY <1>6, <1>7 DEF MonitorBook

-----------------------------------------------------------------------------
(* The final reclaim.                                                      *)

\* A step of the final reclaim that writes no row.
LEMMA FinalMoves ==
  ASSUME IInv, FinalUnchanged, UNCHANGED row, FinalGood',
         Quiet \/ Fault \/ (\E a \in Addresses : Refusal(a)),
         delegated' \subseteq Addresses, energy' \in [Addresses -> 0 .. Full]
  PROVE  IInv'
<1>1. UNCHANGED History /\ UNCHANGED <<deliveries, monitor, tracker, handing, resume>>
  BY DEF FinalUnchanged, History
<1>2. RowsGood' /\ FineGood(monitor)' /\ DeliveriesGood' /\ Kept
  BY <1>1, RowsSame, FineSame, DeliveriesSame, KeptSame
<1>3. ResumeGood'
  BY <1>1 DEF IInv, ResumeGood
<1> QED
  BY <1>1, <1>2, <1>3, OtherInv

LEMMA FinalNextGood ==
  ASSUME NEW todo \in SUBSET Addresses
  PROVE  FinalNext(todo) \in FinalRun /\ FinalNext(todo).pc \in {"idle", "loop"}
BY DEF FinalNext, FinalIdle, FinalRun

LEMMA FinalStartInv ==
  ASSUME IInv, FinalStart
  PROVE  IInv'
<1>1. /\ FinalUnchanged /\ UNCHANGED <<row, delegated, energy>> /\ Quiet
      /\ final' = [FinalIdle EXCEPT !.pc = "loop", !.todo = {a \in Addresses : FinalDue(a)}]
  BY DEF FinalStart
<1>2. FinalGood'
  BY <1>1 DEF FinalGood, FinalIdle, FinalRun
<1> QED
  BY <1>1, <1>2, EnergySame, FinalMoves

LEMMA FinalReclaimInv ==
  ASSUME IInv, NEW a \in Addresses, FinalReclaim(a)
  PROVE  IInv'
<1> DEFINE rest == final.todo \ {a}
<1>1. FinalUnchanged /\ UNCHANGED row
  BY DEF FinalReclaim
<1>2. /\ rest \in SUBSET Addresses
      /\ energy \in [Addresses -> 0 .. Full] /\ delegated \subseteq Addresses
  BY DEF IInv, FinalGood, FinalRun, WorldGood
<1>3. CASE Reclaimed(a) /\ Quiet /\ final' = [pc |-> "mark", todo |-> rest, cur |-> a]
  <2>1. delegated' \subseteq Addresses /\ energy' \in [Addresses -> 0 .. Full]
    BY <1>2, <1>3 DEF Reclaimed, Full
  <2>2. FinalGood'
    BY <1>2, <1>3 DEF FinalGood, FinalRun
  <2> QED
    BY <1>1, <1>3, <2>1, <2>2, FinalMoves
<1>4. CASE Refusal(a) /\ UNCHANGED <<delegated, energy>> /\ final' = [pc |-> "mark", todo |-> rest, cur |-> a]
  <2>1. FinalGood'
    BY <1>2, <1>4 DEF FinalGood, FinalRun
  <2> QED
    BY <1>1, <1>4, <2>1, EnergySame, FinalMoves
<1>5. CASE Fault /\ final' = Thrown(rest, a) /\ UNCHANGED <<delegated, energy>>
  <2>1. FinalGood'
    BY <1>2, <1>5, FinalNextGood DEF FinalGood, Thrown
  <2> QED
    BY <1>1, <1>5, <2>1, EnergySame, FinalMoves
<1> QED
  BY <1>3, <1>4, <1>5 DEF FinalReclaim

LEMMA FinalMarkInv ==
  ASSUME IInv, FinalMark
  PROVE  IInv'
<1> DEFINE a == final.cur
           r == [row[a] EXCEPT !.finalDone = TRUE, !.resting = TRUE]
<1>1. /\ final.pc = "mark" /\ final' = FinalNext(final.todo) /\ FinalUnchanged
      /\ UNCHANGED <<delegated, energy>>
  BY DEF FinalMark
<1>2. a \in Addresses /\ final.todo \in SUBSET Addresses
  BY <1>1 DEF IInv, FinalGood, FinalRun
<1>3. FinalGood'
  BY <1>1, <1>2, FinalNextGood DEF FinalGood
<1>4. UNCHANGED History /\ UNCHANGED <<deliveries, monitor, tracker, handing, resume>>
  BY <1>1 DEF FinalUnchanged, History
<1>5. DeliveriesGood' /\ Kept /\ ResumeGood'
  BY <1>4, DeliveriesSame, KeptSame DEF IInv, ResumeGood
<1>6. CASE Put(a, r) /\ Quiet
  <2>1. RowGood(row[a], a) /\ row[a] \in Row
    BY <1>2 DEF IInv, RowsGood, RowGood
  <2>2. RowGood(r, a) /\ r.penaltyAge = row[a].penaltyAge
    <3>1. /\ r \in Row /\ r.remaining = row[a].remaining /\ r.checked = row[a].checked
          /\ r.delegationAge = row[a].delegationAge
          /\ r.penaltyAge = row[a].penaltyAge /\ r.penalties = row[a].penalties
      BY <2>1 DEF Row
    <3> QED
      BY <2>1, <3>1 DEF RowGood, AgesGood
  <2>3. RowsGood' /\ FineGood(monitor)'
    <3> HIDE DEF r, a
    <3> QED
      BY <1>2, <1>4, <1>6, <2>2, PutGood, FineFrame DEF IInv
  <2> QED
    BY <1>1, <1>3, <1>4, <1>5, <1>6, <2>3, EnergySame, OtherInv
<1>7. CASE Fault /\ UNCHANGED row
  BY <1>1, <1>3, <1>7, EnergySame, FinalMoves
<1> QED
  BY <1>6, <1>7 DEF FinalMark

-----------------------------------------------------------------------------
(* The theorems.                                                           *)

LEMMA InitInv ==
  ASSUME Init
  PROVE  IInv
<1>1. WorldGood
  BY UpkeepAssumption DEF Init, WorldGood, Full
<1>2. \A a \in Addresses : Entitled(a) = 0 /\ made[a] = 0
  BY DEF Init, Entitled
<1>3. RowsGood
  <2>1. NoRow \in Row
    BY MarksGood DEF NoRow, Row
  <2>2. AgesGood(NoRow)
    BY DEF NoRow, AgesGood
  <2>3. NoRow.remaining = 0 /\ NoRow.checked < 0
    BY MarksGood DEF NoRow
  <2>4. row = [a \in Addresses |-> NoRow]
    BY DEF Init
  <2>5. Never \in Int /\ NoRow.checked = Never
    BY DEF NoRow, Never
  <2> QED
    BY <1>2, <2>1, <2>2, <2>3, <2>4, <2>5 DEF RowsGood, RowGood
<1>4. TrackersGood
  BY <1>1, IdleGood DEF Init, TrackersGood
<1>5. MonitorGood(monitor) /\ FineGood(monitor)
  BY <1>1, IdleGood DEF Init, FineGood, MonitorIdle
<1>6. FinalGood /\ ResumeGood
  BY <1>1, IdleGood DEF Init, FinalGood, ResumeGood, FinalIdle, ResumeIdle
<1>7. DeliveriesGood
  <2>1. deliveries = [a \in Addresses |-> <<>>]
    BY DEF Init
  <2> QED
    BY <2>1 DEF DeliveriesGood, DeliveredWithinTotal
<1>8. HandingGood
  <2>1. \A w \in Workers : ~Booking(w) /\ handing[w] = NoHanding
    BY DEF Init, Booking, MonitorIdle, TrackerIdle, Workers
  <2>2. handing = [w \in Workers |-> handing[w]]
    BY DEF Init
  <2> QED
    BY <2>1, <2>2 DEF HandingGood
<1> QED
  BY <1>1, <1>3, <1>4, <1>5, <1>6, <1>7, <1>8 DEF IInv

\* Every step keeps the invariant.
LEMMA NextInv ==
  ASSUME IInv, [Next]_vars
  PROVE  IInv'
<1>1. ASSUME NEW a \in Addresses, NEW n \in Amounts, Recharge(a, n) PROVE IInv'
  BY <1>1, RechargeInv
<1>2. ASSUME NEW a \in Addresses, NEW n \in SetCounts, SetCount(a, n) PROVE IInv'
  BY <1>2, SetCountInv
<1>3. ASSUME NEW a \in Addresses,
             Suspend(a) \/ ResumeRead(a) \/ Transfer(a) \/ SpendElsewhere(a)
      PROVE IInv'
  BY <1>3, SuspendInv, ResumeReadInv, TransferInv, SpendElsewhereInv
<1>4. ASSUME NEW a \in Addresses, NEW t \in Trackers, Audit(t, a) PROVE IInv'
  BY <1>4, AuditInv
<1>5. CASE ResumeWrite \/ MinutesPass \/ HalfDayPasses \/ Restart
  BY <1>5, ResumeWriteInv, MinutesPassInv, HalfDayPassesInv, RestartInv
<1>6. CASE MonitorStart \/ MonitorStep
  BY <1>6, MonitorStartInv, MonitorCheckInv, MonitorReclaimInv, MonitorFineInv, MonitorFetchInv,
     MonitorDelegateInv, MonitorCountInv, MonitorStampInv, MonitorWriteInv, MonitorReadInv,
     MonitorBookInv DEF MonitorStep
<1>7. CASE FinalStart \/ FinalStep
  BY <1>7, FinalStartInv, FinalMarkInv, FinalReclaimInv DEF FinalStep
<1>8. ASSUME NEW t \in Trackers, TrackerStart(t) \/ TrackerStep(t) PROVE IInv'
  BY <1>8, TrackerStartInv, TrackerFetchInv, TrackerChargeInv, TrackerReadInv, TrackerBookInv,
     TrackerStampInv DEF TrackerStep
<1>9. CASE UNCHANGED vars
  BY <1>9 DEF vars, rows, chain, IInv, RowsGood, RowGood, AgesGood, Entitled, TrackersGood, TrackerGood,
     MonitorGood, FineGood, FinalGood, ResumeGood, DeliveriesGood, DeliveredWithinTotal, HandingGood,
     CopyGood, Booking, CurOf, WorldGood
<1> QED
  BY <1>1, <1>2, <1>3, <1>4, <1>5, <1>6, <1>7, <1>8, <1>9 DEF Next

\* Every variable keeps its type, in every run of the actors.
THEOREM TypeCorrect == Spec => []TypeOK
<1>1. IInv => TypeOK
  <2> SUFFICES ASSUME IInv PROVE TypeOK
    OBVIOUS
  <2>1. row \in [Addresses -> Row]
    BY DEF IInv, RowsGood, RowGood
  <2>2. tracker \in [Trackers -> TrackerRun]
    BY DEF IInv, TrackersGood, TrackerGood
  <2>3. monitor \in MonitorRun
    BY DEF IInv, MonitorGood
  <2>4. deliveries \in [Addresses -> Seq(Delivery)]
    BY DEF IInv, DeliveriesGood
  <2> QED
    BY <2>1, <2>2, <2>3, <2>4 DEF IInv, FinalGood, ResumeGood, WorldGood, TypeOK
<1> QED
  BY <1>1, InitInv, NextInv, PTL DEF Spec

\* However the runs overlap and whatever fails, no worker's stale count leaves
\* an address more transactions than were bought or written for it.
THEOREM CountsBounded == Spec => []NeverMoreThanBought
<1>1. IInv => NeverMoreThanBought
  BY DEF IInv, RowsGood, RowGood, Entitled, NeverMoreThanBought
<1> QED
  BY <1>1, InitInv, NextInv, PTL DEF Spec

\* However the bookings of several workers interleave, none exceeds a purchase.
THEOREM DeliveriesBounded == Spec => []DeliveredWithinTotal
<1>1. IInv => DeliveredWithinTotal
  BY DEF IInv, DeliveriesGood
<1> QED
  BY <1>1, InitInv, NextInv, PTL DEF Spec

\* No restart, failure or overlap makes the monitor fine a day twice.
THEOREM FinesBounded == Spec => []FinePerDay
<1>1. IInv => FinePerDay
  <2> SUFFICES ASSUME IInv, NEW a \in Addresses PROVE row[a].penalties * Day <= halfDays
    BY DEF FinePerDay
  <2>1. RowGood(row[a], a) /\ row[a] \in Row /\ halfDays \in Nat
    BY DEF IInv, RowsGood, RowGood, WorldGood
  <2>2. row[a].penalties \in Nat /\ row[a].penaltyAge \in Ages
    BY <2>1 DEF Row
  <2> QED
    BY <2>1, <2>2 DEF RowGood, AgesGood, Ages, Never, Day
<1> QED
  BY <1>1, InitInv, NextInv, PTL DEF Spec
=============================================================================
