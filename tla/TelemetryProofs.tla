--------------------------- MODULE TelemetryProofs ---------------------------
(***************************************************************************)
(* For any readings, any number of messages and any bounds: what is known  *)
(* about a device is what its log says as a whole, every run fires, and    *)
(* nothing handled is lost.                                                *)
(*                                                                         *)
(* First what one more entry does to each reading of a log, as lemmas      *)
(* about any log and any entry; then what apply() does to each field of    *)
(* the state; the two agree (Reflects), so each step of the integration    *)
(* keeps the state in memory and the one on disk true to their logs.       *)
(***************************************************************************)
EXTENDS Telemetry, FiniteSetTheorems, TLAPS

Entry == [message : Nat, day : Nat, says : BbsReading]

LEMMA ReadingFields ==
    ASSUME NEW r \in BbsReading
    PROVE  /\ r.ac_power \in {"absent", "on", "off"}
           /\ r.motor_fail \in {"absent", "fault", "ok"}
           /\ r.pump_run \in {"absent", "primary", "backup"}
           /\ r.draws \in BOOLEAN
BY DEF BbsReading, Pumps

(* Of the entries a log already has, one more changes nothing.             *)
LEMMA Appended ==
    ASSUME NEW L \in Seq(Entry), NEW e \in Entry
    PROVE  /\ Append(L, e) \in Seq(Entry)
           /\ Len(L) \in Nat
           /\ Len(Append(L, e)) = Len(L) + 1
           /\ Append(L, e)[Len(L) + 1] = e
           /\ \A i \in 1 .. Len(L) : Append(L, e)[i] = L[i] /\ L[i] \in Entry
OBVIOUS

LEMMA FaultBefore ==
    ASSUME NEW L \in Seq(Entry), NEW e \in Entry,
           NEW i \in 0 .. Len(L), NEW k \in 0 .. Len(L)
    PROVE  FaultStands(Append(L, e), i, k) <=> FaultStands(L, i, k)
<1>1. \A j \in 1 .. i : j \in 1 .. Len(L) /\ \A n \in j .. k : n \in 1 .. Len(L)
  BY Appended
<1> QED
  BY <1>1, Appended DEF FaultStands, Clears, Says

LEMMA MainsBefore ==
    ASSUME NEW L \in Seq(Entry), NEW e \in Entry, NEW i \in 0 .. Len(L)
    PROVE  MainsGone(Append(L, e), i) <=> MainsGone(L, i)
<1>1. \A j \in 1 .. i : /\ j \in 1 .. Len(L)
                        /\ \A n \in (j + 1) .. i : n \in 1 .. Len(L)
  BY Appended
<1> QED
  BY <1>1, Appended DEF MainsGone, Says

LEMMA TestBefore ==
    ASSUME NEW L \in Seq(Entry), NEW e \in Entry, NEW i \in 1 .. Len(L)
    PROVE  RoutineTest(Append(L, e), i) <=> RoutineTest(L, i)
<1>1. i \in 0 .. Len(L) /\ i - 1 \in 0 .. Len(L)
  BY Appended
<1>2. Says(Append(L, e), i) = Says(L, i)
  BY Appended DEF Says
<1> QED
  BY <1>1, <1>2, FaultBefore, MainsBefore DEF RoutineTest

(* What the last entry adds.                                               *)
LEMMA FaultHere ==
    ASSUME NEW L \in Seq(Entry), NEW e \in Entry
    PROVE  FaultStands(Append(L, e), Len(L) + 1, Len(L))
             <=> e.says.motor_fail = "fault" \/ FaultStands(L, Len(L), Len(L))
<1> DEFINE n == Len(L)
           M == Append(L, e)
<1>0. n \in Nat /\ n \in 0 .. n /\ Says(M, n + 1) = e.says
  BY Appended DEF Says
<1>1. FaultStands(M, n, n) <=> FaultStands(L, n, n)
  BY <1>0, FaultBefore
<1>2. \A j : j \in 1 .. (n + 1) <=> j \in 1 .. n \/ j = n + 1
  BY <1>0
<1>3. (n + 1) .. n = {}
  BY <1>0
<1> HIDE DEF M, n
<1>4. FaultStands(M, n + 1, n) <=> e.says.motor_fail = "fault" \/ FaultStands(M, n, n)
  BY <1>0, <1>2, <1>3 DEF FaultStands
<1> QED
  BY <1>1, <1>4 DEF M, n

LEMMA FaultAfter ==
    ASSUME NEW L \in Seq(Entry), NEW e \in Entry
    PROVE  FaultStands(Append(L, e), Len(L) + 1, Len(L) + 1)
             <=> /\ ~Clears(Append(L, e), Len(L) + 1)
                 /\ e.says.motor_fail = "fault" \/ FaultStands(L, Len(L), Len(L))
<1> DEFINE n == Len(L)
           M == Append(L, e)
<1>0. n \in Nat
  BY Appended
<1>1. \A j \in 1 .. (n + 1) : \A i : i \in j .. (n + 1) <=> i \in j .. n \/ i = n + 1
  BY <1>0
<1> HIDE DEF M, n
<1>2. FaultStands(M, n + 1, n + 1) <=> ~Clears(M, n + 1) /\ FaultStands(M, n + 1, n)
  BY <1>1 DEF FaultStands
<1> QED
  BY <1>2, FaultHere DEF M, n

LEMMA MainsAfter ==
    ASSUME NEW L \in Seq(Entry), NEW e \in Entry
    PROVE  MainsGone(Append(L, e), Len(L) + 1)
             <=> \/ e.says.ac_power = "off"
                 \/ e.says.ac_power = "absent" /\ MainsGone(L, Len(L))
<1> DEFINE n == Len(L)
           M == Append(L, e)
<1>0. n \in Nat /\ n \in 0 .. n /\ Says(M, n + 1) = e.says
  BY Appended DEF Says
<1>1. MainsGone(M, n) <=> MainsGone(L, n)
  BY <1>0, MainsBefore
<1>2. \A j : j \in 1 .. (n + 1) <=> j \in 1 .. n \/ j = n + 1
  BY <1>0
<1>3. \A j \in 1 .. n : \A i : i \in (j + 1) .. (n + 1) <=> i \in (j + 1) .. n \/ i = n + 1
  BY <1>0
<1>4. ((n + 1) + 1) .. (n + 1) = {}
  BY <1>0
<1> HIDE DEF M, n
<1>5. MainsGone(M, n + 1) <=> \/ e.says.ac_power = "off"
                              \/ e.says.ac_power = "absent" /\ MainsGone(M, n)
  BY <1>0, <1>2, <1>3, <1>4 DEF MainsGone
<1> QED
  BY <1>1, <1>5 DEF M, n

-----------------------------------------------------------------------------
(* A device's state on day t.                                              *)
States(t) ==
    [ac_power : {"unknown", "on", "off"},
     motor_fail : {"unknown", "fault", "ok"},
     last_run : {NoRun} \cup Messages,
     last_self_test : {NoRun} \cup Messages,
     unfired_run : {NoRun} \cup Messages,
     runs_today : [Pumps -> Nat],
     runs_total : [Pumps -> Nat],
     totals_date : {NoDate} \cup 1 .. t]

(* Whether apply() files a reading as a self-test, and which pump it       *)
(* counts a run for otherwise.                                             *)
Tests(d, r) == is_self_test(Merged(d, r), r)
Counts(d, r, p) == r.pump_run = p /\ ~Tests(d, r)

LEMMA MergedFields ==
    ASSUME NEW t \in Nat, NEW d \in States(t), NEW r \in BbsReading
    PROVE  LET m == Merged(d, r) IN
           /\ m \in States(t)
           /\ m.ac_power = IF r.ac_power = "absent" THEN d.ac_power ELSE r.ac_power
           /\ m.motor_fail = IF r.motor_fail = "absent" THEN d.motor_fail ELSE r.motor_fail
           /\ m.last_self_test = d.last_self_test
           /\ m.unfired_run = d.unfired_run
           /\ m.runs_today = d.runs_today
           /\ m.runs_total = d.runs_total
           /\ m.totals_date = d.totals_date
BY ReadingFields DEF Merged, States

LEMMA CountFields ==
    ASSUME NEW t \in Nat \ {0}, NEW d \in States(t), NEW r \in BbsReading,
           r.pump_run \in Pumps
    PROVE  LET c == count_run(d, r, t) IN
           /\ c \in States(t)
           /\ c.ac_power = d.ac_power
           /\ c.motor_fail = d.motor_fail
           /\ c.last_self_test = d.last_self_test
           /\ c.unfired_run = d.unfired_run
           /\ \A p \in Pumps :
                /\ c.runs_total[p] = d.runs_total[p] + (IF r.pump_run = p THEN 1 ELSE 0)
                /\ c.runs_today[p] = (IF d.totals_date = t THEN d.runs_today[p] ELSE 0)
                                       + (IF r.pump_run = p THEN 1 ELSE 0)
           /\ c.totals_date = t
<1> DEFINE before == IF d.totals_date = t THEN d.runs_today ELSE [p \in Pumps |-> 0]
           today2 == [before EXCEPT ![r.pump_run] = @ + 1]
           total2 == [d.runs_total EXCEPT ![r.pump_run] = @ + 1]
<1>1. before \in [Pumps -> Nat] /\ d.runs_total \in [Pumps -> Nat]
  BY DEF States
<1>2. today2 \in [Pumps -> Nat] /\ total2 \in [Pumps -> Nat]
  BY <1>1
<1>3. \A p \in Pumps :
        /\ total2[p] = d.runs_total[p] + (IF r.pump_run = p THEN 1 ELSE 0)
        /\ today2[p] = before[p] + (IF r.pump_run = p THEN 1 ELSE 0)
  BY <1>1
<1>4. \A p \in Pumps : before[p] = IF d.totals_date = t THEN d.runs_today[p] ELSE 0
  OBVIOUS
<1>5. count_run(d, r, t) = [d EXCEPT !.totals_date = t, !.runs_today = today2,
                                     !.runs_total = total2]
  BY DEF count_run, States
<1> HIDE DEF before, today2, total2
<1>6. count_run(d, r, t) = [ac_power |-> d.ac_power, motor_fail |-> d.motor_fail,
                            last_run |-> d.last_run, last_self_test |-> d.last_self_test,
                            unfired_run |-> d.unfired_run, runs_today |-> today2,
                            runs_total |-> total2, totals_date |-> t]
  BY <1>5 DEF States
<1>7. t \in 1 .. t
  OBVIOUS
<1>8. count_run(d, r, t) \in States(t)
  BY <1>2, <1>6, <1>7 DEF States
<1> QED
  BY <1>3, <1>4, <1>6, <1>8

(* Every field that matters after a reading, whichever way apply() went.   *)
LEMMA ApplyFields ==
    ASSUME NEW t \in Nat \ {0}, NEW d \in States(t), NEW r \in BbsReading,
           NEW n \in Messages
    PROVE  LET a == apply(d, n, r, t)
               m == Merged(d, r) IN
           /\ a \in States(t)
           /\ a.ac_power = m.ac_power
           /\ a.motor_fail = IF is_healthy_primary_run(r) THEN "ok" ELSE m.motor_fail
           /\ a.last_self_test = IF Tests(d, r) THEN n ELSE d.last_self_test
           /\ a.unfired_run = d.unfired_run
           /\ \A p \in Pumps :
                a.runs_total[p] = d.runs_total[p] + (IF Counts(d, r, p) THEN 1 ELSE 0)
           /\ IF \E p \in Pumps : Counts(d, r, p)
              THEN /\ a.totals_date = t
                   /\ \A p \in Pumps :
                        a.runs_today[p] = (IF d.totals_date = t THEN d.runs_today[p] ELSE 0)
                                            + (IF Counts(d, r, p) THEN 1 ELSE 0)
              ELSE a.totals_date = d.totals_date /\ a.runs_today = d.runs_today
<1> DEFINE m     == Merged(d, r)
           ran   == [m EXCEPT !.last_run = n]
           filed == IF is_self_test(m, r) THEN [ran EXCEPT !.last_self_test = n]
                                          ELSE count_run(ran, r, t)
<1>1. /\ m \in States(t) /\ m.last_self_test = d.last_self_test
      /\ m.unfired_run = d.unfired_run
      /\ m.runs_today = d.runs_today /\ m.runs_total = d.runs_total
      /\ m.totals_date = d.totals_date
  BY MergedFields
<1> HIDE DEF m
<1>2. /\ ran \in States(t)
      /\ ran.ac_power = m.ac_power /\ ran.motor_fail = m.motor_fail
      /\ ran.last_self_test = m.last_self_test /\ ran.unfired_run = m.unfired_run
      /\ ran.runs_today = m.runs_today /\ ran.runs_total = m.runs_total
      /\ ran.totals_date = m.totals_date
  BY <1>1 DEF States
<1> HIDE DEF ran
<1>3. apply(d, n, r, t) = CASE r.pump_run = "absent" -> m
                            [] is_healthy_primary_run(r) -> [filed EXCEPT !.motor_fail = "ok"]
                            [] OTHER -> filed
  BY DEF apply, m, ran, filed
<1>4. r.pump_run \in {"absent"} \cup Pumps
  BY DEF BbsReading
<1>5. "absent" \notin Pumps
  BY DEF Pumps
<1>6. CASE r.pump_run = "absent"
  <2>1. ~Tests(d, r) /\ ~is_healthy_primary_run(r) /\ \A p \in Pumps : ~Counts(d, r, p)
    BY <1>5, <1>6 DEF Tests, Counts, is_self_test, is_healthy_primary_run
  <2>2. d.runs_total \in [Pumps -> Nat]
    BY DEF States
  <2> QED
    BY <1>1, <1>3, <1>6, <2>1, <2>2 DEF m
<1>7. CASE r.pump_run # "absent"
  <2>1. r.pump_run \in Pumps
    BY <1>4, <1>7
  <2>2. /\ filed \in States(t)
        /\ filed.ac_power = m.ac_power /\ filed.motor_fail = m.motor_fail
        /\ filed.last_self_test = IF Tests(d, r) THEN n ELSE d.last_self_test
        /\ filed.unfired_run = d.unfired_run
        /\ \A p \in Pumps :
             filed.runs_total[p] = d.runs_total[p] + (IF Counts(d, r, p) THEN 1 ELSE 0)
        /\ IF \E p \in Pumps : Counts(d, r, p)
           THEN /\ filed.totals_date = t
                /\ \A p \in Pumps :
                     filed.runs_today[p] = (IF d.totals_date = t THEN d.runs_today[p] ELSE 0)
                                             + (IF Counts(d, r, p) THEN 1 ELSE 0)
           ELSE filed.totals_date = d.totals_date /\ filed.runs_today = d.runs_today
    <3>1. CASE Tests(d, r)
      <4>1. filed = [ran EXCEPT !.last_self_test = n]
        BY <3>1 DEF Tests, m
      <4>2. \A p \in Pumps : ~Counts(d, r, p)
        BY <3>1 DEF Counts
      <4>3. d.runs_total \in [Pumps -> Nat]
        BY DEF States
      <4> QED
        BY <1>1, <1>2, <3>1, <4>1, <4>2, <4>3 DEF States
    <3>2. CASE ~Tests(d, r)
      <4>1. filed = count_run(ran, r, t)
        BY <3>2 DEF Tests, m
      <4>2. \A p \in Pumps : Counts(d, r, p) <=> r.pump_run = p
        BY <3>2 DEF Counts
      <4>3. \E p \in Pumps : Counts(d, r, p)
        BY <2>1, <4>2
      <4> HIDE DEF filed
      <4> QED
        BY <1>1, <1>2, <2>1, <3>2, <4>1, <4>2, <4>3, CountFields
    <3> QED
      BY <3>1, <3>2
  <2> HIDE DEF filed
  <2>3. CASE is_healthy_primary_run(r)
    <3>1. apply(d, n, r, t) = [filed EXCEPT !.motor_fail = "ok"]
      BY <1>3, <1>7, <2>3
    <3> QED
      BY <2>2, <2>3, <3>1 DEF States, m
  <2>4. CASE ~is_healthy_primary_run(r)
    <3>1. apply(d, n, r, t) = filed
      BY <1>3, <1>7, <2>4
    <3> QED
      BY <2>2, <2>4, <3>1 DEF m
  <2> QED
    BY <2>3, <2>4
<1> QED
  BY <1>6, <1>7

-----------------------------------------------------------------------------
(* The state says what its log says.                                       *)
FaultIs(d, L) == d.motor_fail = "fault" <=> FaultStands(L, Len(L), Len(L))

MainsAre(d, L) == d.ac_power = "off" <=> MainsGone(L, Len(L))

TestIs(d, L) ==
    IF \E i \in 1 .. Len(L) : RoutineTest(L, i)
    THEN \E i \in 1 .. Len(L) :
            /\ RoutineTest(L, i)
            /\ \A j \in (i + 1) .. Len(L) : ~RoutineTest(L, j)
            /\ d.last_self_test = L[i].message
    ELSE d.last_self_test = NoRun

TotalsAre(d, L) ==
    \A p \in Pumps : d.runs_total[p] = Cardinality(Counted(L, p))

(* The day of the daily figures is the latest that a run was counted on.   *)
CountedOn(L, p, day) == {i \in Counted(L, p) : L[i].day = day}

TodayIs(d, L) ==
    /\ \A i \in AllCounted(L) : L[i].day <= d.totals_date
    /\ d.totals_date # NoDate => \E i \in AllCounted(L) : L[i].day = d.totals_date
    /\ \A p \in Pumps : d.runs_today[p] = Cardinality(CountedOn(L, p, d.totals_date))

Reflects(d, L) ==
    /\ FaultIs(d, L)
    /\ MainsAre(d, L)
    /\ TestIs(d, L)
    /\ TotalsAre(d, L)
    /\ TodayIs(d, L)

LEMMA CountedFinite ==
    ASSUME NEW L \in Seq(Entry), NEW p
    PROVE  /\ Counted(L, p) \subseteq 1 .. Len(L)
           /\ IsFiniteSet(Counted(L, p))
           /\ Cardinality(Counted(L, p)) \in Nat
           /\ \A day : /\ IsFiniteSet(CountedOn(L, p, day))
                       /\ Cardinality(CountedOn(L, p, day)) \in Nat
<1>1. Len(L) \in Nat /\ IsFiniteSet(1 .. Len(L))
  BY FS_Interval
<1>2. Counted(L, p) \subseteq 1 .. Len(L)
  BY DEF Counted
<1>3. IsFiniteSet(Counted(L, p))
  BY <1>1, <1>2, FS_Subset
<1>4. \A day : IsFiniteSet(CountedOn(L, p, day))
  BY <1>3, FS_Subset DEF CountedOn
<1> QED
  BY <1>2, <1>3, <1>4, FS_CardinalityType

LEMMA CountedAfter ==
    ASSUME NEW L \in Seq(Entry), NEW e \in Entry, NEW p
    PROVE  Counted(Append(L, e), p) =
             Counted(L, p) \cup
               (IF e.says.pump_run = p /\ ~RoutineTest(Append(L, e), Len(L) + 1)
                THEN {Len(L) + 1} ELSE {})
<1> DEFINE n == Len(L)
           M == Append(L, e)
<1>1. n \in Nat /\ Len(M) = n + 1 /\ Says(M, n + 1) = e.says
  BY Appended DEF Says
<1>2. \A i \in 1 .. n : Says(M, i) = Says(L, i) /\ (RoutineTest(M, i) <=> RoutineTest(L, i))
  BY Appended, TestBefore DEF Says
<1>3. \A i : i \in 1 .. (n + 1) <=> i \in 1 .. n \/ i = n + 1
  BY <1>1
<1> HIDE DEF M, n
<1>4. Counted(M, p) = Counted(L, p) \cup
               (IF e.says.pump_run = p /\ ~RoutineTest(M, n + 1) THEN {n + 1} ELSE {})
  BY <1>1, <1>2, <1>3 DEF Counted, n
<1> QED
  BY <1>4 DEF M, n

(* The rule apply() files a run by is the log's.                           *)
LEMMA TestAgrees ==
    ASSUME NEW t \in Nat, NEW d \in States(t), NEW L \in Seq(Entry), NEW e \in Entry,
           FaultIs(d, L), MainsAre(d, L)
    PROVE  RoutineTest(Append(L, e), Len(L) + 1) <=> Tests(d, e.says)
<1> DEFINE n == Len(L)
           M == Append(L, e)
           r == e.says
<1>1. n \in Nat /\ (n + 1) - 1 = n /\ Says(M, n + 1) = r /\ r \in BbsReading
  BY Appended DEF Says, Entry
<1>2. /\ r.motor_fail \in {"absent", "fault", "ok"}
      /\ r.ac_power \in {"absent", "on", "off"}
  BY <1>1, ReadingFields
<1>3. FaultStands(M, n + 1, n) <=> r.motor_fail = "fault" \/ d.motor_fail = "fault"
  BY FaultHere DEF FaultIs
<1>4. MainsGone(M, n + 1) <=> \/ r.ac_power = "off"
                              \/ r.ac_power = "absent" /\ d.ac_power = "off"
  BY MainsAfter DEF MainsAre
<1>5. /\ Merged(d, r).ac_power = IF r.ac_power = "absent" THEN d.ac_power ELSE r.ac_power
      /\ Merged(d, r).motor_fail = IF r.motor_fail = "absent" THEN d.motor_fail
                                                             ELSE r.motor_fail
  BY <1>1, MergedFields
<1>6. (r.motor_fail = "ok" \/ ~FaultStands(M, n + 1, n)) <=> Merged(d, r).motor_fail # "fault"
  BY <1>2, <1>3, <1>5
<1>7. ~MainsGone(M, n + 1) <=> Merged(d, r).ac_power # "off"
  BY <1>2, <1>4, <1>5
<1> HIDE DEF M, n, r
<1>8. RoutineTest(M, n + 1) <=> Tests(d, r)
  BY <1>1, <1>6, <1>7 DEF RoutineTest, Tests, is_self_test
<1> QED
  BY <1>8 DEF M, n, r

LEMMA TestKept ==
    ASSUME NEW d, NEW a, NEW L \in Seq(Entry), NEW e \in Entry, TestIs(d, L),
           IF RoutineTest(Append(L, e), Len(L) + 1)
           THEN a.last_self_test = e.message
           ELSE a.last_self_test = d.last_self_test
    PROVE  TestIs(a, Append(L, e))
<1> DEFINE n == Len(L)
           M == Append(L, e)
<1>1. n \in Nat /\ Len(M) = n + 1 /\ M[n + 1] = e
  BY Appended
<1>2. \A i \in 1 .. n : M[i] = L[i] /\ (RoutineTest(M, i) <=> RoutineTest(L, i))
  BY Appended, TestBefore
<1>3. \A i : i \in 1 .. (n + 1) <=> i \in 1 .. n \/ i = n + 1
  BY <1>1
<1>4. \A i \in 1 .. n : \A j : j \in (i + 1) .. (n + 1) <=> j \in (i + 1) .. n \/ j = n + 1
  BY <1>1
<1>5. \A i \in 1 .. n : \A j \in (i + 1) .. n : j \in 1 .. n
  BY <1>1
<1>6. ((n + 1) + 1) .. (n + 1) = {}
  BY <1>1
<1> HIDE DEF M
<1>7. CASE RoutineTest(M, n + 1)
  BY <1>1, <1>3, <1>6, <1>7 DEF TestIs, M
<1>8. CASE ~RoutineTest(M, n + 1)
  BY <1>1, <1>2, <1>3, <1>4, <1>5, <1>8 DEF TestIs, M
<1> QED
  BY <1>7, <1>8 DEF M

(* One entry adds at most itself to what is counted.                       *)
LEMMA TotalsKept ==
    ASSUME NEW d, NEW a, NEW L \in Seq(Entry), NEW e \in Entry, TotalsAre(d, L),
           \A p \in Pumps :
             a.runs_total[p] = d.runs_total[p] +
               (IF e.says.pump_run = p /\ ~RoutineTest(Append(L, e), Len(L) + 1)
                THEN 1 ELSE 0)
    PROVE  TotalsAre(a, Append(L, e))
<1> SUFFICES ASSUME NEW p \in Pumps
             PROVE  a.runs_total[p] = Cardinality(Counted(Append(L, e), p))
  BY DEF TotalsAre
<1>1. /\ IsFiniteSet(Counted(L, p)) /\ Cardinality(Counted(L, p)) \in Nat
      /\ Len(L) + 1 \notin Counted(L, p)
  BY CountedFinite, Appended
<1>2. d.runs_total[p] = Cardinality(Counted(L, p))
  BY DEF TotalsAre
<1>3. CASE e.says.pump_run = p /\ ~RoutineTest(Append(L, e), Len(L) + 1)
  <2>1. Counted(Append(L, e), p) = Counted(L, p) \cup {Len(L) + 1}
    BY <1>3, CountedAfter
  <2>2. Cardinality(Counted(Append(L, e), p)) = Cardinality(Counted(L, p)) + 1
    BY <1>1, <2>1, FS_AddElement
  <2> QED
    BY <1>2, <1>3, <2>2
<1>4. CASE ~(e.says.pump_run = p /\ ~RoutineTest(Append(L, e), Len(L) + 1))
  <2>1. Counted(Append(L, e), p) = Counted(L, p)
    BY <1>4, CountedAfter
  <2> QED
    BY <1>1, <1>2, <1>4, <2>1
<1> QED
  BY <1>3, <1>4

LEMMA CountedOnAfter ==
    ASSUME NEW L \in Seq(Entry), NEW e \in Entry, NEW p, NEW day
    PROVE  CountedOn(Append(L, e), p, day) =
             CountedOn(L, p, day) \cup
               (IF /\ e.says.pump_run = p /\ ~RoutineTest(Append(L, e), Len(L) + 1)
                   /\ e.day = day
                THEN {Len(L) + 1} ELSE {})
<1> DEFINE n == Len(L)
           M == Append(L, e)
<1>1. /\ n \in Nat /\ M[n + 1] = e
      /\ \A i \in 1 .. n : M[i] = L[i]
  BY Appended
<1>2. Counted(L, p) \subseteq 1 .. n
  BY CountedFinite
<1>3. Counted(M, p) = Counted(L, p) \cup
               (IF e.says.pump_run = p /\ ~RoutineTest(M, n + 1) THEN {n + 1} ELSE {})
  BY CountedAfter
<1> HIDE DEF M, n
<1> QED
  BY <1>1, <1>2, <1>3 DEF CountedOn, M, n

(* Nothing is counted: the daily figures stay.                             *)
LEMMA TodayStays ==
    ASSUME NEW d, NEW a, NEW L \in Seq(Entry), NEW e \in Entry, TodayIs(d, L),
           \A p \in Pumps : ~(e.says.pump_run = p /\ ~RoutineTest(Append(L, e), Len(L) + 1)),
           a.totals_date = d.totals_date, a.runs_today = d.runs_today
    PROVE  TodayIs(a, Append(L, e))
<1>1. \A p \in Pumps : Counted(Append(L, e), p) = Counted(L, p)
  BY CountedAfter
<1>2. AllCounted(Append(L, e)) = AllCounted(L) /\ AllCounted(L) \subseteq 1 .. Len(L)
  BY <1>1, CountedFinite DEF AllCounted, Pumps
<1>3. ASSUME NEW p \in Pumps
      PROVE  CountedOn(Append(L, e), p, d.totals_date) = CountedOn(L, p, d.totals_date)
  <2>1. ~(e.says.pump_run = p /\ ~RoutineTest(Append(L, e), Len(L) + 1))
    OBVIOUS
  <2> DEFINE new == IF /\ e.says.pump_run = p /\ ~RoutineTest(Append(L, e), Len(L) + 1)
                       /\ e.day = d.totals_date
                    THEN {Len(L) + 1} ELSE {}
  <2>2. CountedOn(Append(L, e), p, d.totals_date) = CountedOn(L, p, d.totals_date) \cup new
    BY CountedOnAfter
  <2>3. new = {}
    BY <2>1
  <2> QED
    BY <2>2, <2>3
<1>4. \A i \in AllCounted(L) : Append(L, e)[i] = L[i]
  BY <1>2, Appended
<1> QED
  BY <1>2, <1>3, <1>4 DEF TodayIs

(* A run is counted: on the same day it is one more, on a later day the    *)
(* first.                                                                  *)
LEMMA TodayCounts ==
    ASSUME NEW d, NEW a, NEW L \in Seq(Entry), NEW e \in Entry, TodayIs(d, L),
           d.totals_date \in Nat, d.totals_date <= e.day,
           NEW p0 \in Pumps, e.says.pump_run = p0,
           ~RoutineTest(Append(L, e), Len(L) + 1),
           a.totals_date = e.day,
           \A p \in Pumps :
             a.runs_today[p] = (IF d.totals_date = e.day THEN d.runs_today[p] ELSE 0)
                                 + (IF p = p0 THEN 1 ELSE 0)
    PROVE  TodayIs(a, Append(L, e))
<1> DEFINE n == Len(L)
           M == Append(L, e)
           t == e.day
<1>1. /\ n \in Nat /\ M[n + 1] = e /\ M \in Seq(Entry)
      /\ \A i \in 1 .. n : M[i] = L[i] /\ L[i] \in Entry
      /\ t \in Nat
  BY Appended DEF Entry
<1>2. \A p \in Pumps : Counted(M, p) = Counted(L, p) \cup (IF p = p0 THEN {n + 1} ELSE {})
  BY CountedAfter
<1>3. \A p \in Pumps : Counted(L, p) \subseteq 1 .. n
  BY CountedFinite
<1>4. AllCounted(M) = AllCounted(L) \cup {n + 1} /\ AllCounted(L) \subseteq 1 .. n
  BY <1>2, <1>3 DEF AllCounted, Pumps
<1>5. \A i \in AllCounted(M) : M[i].day <= t
  <2>1. \A i \in AllCounted(L) : L[i].day \in Nat /\ L[i].day <= d.totals_date
    BY <1>1, <1>4 DEF TodayIs, Entry
  <2>2. \A i \in AllCounted(L) : L[i].day <= t
    BY <1>1, <2>1
  <2> QED
    BY <1>1, <1>4, <2>2
<1>6. \E i \in AllCounted(M) : M[i].day = t
  BY <1>1, <1>4
<1>7. ASSUME NEW p \in Pumps PROVE a.runs_today[p] = Cardinality(CountedOn(M, p, t))
  <2>1. CountedOn(M, p, t) = CountedOn(L, p, t) \cup (IF p = p0 THEN {n + 1} ELSE {})
    BY CountedOnAfter
  <2>2. /\ IsFiniteSet(CountedOn(L, p, t)) /\ Cardinality(CountedOn(L, p, t)) \in Nat
        /\ n + 1 \notin CountedOn(L, p, t)
    <3>1. n + 1 \notin Counted(L, p)
      BY <1>1, <1>3
    <3>2. n + 1 \notin CountedOn(L, p, t)
      BY <3>1 DEF CountedOn
    <3> QED
      BY <3>2, CountedFinite
  <2>3. Cardinality(CountedOn(M, p, t)) = Cardinality(CountedOn(L, p, t))
                                            + (IF p = p0 THEN 1 ELSE 0)
    <3>1. CASE p = p0
      <4>1. CountedOn(M, p, t) = CountedOn(L, p, t) \cup {n + 1}
        BY <2>1, <3>1
      <4>2. Cardinality(CountedOn(L, p, t) \cup {n + 1}) = Cardinality(CountedOn(L, p, t)) + 1
        BY <2>2, FS_AddElement
      <4> QED
        BY <3>1, <4>1, <4>2
    <3>2. CASE p # p0
      <4>1. CountedOn(M, p, t) = CountedOn(L, p, t)
        BY <2>1, <3>2
      <4> QED
        BY <2>2, <3>2, <4>1
    <3> QED
      BY <3>1, <3>2
  <2>4. CASE d.totals_date = t
    BY <2>3, <2>4 DEF TodayIs
  <2>5. CASE d.totals_date # t
    <3>1. d.totals_date < t
      BY <1>1, <2>5
    <3>2. \A i \in Counted(L, p) : L[i].day \in Nat /\ L[i].day <= d.totals_date
      BY <1>1, <1>3 DEF TodayIs, AllCounted, Pumps, Entry
    <3>3. \A i \in Counted(L, p) : L[i].day # t
      BY <1>1, <3>1, <3>2
    <3>4. CountedOn(L, p, t) = {}
      BY <3>3 DEF CountedOn
    <3>5. Cardinality(CountedOn(L, p, t)) = 0
      BY <3>4, FS_EmptySet
    <3> QED
      BY <2>3, <2>5, <3>5
  <2> QED
    BY <2>4, <2>5
<1> HIDE DEF M
<1> QED
  BY <1>5, <1>6, <1>7 DEF TodayIs, M

LEMMA ReadingReflected ==
    ASSUME NEW t \in Nat \ {0}, NEW d \in States(t), NEW r \in BbsReading,
           NEW m \in Messages, NEW L \in Seq(Entry), Reflects(d, L)
    PROVE  Reflects(apply(d, m, r, t), Append(L, [message |-> m, day |-> t, says |-> r]))
<1> DEFINE e == [message |-> m, day |-> t, says |-> r]
           a == apply(d, m, r, t)
           M == Append(L, e)
           tests == RoutineTest(M, Len(L) + 1)
<1>1. e \in Entry /\ e.says = r /\ e.message = m /\ e.day = t /\ m # Cleared
  BY BoundsAssumption DEF Entry, Messages, Cleared, NoRun
<1> HIDE DEF e
<1>2. /\ FaultIs(d, L) /\ MainsAre(d, L) /\ TestIs(d, L)
      /\ TotalsAre(d, L) /\ TodayIs(d, L)
  BY DEF Reflects
<1>3. tests <=> Tests(d, r)
  BY <1>1, <1>2, TestAgrees
<1>4. \A p : Counts(d, r, p) <=> r.pump_run = p /\ ~tests
  BY <1>3 DEF Counts
<1>5. /\ a.ac_power = Merged(d, r).ac_power
      /\ a.motor_fail = IF is_healthy_primary_run(r) THEN "ok" ELSE Merged(d, r).motor_fail
      /\ a.last_self_test = IF Tests(d, r) THEN m ELSE d.last_self_test
      /\ \A p \in Pumps :
           a.runs_total[p] = d.runs_total[p] + (IF Counts(d, r, p) THEN 1 ELSE 0)
      /\ IF \E p \in Pumps : Counts(d, r, p)
         THEN /\ a.totals_date = t
              /\ \A p \in Pumps :
                   a.runs_today[p] = (IF d.totals_date = t THEN d.runs_today[p] ELSE 0)
                                       + (IF Counts(d, r, p) THEN 1 ELSE 0)
         ELSE a.totals_date = d.totals_date /\ a.runs_today = d.runs_today
  BY ApplyFields
<1>6. /\ Merged(d, r).ac_power = IF r.ac_power = "absent" THEN d.ac_power ELSE r.ac_power
      /\ Merged(d, r).motor_fail = IF r.motor_fail = "absent" THEN d.motor_fail
                                                             ELSE r.motor_fail
  BY MergedFields
<1>7. /\ r.ac_power \in {"absent", "on", "off"}
      /\ r.motor_fail \in {"absent", "fault", "ok"}
      /\ r.draws \in BOOLEAN
  BY ReadingFields
<1>8. Len(M) = Len(L) + 1 /\ M[Len(L) + 1] = e /\ Says(M, Len(L) + 1) = r
  BY <1>1, Appended DEF Says
<1> HIDE DEF a, M, tests
<1>9. FaultIs(a, M)
  <2>1. Clears(M, Len(L) + 1) <=> r.motor_fail = "ok" \/ is_healthy_primary_run(r)
    BY <1>1, <1>8 DEF Clears, is_healthy_primary_run
  <2>2. FaultStands(M, Len(M), Len(M))
          <=> /\ ~Clears(M, Len(L) + 1)
              /\ r.motor_fail = "fault" \/ d.motor_fail = "fault"
    BY <1>1, <1>2, <1>8, FaultAfter DEF FaultIs, M
  <2> QED
    BY <1>5, <1>6, <1>7, <2>1, <2>2 DEF FaultIs
<1>10. MainsAre(a, M)
  <2>1. MainsGone(M, Len(M)) <=> \/ r.ac_power = "off"
                                 \/ r.ac_power = "absent" /\ d.ac_power = "off"
    BY <1>1, <1>2, <1>8, MainsAfter DEF MainsAre, M
  <2> QED
    BY <1>5, <1>6, <1>7, <2>1 DEF MainsAre
<1>11. TestIs(a, M)
  BY <1>1, <1>2, <1>3, <1>5, TestKept DEF M, tests
<1>12. TotalsAre(a, M)
  BY <1>1, <1>2, <1>4, <1>5, TotalsKept DEF M, tests
<1>13. TodayIs(a, M)
  <2>1. CASE \E p \in Pumps : Counts(d, r, p)
    <3>1. PICK p0 \in Pumps : Counts(d, r, p0)
      BY <2>1
    <3>2. r.pump_run = p0 /\ ~tests /\ \A p \in Pumps : Counts(d, r, p) <=> p = p0
      BY <1>4, <3>1
    <3>3. d.totals_date \in Nat /\ d.totals_date <= t
      BY DEF States, NoDate
    <3> QED
      BY <1>1, <1>2, <1>5, <2>1, <3>2, <3>3, TodayCounts DEF M, tests
  <2>2. CASE ~ \E p \in Pumps : Counts(d, r, p)
    BY <1>1, <1>2, <1>4, <1>5, <2>2, TodayStays DEF M, tests
  <2> QED
    BY <2>1, <2>2
<1>14. Reflects(a, M)
  BY <1>9, <1>10, <1>11, <1>12, <1>13 DEF Reflects
<1> QED
  BY <1>14 DEF a, M, e

(* The clear button.                                                       *)
LEMMA ClearReflected ==
    ASSUME NEW t \in Nat, NEW d \in States(t), NEW L \in Seq(Entry), Reflects(d, L)
    PROVE  Reflects(clear_fault(d),
                    Append(L, [message |-> Cleared, day |-> t, says |-> Silence]))
<1> DEFINE e == [message |-> Cleared, day |-> t, says |-> Silence]
           a == clear_fault(d)
           M == Append(L, e)
<1>1. /\ e \in Entry /\ e.says = Silence /\ e.message = Cleared
      /\ Silence.ac_power = "absent" /\ Silence.motor_fail = "absent"
      /\ Silence.pump_run = "absent"
  BY DEF Entry, Cleared, NoRun, Silence, BbsReading
<1> HIDE DEF e
<1>2. /\ a.motor_fail = "ok" /\ a.ac_power = d.ac_power
      /\ a.last_self_test = d.last_self_test /\ a.runs_total = d.runs_total
      /\ a.runs_today = d.runs_today /\ a.totals_date = d.totals_date
  BY DEF clear_fault, States
<1>3. Len(M) = Len(L) + 1 /\ M[Len(L) + 1] = e /\ Says(M, Len(L) + 1) = Silence
  BY <1>1, Appended DEF Says
<1>4. \A p \in Pumps : Silence.pump_run # p
  BY <1>1 DEF Pumps
<1>5. d.runs_total \in [Pumps -> Nat]
  BY DEF States
<1> HIDE DEF a, M
<1>6. FaultIs(a, M)
  <2>1. Clears(M, Len(L) + 1)
    BY <1>1, <1>3 DEF Clears
  <2> QED
    BY <1>1, <1>2, <1>3, <2>1, FaultAfter DEF FaultIs, M
<1>7. MainsAre(a, M)
  BY <1>1, <1>2, <1>3, MainsAfter DEF MainsAre, Reflects, M
<1>8. TestIs(a, M)
  <2>1. ~RoutineTest(M, Len(L) + 1)
    BY <1>1, <1>3 DEF RoutineTest
  <2> QED
    BY <1>1, <1>2, <2>1, TestKept DEF Reflects, M
<1>9. TotalsAre(a, M)
  <2>1. \A p \in Pumps : a.runs_total[p] = d.runs_total[p] + 0
    BY <1>2, <1>5
  <2> QED
    BY <1>1, <1>4, <2>1, TotalsKept DEF Reflects, M
<1>10. TodayIs(a, M)
  BY <1>1, <1>2, <1>4, TodayStays DEF Reflects, M
<1>11. Reflects(a, M)
  BY <1>6, <1>7, <1>8, <1>9, <1>10 DEF Reflects
<1> QED
  BY <1>11 DEF a, M, e

LEMMA SameReflected ==
    ASSUME NEW d, NEW a, NEW L, Reflects(d, L),
           a.motor_fail = d.motor_fail, a.ac_power = d.ac_power,
           a.last_self_test = d.last_self_test, a.runs_total = d.runs_total,
           a.runs_today = d.runs_today, a.totals_date = d.totals_date
    PROVE  Reflects(a, L)
BY DEF Reflects, FaultIs, MainsAre, TestIs, TotalsAre, TodayIs

LEMMA NewReflected == Reflects(NewDevice, << >>)
<1>1. Len(<< >>) = 0 /\ 1 .. 0 = {}
  OBVIOUS
<1>2. /\ NewDevice.motor_fail = "unknown" /\ NewDevice.ac_power = "unknown"
      /\ NewDevice.last_self_test = NoRun /\ NewDevice.totals_date = NoDate
      /\ \A p \in Pumps : NewDevice.runs_total[p] = 0 /\ NewDevice.runs_today[p] = 0
  BY DEF NewDevice
<1>3. \A p : Counted(<< >>, p) = {}
  BY <1>1 DEF Counted
<1>4. AllCounted(<< >>) = {} /\ \A p, day : CountedOn(<< >>, p, day) = {}
  BY <1>3 DEF AllCounted, CountedOn
<1>5. ~FaultStands(<< >>, 0, 0) /\ ~MainsGone(<< >>, 0)
  BY <1>1 DEF FaultStands, MainsGone
<1>6. Cardinality({}) = 0
  BY FS_EmptySet
<1> QED
  BY <1>1, <1>2, <1>3, <1>4, <1>5, <1>6
     DEF Reflects, FaultIs, MainsAre, TestIs, TotalsAre, TodayIs

-----------------------------------------------------------------------------
(* The types, with what they rest on: a message has a fate exactly once it *)
(* is made, and no bound counts below zero.                                *)
Types ==
    /\ TypeOK
    /\ clears \in Nat /\ restarts \in Nat
    /\ \A m \in Messages : fate[m] # "none" <=> m <= Len(sent)
    /\ log \in Seq(Entry) /\ diskLog \in Seq(Entry)

LEMMA TypeIsStates ==
    TypeOK <=> /\ sent \in Seq(Readings) /\ Len(sent) <= MaxMessages
               /\ fate \in [Messages -> {"none", "trying", "relayed", "done"}]
               /\ retries \in 0 .. MaxUpsets
               /\ up \in BOOLEAN /\ entity \in BOOLEAN /\ pending \in BOOLEAN
               /\ today \in 1 .. (MaxUpsets + 1)
               /\ device \in States(today) /\ disk \in States(today)
BY DEF TypeOK, States

LEMMA BoundsNat == MaxMessages \in Nat \ {0} /\ MaxUpsets \in Nat
BY BoundsAssumption

LEMMA TypesFacts ==
    ASSUME Types
    PROVE  /\ sent \in Seq(Readings) /\ Len(sent) \in Nat /\ Len(sent) <= MaxMessages
           /\ fate \in [Messages -> {"none", "trying", "relayed", "done"}]
           /\ retries \in 0 .. MaxUpsets /\ retries \in Nat
           /\ up \in BOOLEAN /\ entity \in BOOLEAN /\ pending \in BOOLEAN
           /\ today \in 1 .. (MaxUpsets + 1) /\ today \in Nat \ {0}
           /\ device \in States(today) /\ disk \in States(today)
           /\ clears \in Nat /\ restarts \in Nat
           /\ \A m \in Messages : fate[m] # "none" <=> m <= Len(sent)
           /\ log \in Seq(Entry) /\ diskLog \in Seq(Entry)
BY TypeIsStates, BoundsNat DEF Types

LEMMA LaterStates ==
    ASSUME NEW t \in Nat, NEW d \in States(t)
    PROVE  d \in States(t + 1) /\ stored_part(d) \in States(t) /\ clear_fault(d) \in States(t)
<1>1. 1 .. t \subseteq 1 .. (t + 1)
  OBVIOUS
<1> QED
  BY <1>1 DEF States, stored_part, clear_fault

LEMMA NewState == ASSUME NEW t \in Nat PROVE NewDevice \in States(t)
BY DEF NewDevice, States

(* While an upset is left, each of the counters is below the bound.        *)
LEMMA UpsetLeft ==
    ASSUME Types, Upsets < MaxUpsets
    PROVE  /\ retries + 1 \in 0 .. MaxUpsets
           /\ today + 1 \in 1 .. (MaxUpsets + 1)
<1>1. /\ retries \in Nat /\ today \in Nat \ {0} /\ clears \in Nat /\ restarts \in Nat
      /\ MaxUpsets \in Nat
  BY TypesFacts, BoundsNat
<1>2. retries + (today - 1) + clears + restarts < MaxUpsets
  BY DEF Upsets
<1> QED
  BY <1>1, <1>2

(* What becomes of a message's fate when an attempt ends.                  *)
LEMMA AttemptEnds ==
    ASSUME Types, NEW m \in Messages, fate[m] # "none", Delivered(m) \/ NotDelivered(m),
           sent' = sent
    PROVE  /\ fate' \in [Messages -> {"none", "trying", "relayed", "done"}]
           /\ retries' \in 0 .. MaxUpsets
           /\ \A k \in Messages : fate'[k] # "none" <=> k <= Len(sent')
           /\ \A k \in Messages \ {m} : fate'[k] = fate[k]
<1>1. /\ fate \in [Messages -> {"none", "trying", "relayed", "done"}]
      /\ retries \in 0 .. MaxUpsets
      /\ \A k \in Messages : fate[k] # "none" <=> k <= Len(sent)
  BY TypesFacts
<1>2. \E f \in {"trying", "done"} : fate' = [fate EXCEPT ![m] = f]
  BY DEF Delivered, NotDelivered
<1>3. retries' \in 0 .. MaxUpsets
  BY <1>1, UpsetLeft DEF Delivered, NotDelivered
<1>4. fate' \in [Messages -> {"none", "trying", "relayed", "done"}]
  BY <1>1, <1>2
<1>5. \A k \in Messages : fate'[k] # "none" <=> fate[k] # "none"
  BY <1>1, <1>2
<1> QED
  BY <1>1, <1>2, <1>3, <1>4, <1>5

(* The reading of a message being relayed, and its entry in the log.       *)
LEMMA Relayed ==
    ASSUME Types, NEW m \in Messages, fate[m] # "none"
    PROVE  /\ sent[m] \in BbsReading
           /\ [message |-> m, day |-> today, says |-> sent[m]] \in Entry
<1>1. m \in 1 .. Len(sent)
  BY TypesFacts DEF Messages
<1>2. sent[m] \in BbsReading
  BY <1>1, TypesFacts, BoundsAssumption
<1> QED
  BY <1>2, TypesFacts DEF Entry, Messages

(* What recording a message makes of the state: apply(), and the run that  *)
(* has still to fire.                                                      *)
LEMMA Recording ==
    ASSUME Types, NEW m \in Messages, fate[m] # "none", Record(m)
    PROVE  LET a == apply(device, m, sent[m], today) IN
           /\ a \in States(today)
           /\ a.unfired_run = device.unfired_run
           /\ device' \in States(today)
           /\ device' = [a EXCEPT !.unfired_run =
                           IF sent[m].pump_run # "absent" /\ ~entity THEN m ELSE @]
           /\ log' = Append(log, [message |-> m, day |-> today, says |-> sent[m]])
<1> DEFINE a == apply(device, m, sent[m], today)
<1>1. sent[m] \in BbsReading /\ today \in Nat \ {0} /\ device \in States(today)
  BY Relayed, TypesFacts
<1>2. a \in States(today) /\ a.unfired_run = device.unfired_run
  BY <1>1, ApplyFields
<1>3. /\ device' = IF sent[m].pump_run = "absent" THEN a ELSE RunEvent(a, m)
      /\ log' = Append(log, [message |-> m, day |-> today, says |-> sent[m]])
  BY DEF Record
<1> HIDE DEF a
<1>4. device' = [a EXCEPT !.unfired_run =
                   IF sent[m].pump_run # "absent" /\ ~entity THEN m ELSE @]
  BY <1>2, <1>3 DEF RunEvent, States
<1>5. device' \in States(today)
  BY <1>2, <1>4 DEF States
<1> QED
  BY <1>2, <1>3, <1>4, <1>5 DEF a

LEMMA StepTypes == Types /\ [Next]_vars => Types'
<1> SUFFICES ASSUME Types, [Next]_vars PROVE Types'
  OBVIOUS
<1>0. /\ sent \in Seq(Readings) /\ Len(sent) \in Nat /\ Len(sent) <= MaxMessages
      /\ fate \in [Messages -> {"none", "trying", "relayed", "done"}]
      /\ retries \in 0 .. MaxUpsets
      /\ up \in BOOLEAN /\ entity \in BOOLEAN /\ pending \in BOOLEAN
      /\ today \in 1 .. (MaxUpsets + 1) /\ today \in Nat \ {0}
      /\ device \in States(today) /\ disk \in States(today)
      /\ clears \in Nat /\ restarts \in Nat
      /\ \A m \in Messages : fate[m] # "none" <=> m <= Len(sent)
      /\ log \in Seq(Entry) /\ diskLog \in Seq(Entry)
  BY TypesFacts
<1> DEFINE Typed ==
      /\ sent' \in Seq(Readings) /\ Len(sent') <= MaxMessages
      /\ fate' \in [Messages -> {"none", "trying", "relayed", "done"}]
      /\ retries' \in 0 .. MaxUpsets
      /\ up' \in BOOLEAN /\ entity' \in BOOLEAN /\ pending' \in BOOLEAN
      /\ today' \in 1 .. (MaxUpsets + 1)
      /\ device' \in States(today') /\ disk' \in States(today')
      /\ clears' \in Nat /\ restarts' \in Nat
      /\ \A m \in Messages : fate'[m] # "none" <=> m <= Len(sent')
      /\ log' \in Seq(Entry) /\ diskLog' \in Seq(Entry)
<1>1. ASSUME Typed PROVE Types'
  BY <1>1 DEF Types, TypeOK, States
<1>2. CASE DeviceReports
  <2>1. PICK r \in Readings : sent' = Append(sent, r)
    BY <1>2 DEF DeviceReports
  <2>2. /\ sent' \in Seq(Readings) /\ Len(sent') = Len(sent) + 1
        /\ Len(sent) + 1 <= MaxMessages
    BY <1>0, <1>2, <2>1, BoundsNat DEF DeviceReports
  <2>3. \E f \in {"relayed", "trying"} : fate' = [fate EXCEPT ![Len(sent) + 1] = f]
    BY <1>2 DEF DeviceReports
  <2>4. \A m \in Messages : m <= Len(sent) + 1 <=> m <= Len(sent) \/ m = Len(sent) + 1
    BY <1>0 DEF Messages
  <2>5. \A m \in Messages : fate'[m] # "none" <=> m <= Len(sent')
    BY <1>0, <2>2, <2>3, <2>4
  <2>6. fate' \in [Messages -> {"none", "trying", "relayed", "done"}]
    BY <1>0, <2>3
  <2>7. Typed
    BY <1>0, <1>2, <2>2, <2>5, <2>6 DEF DeviceReports, history
  <2> QED
    BY <1>1, <2>7
<1>3. ASSUME NEW m \in Messages, MessageArrives(m) PROVE Types'
  <2>1. /\ fate' \in [Messages -> {"none", "trying", "relayed", "done"}]
        /\ \A k \in Messages : fate'[k] # "none" <=> fate[k] # "none"
    BY <1>0, <1>3 DEF MessageArrives
  <2>2. Typed
    BY <1>0, <1>3, <2>1 DEF MessageArrives, history
  <2> QED
    BY <1>1, <2>2
<1>4. ASSUME NEW m \in Messages, MessageMissed(m) PROVE Types'
  <2>1. /\ fate[m] # "none" /\ sent' = sent /\ (Delivered(m) \/ NotDelivered(m))
    BY <1>4 DEF MessageMissed
  <2>2. Typed
    BY <1>0, <1>4, <2>1, AttemptEnds DEF MessageMissed, history
  <2> QED
    BY <1>1, <2>2
<1>5. ASSUME NEW m \in Messages, MessageHandled(m) PROVE Types'
  <2>1. /\ fate[m] # "none" /\ sent' = sent /\ (Delivered(m) \/ NotDelivered(m))
        /\ Record(m)
    BY <1>5 DEF MessageHandled
  <2>2. device' \in States(today)
    BY <2>1, Recording
  <2>3. log' \in Seq(Entry)
    <3>1. log' = Append(log, [message |-> m, day |-> today, says |-> sent[m]])
      BY <2>1 DEF Record
    <3> QED
      BY <1>0, <2>1, <3>1, Relayed
  <2>4. pending' = TRUE
    BY <2>1 DEF Record
  <2>5. Typed
    BY <1>0, <1>5, <2>1, <2>2, <2>3, <2>4, AttemptEnds DEF MessageHandled
  <2> QED
    BY <1>1, <2>5
<1>6. CASE EntityAdded
  <2>1. device' \in States(today)
    BY <1>0, <1>6 DEF EntityAdded, States
  <2>2. Typed
    BY <1>0, <1>6, <2>1 DEF EntityAdded
  <2> QED
    BY <1>1, <2>2
<1>7. CASE ClearPumpFailure
  <2>1. device' \in States(today)
    BY <1>0, <1>7, LaterStates DEF ClearPumpFailure
  <2>2. log' \in Seq(Entry)
    <3>1. [message |-> Cleared, day |-> today, says |-> Silence] \in Entry
      BY <1>0 DEF Entry, Cleared, NoRun, Silence, BbsReading
    <3> QED
      BY <1>0, <1>7, <3>1, Appended DEF ClearPumpFailure
  <2>3. Typed
    BY <1>0, <1>7, <2>1, <2>2 DEF ClearPumpFailure
  <2> QED
    BY <1>1, <2>3
<1>8. CASE SaveRuns
  <2>1. Typed
    BY <1>0, <1>8, LaterStates DEF SaveRuns
  <2> QED
    BY <1>1, <2>1
<1>9. CASE Stop
  <2>1. /\ fate' \in [Messages -> {"none", "trying", "relayed", "done"}]
        /\ \A k \in Messages : fate'[k] # "none" <=> fate[k] # "none"
    BY <1>0, <1>9 DEF Stop, Relaying
  <2>2. disk' \in States(today) /\ diskLog' \in Seq(Entry)
    BY <1>0, <1>9, LaterStates DEF Stop
  <2>3. device' \in States(today) /\ log' \in Seq(Entry)
    BY <1>0, <1>9, NewState DEF Stop
  <2>4. /\ sent' = sent /\ retries' = retries /\ today' = today /\ clears' = clears
        /\ restarts' = restarts + 1 /\ up' = FALSE /\ entity' = FALSE /\ pending' = FALSE
    BY <1>9 DEF Stop
  <2>5. /\ device' \in States(today') /\ disk' \in States(today')
        /\ clears' \in Nat /\ restarts' \in Nat
        /\ \A m \in Messages : fate'[m] # "none" <=> m <= Len(sent')
    BY <1>0, <2>1, <2>2, <2>3, <2>4
  <2>6. Typed
    BY <1>0, <2>1, <2>2, <2>3, <2>4, <2>5
  <2> QED
    BY <1>1, <2>6
<1>10. CASE Setup
  <2>1. Typed
    BY <1>0, <1>10 DEF Setup
  <2> QED
    BY <1>1, <2>1
<1>11. CASE Midnight
  <2>1. today' \in 1 .. (MaxUpsets + 1) /\ today' = today + 1
    BY <1>11, UpsetLeft DEF Midnight
  <2>2. Typed
    BY <1>0, <1>11, <2>1, LaterStates DEF Midnight, history
  <2> QED
    BY <1>1, <2>2
<1>12. CASE UNCHANGED vars
  <2>1. Typed
    BY <1>0, <1>12 DEF vars
  <2> QED
    BY <1>1, <2>1
<1> QED
  BY <1>2, <1>3, <1>4, <1>5, <1>6, <1>7, <1>8, <1>9, <1>10, <1>11, <1>12 DEF Next

LEMMA InitTypes == Init => Types
<1> SUFFICES ASSUME Init PROVE Types
  OBVIOUS
<1>1. << >> \in Seq(Readings) /\ << >> \in Seq(Entry) /\ Len(<< >>) = 0
  OBVIOUS
<1>2. \A m \in Messages : ~(m <= 0)
  BY BoundsNat DEF Messages
<1>3. 0 <= MaxMessages /\ 0 \in 0 .. MaxUpsets /\ 1 \in 1 .. (MaxUpsets + 1)
  BY BoundsNat
<1> QED
  BY <1>1, <1>2, <1>3, NewState, TypeIsStates DEF Init, Types

(* The whole state of the telemetry path keeps its type.                   *)
THEOREM TypeCorrect == Spec => []TypeOK
<1>1. Types => TypeOK
  BY DEF Types
<1> QED
  BY <1>1, InitTypes, StepTypes, PTL DEF Spec

-----------------------------------------------------------------------------
(* The state in memory is what its log says, and so is the state a restart *)
(* will restore.                                                           *)
Reflected ==
    /\ Types
    /\ Reflects(device, log)
    /\ Reflects(disk, diskLog)

LEMMA RecordReflected ==
    ASSUME Types, Reflects(device, log), NEW m \in Messages, fate[m] # "none", Record(m)
    PROVE  Reflects(device', log')
<1> DEFINE a == apply(device, m, sent[m], today)
           M == Append(log, [message |-> m, day |-> today, says |-> sent[m]])
<1>1. Reflects(a, M)
  BY Relayed, TypesFacts, ReadingReflected
<1>2. /\ a \in States(today)
      /\ device' = [a EXCEPT !.unfired_run =
                      IF sent[m].pump_run # "absent" /\ ~entity THEN m ELSE @]
      /\ log' = M
  BY Recording
<1> HIDE DEF a, M
<1>3. /\ device'.motor_fail = a.motor_fail /\ device'.ac_power = a.ac_power
      /\ device'.last_self_test = a.last_self_test
      /\ device'.runs_total = a.runs_total /\ device'.runs_today = a.runs_today
      /\ device'.totals_date = a.totals_date
  BY <1>2 DEF States
<1> QED
  BY <1>1, <1>2, <1>3, SameReflected

LEMMA StoredReflected ==
    ASSUME NEW t, NEW d \in States(t), NEW L, Reflects(d, L)
    PROVE  /\ Reflects(stored_part(d), L)
           /\ Reflects([d EXCEPT !.unfired_run = NoRun], L)
<1> DEFINE a == [d EXCEPT !.unfired_run = NoRun]
<1>1. /\ a.motor_fail = d.motor_fail /\ a.ac_power = d.ac_power
      /\ a.last_self_test = d.last_self_test /\ a.runs_total = d.runs_total
      /\ a.runs_today = d.runs_today /\ a.totals_date = d.totals_date
  BY DEF States
<1> HIDE DEF a
<1>2. Reflects(a, L)
  BY <1>1, SameReflected
<1> QED
  BY <1>2 DEF a, stored_part

LEMMA StepReflected == Reflected /\ [Next]_vars => Reflected'
<1> SUFFICES ASSUME Reflected, [Next]_vars
             PROVE  Reflects(device', log') /\ Reflects(disk', diskLog')
  BY StepTypes DEF Reflected
<1>0. /\ Types /\ Reflects(device, log) /\ Reflects(disk, diskLog)
      /\ today \in Nat /\ device \in States(today) /\ disk \in States(today)
      /\ log \in Seq(Entry)
  BY TypesFacts DEF Reflected
<1>1. ASSUME NEW m \in Messages, MessageHandled(m)
      PROVE  Reflects(device', log') /\ Reflects(disk', diskLog')
  <2>1. fate[m] # "none" /\ Record(m) /\ disk' = disk /\ diskLog' = diskLog
    BY <1>1 DEF MessageHandled
  <2> QED
    BY <1>0, <2>1, RecordReflected
<1>2. CASE EntityAdded
  <2>1. /\ device' = [device EXCEPT !.unfired_run = NoRun]
        /\ log' = log /\ disk' = disk /\ diskLog' = diskLog
    BY <1>2 DEF EntityAdded
  <2> QED
    BY <1>0, <2>1, StoredReflected
<1>3. CASE ClearPumpFailure
  <2>1. /\ device' = clear_fault(device)
        /\ log' = Append(log, [message |-> Cleared, day |-> today, says |-> Silence])
        /\ disk' = disk /\ diskLog' = diskLog
    BY <1>3 DEF ClearPumpFailure
  <2> QED
    BY <1>0, <2>1, ClearReflected
<1>4. CASE SaveRuns
  <2>1. disk' = stored_part(device) /\ diskLog' = log /\ device' = device /\ log' = log
    BY <1>4 DEF SaveRuns
  <2> QED
    BY <1>0, <2>1, StoredReflected
<1>5. CASE Stop
  <2>1. /\ device' = NewDevice /\ log' = << >>
        /\ \/ disk' = stored_part(device) /\ diskLog' = log
           \/ disk' = disk /\ diskLog' = diskLog
    BY <1>5 DEF Stop
  <2> QED
    BY <1>0, <2>1, StoredReflected, NewReflected
<1>6. CASE Setup
  BY <1>0, <1>6 DEF Setup
<1>7. ASSUME device' = device, log' = log, disk' = disk, diskLog' = diskLog
      PROVE  Reflects(device', log') /\ Reflects(disk', diskLog')
  BY <1>0, <1>7
<1>8. CASE DeviceReports
  BY <1>7, <1>8 DEF DeviceReports, history
<1>9. ASSUME NEW m \in Messages, MessageArrives(m) \/ MessageMissed(m)
      PROVE  Reflects(device', log') /\ Reflects(disk', diskLog')
  BY <1>7, <1>9 DEF MessageArrives, MessageMissed, history
<1>10. CASE Midnight
  BY <1>7, <1>10 DEF Midnight, history
<1>11. CASE UNCHANGED vars
  BY <1>7, <1>11 DEF vars
<1> QED
  BY <1>1, <1>2, <1>3, <1>4, <1>5, <1>6, <1>8, <1>9, <1>10, <1>11 DEF Next

LEMMA AlwaysReflected == Spec => []Reflected
<1>1. Init => Reflected
  BY InitTypes, NewReflected DEF Init, Reflected
<1> QED
  BY <1>1, StepReflected, PTL DEF Spec

(* The alarm latch is on exactly when a reported fault has been followed by*)
(* nothing that ends it, for any readings and through any restarts.        *)
THEOREM FaultIsLatched == Spec => []FaultMatchesLog
<1>1. Reflected => FaultMatchesLog
  BY DEF Reflected, Reflects, FaultIs, FaultMatchesLog
<1> QED
  BY <1>1, AlwaysReflected, PTL

(* last_self_test is the latest routine test of everything the state was   *)
(* told, judged by what the log said up to that run.                       *)
THEOREM LastTestIsRight == Spec => []LastTestMatchesLog
<1>1. Reflected => LastTestMatchesLog
  BY DEF Reflected, Reflects, TestIs, LastTestMatchesLog
<1> QED
  BY <1>1, AlwaysReflected, PTL

(* The latest day on which a run was counted is the day of the figures.    *)
LEMMA LatestDay ==
    ASSUME NEW L \in Seq(Entry), NEW d, TodayIs(d, L), d.totals_date \in Nat, NEW p \in Pumps
    PROVE  {i \in Counted(L, p) : \A j \in AllCounted(L) : L[j].day <= L[i].day}
             = CountedOn(L, p, d.totals_date)
<1>1. Counted(L, p) \subseteq AllCounted(L) /\ AllCounted(L) \subseteq 1 .. Len(L)
  BY CountedFinite DEF AllCounted, Pumps
<1>2. \A i \in AllCounted(L) : L[i] \in Entry
  BY <1>1
<1>3. \A i \in AllCounted(L) : L[i].day \in Nat
  BY <1>2 DEF Entry
<1>4. ASSUME NEW i \in Counted(L, p)
      PROVE  (\A j \in AllCounted(L) : L[j].day <= L[i].day) <=> L[i].day = d.totals_date
  <2>1. i \in AllCounted(L) /\ L[i].day \in Nat /\ L[i].day <= d.totals_date
    BY <1>1, <1>3, <1>4 DEF TodayIs
  <2>2. CASE L[i].day = d.totals_date
    BY <2>2 DEF TodayIs
  <2>3. CASE L[i].day # d.totals_date
    <3>1. d.totals_date # NoDate
      BY <2>1, <2>3 DEF NoDate
    <3>2. PICK j \in AllCounted(L) : L[j].day = d.totals_date
      BY <3>1 DEF TodayIs
    <3>3. ~(d.totals_date <= L[i].day)
      BY <2>1, <2>3
    <3> QED
      BY <2>3, <3>2, <3>3
  <2> QED
    BY <2>2, <2>3
<1> QED
  BY <1>4 DEF CountedOn

(* Every lifetime and daily figure is the number of real runs the log has, *)
(* of all time or of the latest day with one.                              *)
THEOREM TotalsAreRight == Spec => []TotalsMatchLog
<1>1. Reflected => TotalsMatchLog
  <2> SUFFICES ASSUME Reflected, NEW p \in Pumps
               PROVE  /\ device.runs_total[p] = Cardinality(Counted(log, p))
                      /\ device.runs_today[p] =
                           Cardinality({i \in Counted(log, p) :
                              \A j \in AllCounted(log) : log[j].day <= log[i].day})
    BY DEF TotalsMatchLog
  <2>1. Types /\ TotalsAre(device, log) /\ TodayIs(device, log)
    BY DEF Reflected, Reflects
  <2>2. device.totals_date \in Nat
    BY <2>1, TypesFacts DEF States, NoDate
  <2>3. {i \in Counted(log, p) : \A j \in AllCounted(log) : log[j].day <= log[i].day}
          = CountedOn(log, p, device.totals_date)
    BY <2>1, <2>2, TypesFacts, LatestDay
  <2> QED
    BY <2>1, <2>3 DEF TotalsAre, TodayIs
<1> QED
  BY <1>1, AlwaysReflected, PTL

-----------------------------------------------------------------------------
(* The one run that has still to fire is owed to an entity that is not yet *)
(* there, and the stored file never holds one: what a restart restores has *)
(* nothing to replay.                                                      *)
Firing ==
    /\ fired \in Nat /\ late \in Nat /\ early \in BOOLEAN
    /\ disk.unfired_run = NoRun
    /\ entity => /\ up
                 /\ device.unfired_run = NoRun
                 /\ fired = late + (IF early THEN 1 ELSE 0)
    /\ ~entity => /\ fired = 0 /\ late = 0
                  /\ up => (early <=> device.unfired_run # NoRun)
    /\ ~up => ~early

LEMMA StepFiring == Types /\ Firing /\ [Next]_vars => Firing'
<1> SUFFICES ASSUME Types, Firing, [Next]_vars PROVE Firing'
  OBVIOUS
<1>0. /\ up \in BOOLEAN /\ entity \in BOOLEAN
      /\ device \in States(today) /\ disk \in States(today)
      /\ fired \in Nat /\ late \in Nat /\ early \in BOOLEAN
      /\ NoRun = 0 /\ \A m \in Messages : m # NoRun
  BY TypesFacts DEF Firing, NoRun, Messages
<1>1. ASSUME NEW m \in Messages, MessageHandled(m) PROVE Firing'
  <2>1. /\ up /\ fate[m] # "none" /\ Record(m)
        /\ up' = up /\ entity' = entity /\ disk' = disk
    BY <1>1 DEF MessageHandled
  <2>2. device'.unfired_run =
          IF sent[m].pump_run # "absent" /\ ~entity THEN m ELSE device.unfired_run
    BY <2>1, Recording DEF States
  <2>3. IF sent[m].pump_run = "absent"
        THEN fired' = fired /\ early' = early /\ late' = late
        ELSE /\ fired' = IF entity THEN fired + 1 ELSE fired
             /\ late'  = IF entity THEN late + 1 ELSE late
             /\ early' = (early \/ ~entity)
    BY <2>1 DEF Record
  <2>4. CASE sent[m].pump_run = "absent"
    BY <1>0, <2>1, <2>2, <2>3, <2>4 DEF Firing
  <2>5. CASE sent[m].pump_run # "absent" /\ entity
    <3>1. fired' = fired + 1 /\ late' = late + 1 /\ early' = early
      BY <1>0, <2>3, <2>5
    <3>2. fired + 1 = (late + 1) + (IF early THEN 1 ELSE 0)
      BY <1>0, <2>5 DEF Firing
    <3> QED
      BY <1>0, <2>1, <2>2, <2>5, <3>1, <3>2 DEF Firing
  <2>6. CASE sent[m].pump_run # "absent" /\ ~entity
    <3>1. fired' = fired /\ late' = late /\ early' = TRUE
      BY <1>0, <2>3, <2>6
    <3> QED
      BY <1>0, <2>1, <2>2, <2>6, <3>1 DEF Firing
  <2> QED
    BY <2>4, <2>5, <2>6
<1>2. CASE EntityAdded
  <2>1. /\ up' /\ entity' /\ device'.unfired_run = NoRun /\ disk' = disk
        /\ early' = early /\ late' = late /\ ~entity /\ up
        /\ fired' = IF device.unfired_run # NoRun THEN fired + 1 ELSE fired
    BY <1>0, <1>2 DEF EntityAdded, States
  <2>2. fired = 0 /\ late = 0 /\ (early <=> device.unfired_run # NoRun)
    BY <2>1 DEF Firing
  <2>3. fired' = late' + (IF early' THEN 1 ELSE 0) /\ fired' \in Nat
    BY <1>0, <2>1, <2>2
  <2> QED
    BY <1>0, <2>1, <2>3 DEF Firing
<1>3. CASE ClearPumpFailure
  <2>1. clear_fault(device).unfired_run = device.unfired_run
    BY <1>0 DEF clear_fault, States
  <2> QED
    BY <1>0, <1>3, <2>1 DEF ClearPumpFailure, Firing
<1>4. \A d \in States(today) : stored_part(d).unfired_run = NoRun
  BY DEF stored_part, States
<1>5. CASE SaveRuns
  BY <1>0, <1>4, <1>5 DEF SaveRuns, Firing
<1>6. CASE Stop
  <2>1. disk' = stored_part(device) \/ disk' = disk
    BY <1>6 DEF Stop
  <2>2. disk'.unfired_run = NoRun
    BY <1>0, <1>4, <2>1 DEF Firing
  <2>3. ~up' /\ ~entity' /\ fired' = 0 /\ late' = 0 /\ early' = FALSE
    BY <1>6 DEF Stop
  <2> QED
    BY <1>0, <2>2, <2>3 DEF Firing
<1>7. CASE Setup
  BY <1>0, <1>7 DEF Setup, Firing
<1>8. ASSUME fired' = fired, late' = late, early' = early, up' = up,
             entity' = entity, device' = device, disk' = disk
      PROVE  Firing'
  BY <1>8 DEF Firing
<1>9. CASE DeviceReports
  BY <1>8, <1>9 DEF DeviceReports, history
<1>10. ASSUME NEW m \in Messages, MessageArrives(m) \/ MessageMissed(m) PROVE Firing'
  BY <1>8, <1>10 DEF MessageArrives, MessageMissed, history
<1>11. CASE Midnight
  BY <1>8, <1>11 DEF Midnight, history
<1>12. CASE UNCHANGED vars
  BY <1>8, <1>12 DEF vars
<1> QED
  BY <1>1, <1>2, <1>3, <1>5, <1>6, <1>7, <1>9, <1>10, <1>11, <1>12 DEF Next

LEMMA InitFiring == Init => Firing
<1>1. NewDevice.unfired_run = NoRun
  BY DEF NewDevice
<1>2. Init => /\ fired = 0 /\ late = 0 /\ ~early /\ early \in BOOLEAN
              /\ up /\ ~entity
              /\ device.unfired_run = NoRun /\ disk.unfired_run = NoRun
  BY <1>1 DEF Init
<1> QED
  BY <1>2 DEF Firing

(* With the entity listening, every recorded run has fired exactly once,   *)
(* one for all of those before it, and none is left to be replayed.        *)
THEOREM RunsFireOnce == Spec => []EveryRunFires
<1>1. Types /\ Firing => EveryRunFires
  BY DEF Firing, EveryRunFires
<1> QED
  BY <1>1, InitFiring, InitTypes, StepTypes, StepFiring, PTL DEF Spec

-----------------------------------------------------------------------------
(* What is stored and restored is a stored part already, so a restore has  *)
(* nothing to save; a run that fires late is none of what is stored.       *)
LEMMA StoredParts ==
    \A d \in States(today) :
      /\ d.unfired_run = NoRun => stored_part(d) = d
      /\ stored_part([d EXCEPT !.unfired_run = NoRun]) = stored_part(d)
BY DEF stored_part, States

LEMMA StepUnsaved ==
    Types /\ Firing /\ UnsavedIsPending /\ [Next]_vars => UnsavedIsPending'
<1> SUFFICES ASSUME Types, Firing, UnsavedIsPending, [Next]_vars, up', ~pending'
             PROVE  disk' = stored_part(device')
  BY DEF UnsavedIsPending
<1>0. device \in States(today) /\ disk \in States(today) /\ disk.unfired_run = NoRun
  BY TypesFacts DEF Firing
<1>1. ASSUME NEW m \in Messages, MessageHandled(m) PROVE FALSE
  BY <1>1 DEF MessageHandled, Record
<1>2. CASE EntityAdded
  <2>1. disk = stored_part(device)
    BY <1>2 DEF EntityAdded, UnsavedIsPending
  <2> QED
    BY <1>0, <1>2, <2>1, StoredParts DEF EntityAdded
<1>3. CASE ClearPumpFailure
  BY <1>3 DEF ClearPumpFailure
<1>4. CASE SaveRuns
  BY <1>4 DEF SaveRuns
<1>5. CASE Stop
  BY <1>5 DEF Stop
<1>6. CASE Setup
  BY <1>0, <1>6, StoredParts DEF Setup
<1>7. ASSUME up' = up, pending' = pending, device' = device, disk' = disk
      PROVE  disk' = stored_part(device')
  BY <1>7 DEF UnsavedIsPending
<1>8. CASE DeviceReports \/ Midnight \/ UNCHANGED vars
  BY <1>7, <1>8 DEF DeviceReports, Midnight, vars
<1>9. ASSUME NEW m \in Messages, MessageArrives(m) \/ MessageMissed(m)
      PROVE  disk' = stored_part(device')
  BY <1>7, <1>9 DEF MessageArrives, MessageMissed
<1> QED
  BY <1>1, <1>2, <1>3, <1>4, <1>5, <1>6, <1>8, <1>9 DEF Next

(* What the file lacks is always about to be saved, for any readings and   *)
(* any number of messages, presses and stops.                              *)
THEOREM NothingStaysUnsaved == Spec => []UnsavedIsPending
<1>1. Init => UnsavedIsPending
  <2> SUFFICES ASSUME Init PROVE disk = stored_part(device)
    BY DEF UnsavedIsPending
  <2>1. device \in States(today) /\ disk = device
    BY InitTypes, TypesFacts DEF Init
  <2>2. device.unfired_run = NoRun
    BY <2>1, InitFiring DEF Firing
  <2> QED
    BY <2>1, <2>2, StoredParts
<1> QED
  BY <1>1, StepUnsaved, InitFiring, InitTypes, StepTypes, StepFiring, PTL DEF Spec

-----------------------------------------------------------------------------
(* Until the first stop the integration is up, every message the device is *)
(* done with has its entry, and no entry is ever taken back.               *)
Recorded ==
    restarts = 0 =>
        /\ up
        /\ \A m \in Messages :
             fate[m] = "done" => \E i \in 1 .. Len(log) : log[i].message = m

LEMMA StepRecorded == Types /\ Recorded /\ [Next]_vars => Recorded'
<1> SUFFICES ASSUME Types, Recorded, [Next]_vars, restarts' = 0
             PROVE  /\ up'
                    /\ \A k \in Messages : fate'[k] = "done" =>
                         \E i \in 1 .. Len(log') : log'[i].message = k
  BY DEF Recorded
<1>0. /\ restarts \in Nat /\ log \in Seq(Entry) /\ Len(log) \in Nat /\ today \in Nat
      /\ fate \in [Messages -> {"none", "trying", "relayed", "done"}]
      /\ \A m \in Messages : fate[m] # "none" <=> m <= Len(sent)
  BY TypesFacts
<1>1. restarts = 0
  <2>1. restarts' = restarts \/ Stop
    BY DEF Next, DeviceReports, MessageArrives, MessageMissed, MessageHandled,
           EntityAdded, ClearPumpFailure, SaveRuns, Setup, Midnight, history, vars
  <2>2. ~Stop
    <3>1. restarts + 1 # 0
      BY <1>0
    <3> QED
      BY <3>1 DEF Stop
  <2> QED
    BY <2>1, <2>2
<1>2. up /\ \A k \in Messages : fate[k] = "done" =>
                \E i \in 1 .. Len(log) : log[i].message = k
  BY <1>1 DEF Recorded
<1>3. ASSUME NEW e \in Entry, log' = Append(log, e), NEW k \in Messages,
             fate[k] = "done" \/ e.message = k
      PROVE  \E i \in 1 .. Len(log') : log'[i].message = k
  <2>1. /\ Len(log') = Len(log) + 1 /\ log'[Len(log) + 1] = e
        /\ \A i \in 1 .. Len(log) : log'[i] = log[i]
    BY <1>0, <1>3, Appended
  <2>2. CASE fate[k] = "done"
    <3>1. PICK i \in 1 .. Len(log) : log[i].message = k
      BY <1>2, <2>2
    <3> QED
      BY <1>0, <2>1, <3>1
  <2>3. CASE e.message = k
    BY <1>0, <2>1, <2>3
  <2> QED
    BY <1>3, <2>2, <2>3
<1>4. ASSUME NEW m \in Messages, MessageHandled(m)
      PROVE  /\ up'
             /\ \A k \in Messages : fate'[k] = "done" =>
                  \E i \in 1 .. Len(log') : log'[i].message = k
  <2> DEFINE e == [message |-> m, day |-> today, says |-> sent[m]]
  <2>1. /\ fate[m] # "none" /\ Record(m) /\ (Delivered(m) \/ NotDelivered(m))
        /\ up' = up /\ sent' = sent
    BY <1>4 DEF MessageHandled
  <2>2. e \in Entry /\ log' = Append(log, e) /\ e.message = m
    BY <2>1, Relayed DEF Record
  <2> HIDE DEF e
  <2>3. \A k \in Messages : fate'[k] = "done" => fate[k] = "done" \/ e.message = k
    BY <2>1, <2>2, AttemptEnds
  <2> QED
    BY <1>2, <1>3, <2>1, <2>2, <2>3
<1>5. CASE ClearPumpFailure
  <2> DEFINE e == [message |-> Cleared, day |-> today, says |-> Silence]
  <2>1. e \in Entry
    BY <1>0 DEF Entry, Cleared, NoRun, Silence, BbsReading
  <2>2. log' = Append(log, e) /\ fate' = fate /\ up' = up
    BY <1>5 DEF ClearPumpFailure
  <2> HIDE DEF e
  <2> QED
    BY <1>2, <1>3, <2>1, <2>2
<1>6. ASSUME up' = up, log' = log,
             \A k \in Messages : fate'[k] = "done" => fate[k] = "done"
      PROVE  /\ up'
             /\ \A k \in Messages : fate'[k] = "done" =>
                  \E i \in 1 .. Len(log') : log'[i].message = k
  BY <1>2, <1>6
<1>7. CASE DeviceReports
  <2>1. fate' = [fate EXCEPT ![Len(sent) + 1] = IF up THEN "relayed" ELSE "trying"]
        /\ up' = up /\ log' = log
    BY <1>7 DEF DeviceReports, history
  <2>2. \A k \in Messages : fate'[k] = "done" => fate[k] = "done"
    BY <1>0, <2>1
  <2> QED
    BY <1>6, <2>1, <2>2
<1>8. ASSUME NEW m \in Messages, MessageArrives(m)
      PROVE  /\ up'
             /\ \A k \in Messages : fate'[k] = "done" =>
                  \E i \in 1 .. Len(log') : log'[i].message = k
  <2>1. fate' = [fate EXCEPT ![m] = "relayed"] /\ up' = up /\ log' = log
    BY <1>8 DEF MessageArrives, history
  <2>2. \A k \in Messages : fate'[k] = "done" => fate[k] = "done"
    BY <1>0, <2>1
  <2> QED
    BY <1>6, <2>1, <2>2
<1>9. ASSUME NEW m \in Messages, MessageMissed(m) PROVE FALSE
  BY <1>2, <1>9 DEF MessageMissed
<1>10. CASE Stop
  BY <1>0, <1>1, <1>10 DEF Stop
<1>11. CASE Setup
  BY <1>2, <1>11 DEF Setup
<1>12. CASE EntityAdded \/ SaveRuns \/ Midnight \/ UNCHANGED vars
  <2>1. up' = up /\ log' = log /\ fate' = fate
    BY <1>12 DEF EntityAdded, SaveRuns, Midnight, history, vars
  <2> QED
    BY <1>6, <2>1
<1> QED
  BY <1>4, <1>5, <1>7, <1>8, <1>9, <1>10, <1>11, <1>12 DEF Next

(* While the integration stays up, whatever the device has delivered or    *)
(* given up on is in the log, however the vendor was doing.                *)
THEOREM NothingIsLost == Spec => []NothingHandledIsLost
<1>1. Init => Recorded
  BY DEF Init, Recorded
<1>2. Recorded => NothingHandledIsLost
  BY DEF Recorded, NothingHandledIsLost
<1> QED
  BY <1>1, <1>2, InitTypes, StepTypes, StepRecorded, PTL DEF Spec
=============================================================================
