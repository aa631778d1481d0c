----------------------------- MODULE DeviceState -----------------------------
(***************************************************************************)
(* core/state.py: what is known about one device, as a record that each    *)
(* reading is merged into, and the part of it that is written to disk.     *)
(*                                                                         *)
(* A run is identified by the number of the message that reported it.  The *)
(* battery and radio figures, high_water and the clock offset are merged   *)
(* by the same "absent means unchanged" rule as ac_power and decide        *)
(* nothing, and gallons grow exactly where runs are counted; both are left *)
(* out.                                                                    *)
(***************************************************************************)
EXTENDS Naturals

Pumps == {"primary", "backup"}

(* One parsed /bbs_json message; "absent" is a field it does not mention.  *)
(* draws: the run's current could be read and is at least the threshold.   *)
(* A primary run whose current is JSON text is not among these readings:   *)
(* it makes apply() raise before it is done, which Intake models.          *)
BbsReading == [ac_power   : {"absent", "on", "off"},
               motor_fail : {"absent", "fault", "ok"},
               pump_run   : {"absent"} \cup Pumps,
               draws      : BOOLEAN]

NoRun  == 0     \* no message: None
NoDate == 0     \* totals_date is None; dates count from 1

NewDevice == [ac_power |-> "unknown", motor_fail |-> "unknown",
              last_run |-> NoRun, last_self_test |-> NoRun,
              unfired_run |-> NoRun,
              runs_today |-> [p \in Pumps |-> 0],
              runs_total |-> [p \in Pumps |-> 0],
              totals_date |-> NoDate]

\* Mutant of Merged: what a reading does not mention is overwritten too.
MergedAll(d, r) ==
    [d EXCEPT !.ac_power = r.ac_power, !.motor_fail = r.motor_fail]

(* The first loop of apply(): only what the reading mentions changes.      *)
Merged(d, r) ==
    [d EXCEPT !.ac_power   = IF r.ac_power = "absent" THEN @ ELSE r.ac_power,
              !.motor_fail = IF r.motor_fail = "absent" THEN @ ELSE r.motor_fail]

\* Mutant of is_self_test: only lost mains make a backup run real.
self_test_by_mains(d, r) == r.pump_run = "backup" /\ d.ac_power # "off"

is_self_test(d, r) ==
    /\ r.pump_run = "backup"
    /\ d.motor_fail # "fault"
    /\ d.ac_power # "off"

\* Mutant of count_run: the rollover resets only the pump that ran.
count_run_one_pump(d, r, today) ==
    LET before == IF d.totals_date = today THEN d.runs_today
                  ELSE [d.runs_today EXCEPT ![r.pump_run] = 0] IN
    [d EXCEPT !.totals_date = today,
              !.runs_today = [before EXCEPT ![r.pump_run] = @ + 1],
              !.runs_total[r.pump_run] = @ + 1]

(* The rollover of both pumps on the first counted run of a day, then add. *)
count_run(d, r, today) ==
    LET before == IF d.totals_date = today THEN d.runs_today
                  ELSE [p \in Pumps |-> 0] IN
    [d EXCEPT !.totals_date = today,
              !.runs_today = [before EXCEPT ![r.pump_run] = @ + 1],
              !.runs_total[r.pump_run] = @ + 1]

\* Mutant of is_healthy_primary_run: a run drawing nothing is evidence too.
any_primary_run(r) == r.pump_run = "primary"

is_healthy_primary_run(r) == r.pump_run = "primary" /\ r.draws

(* apply(), for message number n.                                          *)
apply(d, n, r, today) ==
    LET m     == Merged(d, r)
        ran   == [m EXCEPT !.last_run = n]
        filed == IF is_self_test(m, r)
                 THEN [ran EXCEPT !.last_self_test = n]
                 ELSE count_run(ran, r, today)
    IN  CASE r.pump_run = "absent"     -> m
          [] is_healthy_primary_run(r) -> [filed EXCEPT !.motor_fail = "ok"]
          [] OTHER                     -> filed

clear_fault(d) == [d EXCEPT !.motor_fail = "ok"]

(* from_stored(to_stored(d)): of this record, all but unfired_run survives.*)
stored_part(d) == [d EXCEPT !.unfired_run = NoRun]
=============================================================================
