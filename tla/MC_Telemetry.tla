---------------------------- MODULE MC_Telemetry ----------------------------
EXTENDS Telemetry

Says1(ac, fail, run, draws) ==
    [ac_power |-> ac, motor_fail |-> fail, pump_run |-> run, draws |-> draws]

(* Mains lost, a pump fault, a run of each pump, and mains back with a     *)
(* primary run that drew nothing.  The device is never seen to report the  *)
(* end of a fault (tests/test_state.py:86).                                *)
MCReadings ==
    {Says1("off", "absent", "absent", FALSE),
     Says1("absent", "fault", "absent", FALSE),
     Says1("absent", "absent", "primary", TRUE),
     Says1("on", "absent", "primary", FALSE),
     Says1("absent", "absent", "backup", TRUE)}
=============================================================================
