------------------------------ MODULE Telemetry ------------------------------
(***************************************************************************)
(* The telemetry path: handle() and _record() in __init__.py for /bbs_json *)
(* messages of one device, the device state they build, the pump-run event *)
(* entity, the clear button, and the delayed save with the restarts it is  *)
(* there for.                                                              *)
(*                                                                         *)
(* A message is recorded when its relay returns, whatever the relay's      *)
(* outcome, so messages are recorded in the order their relays finish.     *)
(* The device (external) tries a message a few times and then drops it;    *)
(* while the integration is down a fail-open shim may deliver it past us.  *)
(***************************************************************************)
EXTENDS DeviceState, Sequences, FiniteSets

CONSTANTS
    Readings,       \* bound: what a message may say
    MaxMessages,    \* bound: messages the device makes
    MaxOutstanding, \* bound: messages the device still has to deliver
    MaxUpsets       \* bound: retries, midnights, presses of the clear button
                    \* and stops of Home Assistant, all together

ASSUME BoundsAssumption ==
    /\ Readings \subseteq BbsReading
    /\ {MaxMessages, MaxOutstanding} \subseteq Nat \ {0}
    /\ MaxUpsets \in Nat

VARIABLES
    sent,       \* external: the readings the device has made, oldest first
    fate,       \* fate[m]: "none" before m is made, "trying" when the device has
                \* it to send, "relayed" while a handler of ours is at it, "done"
                \* when it was delivered or the device has dropped it
    retries,    \* external: repeated attempts so far
    up,         \* the integration is loaded
    device,     \* runtime.devices[id]
    entity,     \* the event entity has been added to Home Assistant
    today,      \* dt_util.now().date()
    pending,    \* a delayed save is scheduled
    disk,       \* the stored file, as the device state it restores to
    log,        \* history: what the device state has been told, in order
    diskLog,    \* history: that log at the time of the stored file
    fired,      \* history: run events fired since setup
    early,      \* history: a run was recorded since setup before the entity
    late,       \* history: runs recorded since setup after it
    clears,     \* history: presses of the clear button
    restarts

history  == <<log, diskLog, fired, early, late, clears, restarts>>
vars == <<sent, fate, retries, up, device, entity, today, pending, disk,
          log, diskLog, fired, early, late, clears, restarts>>

Messages == 1..MaxMessages
Cleared  == NoRun   \* the log entry of the clear button names no message
Silence  == [ac_power |-> "absent", motor_fail |-> "absent",
             pump_run |-> "absent", draws |-> FALSE]

Upsets == retries + (today - 1) + clears + restarts

Init ==
    /\ sent = << >>
    /\ fate = [m \in Messages |-> "none"]
    /\ retries = 0
    /\ up = TRUE
    /\ device = NewDevice
    /\ entity = FALSE
    /\ today = 1
    /\ pending = FALSE
    /\ disk = NewDevice
    /\ log = << >>
    /\ diskLog = << >>
    /\ fired = 0 /\ early = FALSE /\ late = 0
    /\ clears = 0
    /\ restarts = 0

-----------------------------------------------------------------------------
(* External: something happens at the pump, and the device sends it at     *)
(* once: to a handler of ours if there is one.                             *)
DeviceReports ==
    /\ Len(sent) < MaxMessages
    /\ Cardinality({m \in Messages : fate[m] \in {"trying", "relayed"}})
         < MaxOutstanding
    /\ \E r \in Readings : sent' = Append(sent, r)
    /\ fate' = [fate EXCEPT ![Len(sent) + 1] = IF up THEN "relayed" ELSE "trying"]
    /\ UNCHANGED <<retries, up, device, entity, today, pending, disk>>
    /\ UNCHANGED history

Relaying == {m \in Messages : fate[m] = "relayed"}

(* The device was not answered with a success: it tries again or drops the *)
(* message.                                                                *)
NotDelivered(m) ==
    \/ /\ fate' = [fate EXCEPT ![m] = "done"]
       /\ UNCHANGED retries
    \/ /\ Upsets < MaxUpsets
       /\ fate' = [fate EXCEPT ![m] = "trying"]
       /\ retries' = retries + 1

Delivered(m) ==
    /\ fate' = [fate EXCEPT ![m] = "done"]
    /\ UNCHANGED retries

(* A further attempt: handle() up to its first suspension in _relay.       *)
MessageArrives(m) ==
    /\ up
    /\ fate[m] = "trying"
    /\ fate' = [fate EXCEPT ![m] = "relayed"]
    /\ UNCHANGED <<sent, retries, up, device, entity, today, pending, disk>>
    /\ UNCHANGED history

(* With the integration down an attempt is refused, or the shim delivers   *)
(* it to the vendor: either way it is not recorded here.                   *)
MessageMissed(m) ==
    /\ ~up
    /\ fate[m] = "trying"
    /\ Delivered(m) \/ NotDelivered(m)
    /\ UNCHANGED <<sent, up, device, entity, today, pending, disk>>
    /\ UNCHANGED history

\* Mutant of RunEvent: firing does not clear unfired_run.
RunEventKeeps(d, n) == [d EXCEPT !.unfired_run = n]

(* Setting unfired_run and dispatching the run: an entity that is listening*)
(* fires at once and clears it again.                                      *)
RunEvent(d, n) == IF entity THEN d ELSE [d EXCEPT !.unfired_run = n]

(* _record() for message m.                                                *)
Record(m) ==
    LET r == sent[m]
        d == apply(device, m, r, today)
    IN  /\ device' = IF r.pump_run = "absent" THEN d ELSE RunEvent(d, m)
        /\ IF r.pump_run = "absent" THEN UNCHANGED <<fired, early, late>>
           ELSE /\ fired' = IF entity THEN fired + 1 ELSE fired
                /\ late'  = IF entity THEN late + 1 ELSE late
                /\ early' = (early \/ ~entity)
        /\ log' = Append(log, [message |-> m, day |-> today, says |-> r])
        /\ pending' = TRUE

\* Mutant of MessageHandled: a message that did not get through is not parsed.
MessageHandledIfAnswered(m) ==
    /\ up
    /\ fate[m] = "relayed"
    /\ \/ Delivered(m) /\ Record(m)
       \/ /\ NotDelivered(m)
          /\ UNCHANGED <<device, pending, log, fired, early, late>>
    /\ UNCHANGED <<sent, up, entity, today, disk, diskLog, clears, restarts>>

(* The relay returned and handle() runs to its end: the vendor's answer,   *)
(* or 502 when it could not be asked.                                      *)
MessageHandled(m) ==
    /\ up
    /\ fate[m] = "relayed"
    /\ Record(m)
    /\ Delivered(m) \/ NotDelivered(m)
    /\ UNCHANGED <<sent, up, entity, today, disk, diskLog, clears, restarts>>

(* A known device's entities are added by a task of their own, some time   *)
(* after the message (or the restore) that made the device known.          *)
EntityAdded ==
    /\ up /\ ~entity
    /\ Len(log) > 0
    /\ entity' = TRUE
    /\ fired' = IF device.unfired_run # NoRun THEN fired + 1 ELSE fired
    /\ device' = [device EXCEPT !.unfired_run = NoRun]
    /\ UNCHANGED <<sent, fate, retries, up, today, pending, disk, log,
                   diskLog, early, late, clears, restarts>>

\* Mutant of ClearPumpFailure: the press asks for no save.
ClearPumpFailureUnsaved ==
    /\ up /\ entity
    /\ Upsets < MaxUpsets
    /\ clears' = clears + 1
    /\ device' = clear_fault(device)
    /\ log' = Append(log, [message |-> Cleared, day |-> today, says |-> Silence])
    /\ UNCHANGED <<sent, fate, retries, up, entity, today, pending, disk,
                   diskLog, fired, early, late, restarts>>

(* ClearPumpFailure.async_press.                                           *)
ClearPumpFailure ==
    /\ up /\ entity
    /\ Upsets < MaxUpsets
    /\ clears' = clears + 1
    /\ device' = clear_fault(device)
    /\ log' = Append(log, [message |-> Cleared, day |-> today, says |-> Silence])
    /\ pending' = TRUE
    /\ UNCHANGED <<sent, fate, retries, up, entity, today, disk,
                   diskLog, fired, early, late, restarts>>

(* The delayed save runs: as_stored() is evaluated now, not when it was    *)
(* asked for.                                                              *)
SaveRuns ==
    /\ up /\ pending
    /\ disk' = stored_part(device)
    /\ diskLog' = log
    /\ pending' = FALSE
    /\ UNCHANGED <<sent, fate, retries, up, device, entity, today, log,
                   fired, early, late, clears, restarts>>

(* Home Assistant stops.  An orderly stop writes a pending save; a crash   *)
(* (or a power cut) does not.  What was in memory is gone, handlers in     *)
(* progress with it, and to the device their attempts have failed.         *)
Stop ==
    /\ up
    /\ Upsets < MaxUpsets
    /\ restarts' = restarts + 1
    /\ up' = FALSE
    /\ \E orderly \in BOOLEAN :
         /\ disk' = IF orderly /\ pending THEN stored_part(device) ELSE disk
         /\ diskLog' = IF orderly /\ pending THEN log ELSE diskLog
    /\ pending' = FALSE
    /\ device' = NewDevice
    /\ log' = << >>
    /\ entity' = FALSE
    /\ fired' = 0 /\ early' = FALSE /\ late' = 0
    /\ fate' = [m \in Messages |-> IF m \in Relaying THEN "trying" ELSE fate[m]]
    /\ UNCHANGED <<sent, retries, today, clears>>

(* async_setup_entry restores the device from the stored file.             *)
Setup ==
    /\ ~up
    /\ up' = TRUE
    /\ device' = disk
    /\ log' = diskLog
    /\ UNCHANGED <<sent, fate, retries, entity, today, pending, disk, diskLog,
                   fired, early, late, clears, restarts>>

Midnight ==
    /\ Upsets < MaxUpsets
    /\ today' = today + 1
    /\ UNCHANGED <<sent, fate, retries, up, device, entity, pending,
                   disk>>
    /\ UNCHANGED history

Next ==
    \/ DeviceReports
    \/ \E m \in Messages : MessageArrives(m)
    \/ \E m \in Messages : MessageMissed(m)
    \/ \E m \in Messages : MessageHandled(m)
    \/ EntityAdded
    \/ ClearPumpFailure
    \/ SaveRuns
    \/ Stop
    \/ Setup
    \/ Midnight

Spec == Init /\ [][Next]_vars

-----------------------------------------------------------------------------
TypeOK ==
    /\ sent \in Seq(Readings) /\ Len(sent) <= MaxMessages
    /\ fate \in [Messages -> {"none", "trying", "relayed", "done"}]
    /\ retries \in 0..MaxUpsets
    /\ up \in BOOLEAN /\ entity \in BOOLEAN /\ pending \in BOOLEAN
    /\ today \in 1..(MaxUpsets + 1)
    /\ {device, disk} \subseteq
         [ac_power : {"unknown", "on", "off"},
          motor_fail : {"unknown", "fault", "ok"},
          last_run : {NoRun} \cup Messages,
          last_self_test : {NoRun} \cup Messages,
          unfired_run : {NoRun} \cup Messages,
          runs_today : [Pumps -> Nat],
          runs_total : [Pumps -> Nat],
          totals_date : {NoDate} \cup 1..today]

-----------------------------------------------------------------------------
(* What a log of readings and presses says, read as a whole.  L is a       *)
(* sequence of [message, day, says]; these definitions never fold over it. *)
Says(L, i) == L[i].says

(* Entry i ends a fault: the user or the device says so, or the primary has*)
(* run and drawn current.                                                  *)
Clears(L, i) ==
    \/ L[i].message = Cleared
    \/ Says(L, i).motor_fail = "ok"
    \/ Says(L, i).pump_run = "primary" /\ Says(L, i).draws

(* A fault was reported no later than entry i and nothing from then up to  *)
(* entry k has cleared it.                                                 *)
FaultStands(L, i, k) ==
    \E j \in 1..i : /\ Says(L, j).motor_fail = "fault"
                    /\ \A n \in j..k : ~Clears(L, n)

(* The latest word on the mains, up to and with entry i, is that they are  *)
(* gone.                                                                   *)
MainsGone(L, i) ==
    \E j \in 1..i : /\ Says(L, j).ac_power = "off"
                    /\ \A n \in (j + 1)..i : Says(L, n).ac_power = "absent"

RoutineTest(L, i) ==
    /\ Says(L, i).pump_run = "backup"
    /\ Says(L, i).motor_fail = "ok" \/ ~FaultStands(L, i, i - 1)
    /\ ~MainsGone(L, i)

Counted(L, pump) ==
    {i \in 1..Len(L) : Says(L, i).pump_run = pump /\ ~RoutineTest(L, i)}

AllCounted(L) == Counted(L, "primary") \cup Counted(L, "backup")

(* The lifetime and daily figures are exactly the real runs of everything  *)
(* the state has been told: through merges, rollovers, the fault latch,    *)
(* restarts and restores, no run is counted twice, dropped, or counted     *)
(* under the wrong day.                                                    *)
TotalsMatchLog ==
    \A p \in Pumps :
        /\ device.runs_total[p] = Cardinality(Counted(log, p))
        /\ device.runs_today[p] =
             Cardinality({i \in Counted(log, p) :
                            \A j \in AllCounted(log) : log[j].day <= log[i].day})

(* The alarm latch is on exactly when a reported fault has been followed   *)
(* by nothing that ends it: no healthy primary run, no press of the button *)
(* (tests/test_state.py:86), across restarts and whatever came in between. *)
FaultMatchesLog ==
    device.motor_fail = "fault" <=> FaultStands(log, Len(log), Len(log))

(* last_self_test is the latest backup run that neither a standing fault   *)
(* nor lost mains made real, over everything the state has been told.      *)
LastTestMatchesLog ==
    IF \E i \in 1..Len(log) : RoutineTest(log, i)
    THEN \E i \in 1..Len(log) :
            /\ RoutineTest(log, i)
            /\ \A j \in (i + 1)..Len(log) : ~RoutineTest(log, j)
            /\ device.last_self_test = log[i].message
    ELSE device.last_self_test = NoRun

(* Once the event entity is listening every recorded run fires exactly     *)
(* once, and of the runs that came before it the last one does: nothing is *)
(* left over to be replayed later as if it had just happened.              *)
EveryRunFires ==
    up /\ entity =>
        /\ fired = late + (IF early THEN 1 ELSE 0)
        /\ device.unfired_run = NoRun

(* What the device has delivered or given up on was recorded here, however *)
(* the vendor was doing ("local monitoring that stops when the vendor is   *)
(* unreachable would be missing the point", __init__.py:429-434), as long  *)
(* as the integration was up.                                              *)
NothingHandledIsLost ==
    restarts = 0 =>
        \A m \in Messages :
            fate[m] = "done" =>
                \E i \in 1..Len(log) : log[i].message = m

(* Whatever changes the state asks for a save, and what is written is the  *)
(* state of that moment: a crash costs no more than a scheduled save had   *)
(* still to write, and no reading, press or restore leaves anything that   *)
(* never will be written (request_save of _record and the clear button).   *)
UnsavedIsPending == up /\ ~pending => disk = stored_part(device)

(* A fault cleared by hand does not come back with a restart, if nothing   *)
(* was reported after the press: "Persist immediately: a cleared fault     *)
(* that came back after a restart would be worse than not offering the     *)
(* button at all" (button.py:60-61).                                       *)
ClearedFaultStaysCleared ==
    [][Stop /\ log # << >> /\ log[Len(log)].message = Cleared =>
         disk'.motor_fail # "fault"]_vars
=============================================================================
