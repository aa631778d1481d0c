------------------------------- MODULE Intake -------------------------------
(***************************************************************************)
(* What becomes of a message once its relay is over: parse_request(),      *)
(* _record() and note() in handle() of __init__.py, and the entities that  *)
(* show it.                                                                *)
(*                                                                         *)
(* Entities are made by platforms (sensor.py, binary_sensor.py, button.py; *)
(* event.py sets itself up likewise) that Home Assistant sets up one by    *)
(* one after the listener has started, so messages come before, between    *)
(* and after.  A platform asks for the entities of a device; a task of     *)
(* Home Assistant's adds them some time later.                             *)
(***************************************************************************)
EXTENDS Novelty, FiniteSets

CONSTANTS
    Devices,        \* bound: devices that report
    Messages,       \* bound: what they send, as [path, body]
    WireBodies,     \* bound: inner /bbs_json objects that are read for comparison
    PingBodies,     \* bound: /pings arrays likewise
    MaxReloads      \* bound: reloads and restarts

PING_TYPES == {"1", "3", "105"}     \* bound: 105 stands for all other types

(* What the device puts into the bodies that are parsed.                   *)
BbsBody == [device : Devices, fields : [Fields -> Written]]
Entries == Seq([device : Devices, type : PING_TYPES, value : Written])

ASSUME IntakeAssumption ==
    /\ \A m \in Messages :
         /\ m.path.id \in BOOLEAN
         /\ ~m.path.id /\ m.path.root = "/bbs_json" => m.body \in BbsBody
         /\ ~m.path.id /\ m.path.root \in {"/pings", "/pump_outlet_alerts"} =>
              m.body \in [entries : Entries]
    /\ WireBodies \subseteq [Fields -> Written]
    /\ PingBodies \subseteq Entries
    /\ MaxReloads \in Nat

Platforms == {"sensor", "binary_sensor", "button"}

VARIABLES
    known,      \* the devices in runtime.devices
    state,      \* state[d]: the device state of d, if it is known
    ready,      \* the platforms whose async_setup_entry has run
    asked,      \* history: asked[p, d]: times platform p asked for the entities of d
    added,      \* <<p, d>>: these entities are in Home Assistant
    shown,      \* shown[p, d]: what they wrote last
    seen,       \* Novelties._seen
    said,       \* history: said[s]: warnings about s since setup
    heard,      \* history: what in the messages handled to their end since
                \* setup nothing here reads
    missed,     \* history: <<p, d>>: p was set up when the first message of d
                \* was cut short
    behind,     \* history: <<p, d>>: these entities were there when the latest
                \* message of d was cut short
    stored,     \* the file: the devices in it, with the motor_fail of each
    reloads

entities == <<ready, asked, added, shown>>
novelty  == <<seen, said, heard>>
lost     == <<missed, behind>>
vars == <<known, state, entities, novelty, lost, stored, reloads>>

NewDevice == [battery |-> Unknown, wifi |-> Unknown, motor_fail |-> Unknown]

(* from_stored(): what arrives all the time anyway was not kept.           *)
Restored(motor_fail) == [NewDevice EXCEPT !.motor_fail = motor_fail]

Things == {<<"bbs field", "other">>}
            \cup {<<"path", m.path.root>> : m \in Messages}
            \cup {"ping", "alert"} \X PING_TYPES

(* value_fn of the entities that p makes for a device.                     *)
Shows(p, s) == CASE p = "sensor"        -> <<s.battery, s.wifi>>
                 [] p = "binary_sensor" -> <<s.motor_fail>>
                 [] OTHER               -> << >>

NeverAsked == [pd \in Platforms \X Devices |-> 0]
NotShown   == [pd \in Platforms \X Devices |-> << >>]
NotSaid    == [s \in Things |-> 0]

Init ==
    /\ known = {}
    /\ state = [d \in Devices |-> NewDevice]
    /\ ready = {} /\ asked = NeverAsked /\ added = {} /\ shown = NotShown
    /\ seen = {} /\ said = NotSaid /\ heard = {}
    /\ missed = {} /\ behind = {}
    /\ stored = << >>
    /\ reloads = 0

-----------------------------------------------------------------------------
\* Mutant of SetUp: the platform only waits to be told of new devices.
SetUpSubscribes(p) ==
    /\ p \notin ready
    /\ ready' = ready \cup {p}
    /\ UNCHANGED <<known, state, asked, added, shown, novelty, lost, stored, reloads>>

(* async_setup_entry of a platform, which suspends nowhere: the devices    *)
(* there are, and from now on SIGNAL_NEW_DEVICE.                           *)
SetUp(p) ==
    /\ p \notin ready
    /\ ready' = ready \cup {p}
    /\ asked' = [pd \in DOMAIN asked |->
                   IF pd[1] = p /\ pd[2] \in known THEN asked[pd] + 1 ELSE asked[pd]]
    /\ UNCHANGED <<known, state, added, shown, novelty, lost, stored, reloads>>

(* The entities are added: they subscribe and write their state.           *)
EntityAdded(p, d) ==
    /\ asked[p, d] > 0
    /\ <<p, d>> \notin added
    /\ added' = added \cup {<<p, d>>}
    /\ behind' = behind \ {<<p, d>>}
    /\ shown' = [shown EXCEPT ![<<p, d>>] = Shows(p, state[d])]
    /\ UNCHANGED <<known, state, ready, asked, novelty, missed, stored, reloads>>

\* Mutant of Updated: it is the news of a device that makes its entities write.
UpdatedIfNew(touched, new) ==
    shown' = [pd \in DOMAIN shown |-> IF pd \in added /\ pd[2] \in touched \cap new
                                      THEN Shows(pd[1], state'[pd[2]])
                                      ELSE shown[pd]]

(* signal_device_update of the devices touched.                            *)
Updated(touched, new) ==
    shown' = [pd \in DOMAIN shown |-> IF pd \in added /\ pd[2] \in touched
                                      THEN Shows(pd[1], state'[pd[2]])
                                      ELSE shown[pd]]

(* DeviceState.apply: what the message mentions, and the fault that a      *)
(* primary run with a current clears.                                      *)
Applied(s, r) ==
    [s EXCEPT !.battery    = IF r.battery = Unknown THEN @ ELSE r.battery,
              !.motor_fail = IF r.pump = "primary" /\ r.current = "1" THEN "off"
                             ELSE IF r.motor_fail = Unknown THEN @ ELSE r.motor_fail]

(* A current that is JSON text passes the parser and cannot be compared    *)
(* with the threshold, the last thing that apply() does: TypeError, with   *)
(* all of the above done but the clearing.                                 *)
apply_raises(parsed) ==
    /\ parsed.kind = "bbs"
    /\ parsed.pump = "primary"
    /\ parsed.current = "text"

(* apply_ping of each of the items, in order: the last one stays.          *)
Pinged(d, s, items) ==
    LET mine == {i \in DOMAIN items : /\ items[i].device = d
                                     /\ items[i].type = PING_WIFI_RSSI}
    IN  IF mine = {} THEN s ELSE [s EXCEPT !.wifi = items[Max(mine)].value]

TouchedBy(parsed) ==
    CASE parsed.kind = "bbs"   -> {parsed.device_id}
      [] parsed.kind = "pings" -> {i.device : i \in ToSet(parsed.items)}
      [] OTHER                 -> {}

(* _record(): device_for() and apply() or apply_ping() for what the message*)
(* touches ...                                                             *)
Learnt(parsed) ==
    LET touched == TouchedBy(parsed) IN
    /\ known' = known \cup touched
    /\ state' = [d \in Devices |->
                   IF d \notin touched THEN state[d]
                   ELSE IF parsed.kind = "bbs" THEN Applied(state[d], parsed)
                   ELSE Pinged(d, state[d], parsed.items)]

(* ... then devices not known before are announced, and all write.         *)
Announced(parsed) ==
    LET touched == TouchedBy(parsed)
        new     == touched \ known
    IN  /\ asked' = [pd \in DOMAIN asked |->
                       IF pd[1] \in ready /\ pd[2] \in new THEN asked[pd] + 1
                                                           ELSE asked[pd]]
        /\ Updated(touched, new)
        /\ behind' = behind \ (Platforms \X touched)

(* note() and _say(): a warning at the first sighting, debug after it.     *)
Note(path, parsed) ==
    LET sightings == Sightings(path, parsed) IN
    /\ said' = [s \in Things |-> IF s \in sightings \ seen THEN said[s] + 1 ELSE said[s]]
    /\ seen' = seen \cup sightings

(* History: what the message holds that nothing here reads.                *)
Unread(path, body, parsed) ==
    IF path.root \notin PARSER_PATHS \cup ANSWERED_NOT_READ THEN {<<"path", path.root>>}
    ELSE IF parsed = None THEN {}
    ELSE CASE path.root = "/bbs_json" ->
                {<<"bbs field", x>> : x \in {x \in {"other"} : body.fields[x] # "absent"}}
           [] path.root = "/pings" ->
                {<<"ping", e.type>> : e \in {e \in ToSet(body.entries) :
                                               /\ e.type # PING_WIFI_RSSI
                                               /\ e.value \in Numbers \cup {"0000"}}}
           [] OTHER -> {<<"alert", e.type>> : e \in ToSet(body.entries)}

(* handle(), from the end of the relay.                                    *)
Handled(m) ==
    LET parsed == parse_request(m.path, m.body) IN
    /\ ~apply_raises(parsed)
    /\ Learnt(parsed)
    /\ Announced(parsed)
    /\ Note(m.path, parsed)
    /\ heard' = heard \cup Unread(m.path, m.body, parsed)
    /\ UNCHANGED <<ready, added, missed, stored, reloads>>

(* Likewise, but apply() raises: nothing catches it before aiohttp, which  *)
(* answers 500.  The device has learnt of it; nobody is told.              *)
CutShort(m) ==
    LET parsed == parse_request(m.path, m.body) IN
    /\ apply_raises(parsed)
    /\ Learnt(parsed)
    /\ missed' = missed \cup (ready \X (TouchedBy(parsed) \ known))
    /\ behind' = behind \cup {pd \in added : pd[2] \in TouchedBy(parsed)}
    /\ UNCHANGED <<entities, novelty, stored, reloads>>

(* ClearPumpFailure.async_press.                                           *)
ClearPumpFailure(d) ==
    /\ <<"button", d>> \in added
    /\ state' = [state EXCEPT ![d].motor_fail = "off"]
    /\ Updated({d}, {})
    /\ behind' = behind \ (Platforms \X {d})
    /\ UNCHANGED <<known, ready, asked, added, novelty, missed, stored, reloads>>

(* A delayed save, or the flush of an unload.  When a save is pending is   *)
(* Telemetry's and Lifecycle's subject.                                    *)
Saved ==
    /\ reloads < MaxReloads
    /\ stored' = [d \in known |-> state[d].motor_fail]
    /\ UNCHANGED <<known, state, entities, novelty, lost, reloads>>

(* A reload or a restart, up to the listener: a new runtime with the       *)
(* devices of the file as they are there, entities and Novelties from the  *)
(* beginning.                                                              *)
Reload ==
    /\ reloads < MaxReloads
    /\ reloads' = reloads + 1
    /\ known' = DOMAIN stored
    /\ state' = [d \in Devices |-> IF d \in DOMAIN stored THEN Restored(stored[d])
                                                          ELSE NewDevice]
    /\ ready' = {} /\ asked' = NeverAsked /\ added' = {} /\ shown' = NotShown
    /\ seen' = {} /\ said' = NotSaid /\ heard' = {}
    /\ missed' = {} /\ behind' = {}
    /\ UNCHANGED stored

Next ==
    \/ \E p \in Platforms : SetUp(p)
    \/ \E p \in Platforms, d \in Devices : EntityAdded(p, d)
    \/ \E m \in Messages : Handled(m) \/ CutShort(m)
    \/ \E d \in Devices : ClearPumpFailure(d)
    \/ Saved
    \/ Reload

Spec == Init /\ [][Next]_vars

-----------------------------------------------------------------------------
(* Every variable has its type, and a device is known before any platform  *)
(* asks for its entities.                                                  *)
TypeOK ==
    /\ known \subseteq Devices
    /\ state \in [Devices -> [battery    : Numbers \cup {Unknown},
                              wifi       : Numbers \cup {Unknown},
                              motor_fail : {"on", "off", Unknown}]]
    /\ ready \subseteq Platforms
    /\ asked \in [Platforms \X Devices -> Nat]
    /\ \A pd \in DOMAIN asked : asked[pd] > 0 => pd[2] \in known
    /\ added \subseteq DOMAIN asked
    /\ DOMAIN shown = DOMAIN asked
    /\ seen \subseteq Things
    /\ said \in [Things -> Nat]
    /\ heard \subseteq Things
    /\ missed \subseteq ready \X known
    /\ behind \subseteq added
    /\ DOMAIN stored \subseteq Devices
    /\ \A d \in DOMAIN stored : stored[d] \in {"on", "off", Unknown}
    /\ reloads \in 0 .. MaxReloads

(* However messages, restores and the set-up of platforms interleave, each *)
(* platform asks for the entities of each known device exactly once: not   *)
(* never, and not twice (_record's SIGNAL_NEW_DEVICE, async_setup_entry of *)
(* the platforms, is_new of device_for).  A device whose very first message*)
(* was cut short is never announced to the platforms that were there.      *)
EveryDeviceIsAskedForOnce ==
    \A p \in ready, d \in Devices :
        asked[p, d] = IF d \in known /\ <<p, d>> \notin missed THEN 1 ELSE 0

(* An entity never shows anything but what is known of its device now: no  *)
(* message, no press and no late addition leaves it behind (entity.py,     *)
(* signal_device_update; DeviceState is shared, not copied), but a message *)
(* that was cut short, until the next one or a press.                      *)
EntitiesShowLatest ==
    \A pd \in added \ behind : shown[pd] = Shows(pd[1], state[pd[2]])

(* Promised by handle() and core/novelty.py: what the device says and      *)
(* nothing here reads is warned about once in the life of a runtime,       *)
(* however often it comes and by whichever devices -- of the messages that *)
(* are handled to their end.                                               *)
UnreadIsSaidOnce ==
    \A s \in Things : said[s] = IF s \in heard THEN 1 ELSE 0

(* Which field on the wire each part of a reading is read from.            *)
Source == [device_time |-> "utcunixtime", battery |-> "battery_voltage",
           motor_fail |-> "motor_fail", pump |-> "motor", duration |-> "time",
           current |-> "mamp", unknown |-> "other"]

read(d, f) == parse_request([root |-> "/bbs_json", id |-> FALSE],
                            [device |-> d, fields |-> f])

bad(f) == {x \in Fields : f[x] \in Malformed}

(* Had the numbers been written well, every other part of the reading      *)
(* would be the same.  The exception is a run whose duration is not        *)
(* finite, which costs the message.                                        *)
ReadsAround(d, f) ==
    LET well == read(d, [x \in Fields |-> IF x \in bad(f) THEN "1" ELSE f[x]]) IN
    well # None /\ ~(f["motor"] # "absent" /\ f["time"] = "1.#INF00") =>
        /\ read(d, f) # None
        /\ \A part \in DOMAIN Source :
             Source[part] \notin bad(f) => read(d, f)[part] = well[part]

(* Likewise of a /pings body: the entries with a number are all read.      *)
PingsReadAround(entries) ==
    LET r == parse_request([root |-> "/pings", id |-> FALSE], [entries |-> entries]) IN
    (\A i \in DOMAIN entries : entries[i].value # "text") =>
        /\ r # None
        /\ \A i \in DOMAIN entries :
             entries[i].value \in Numbers => entries[i] \in ToSet(r.items)

(* A function, so that TLC evaluates it once.                              *)
Understood == [d \in Devices |->
    /\ \A f \in WireBodies : ReadsAround(d, f)
    /\ \A entries \in PingBodies :
         (\E i \in DOMAIN entries : entries[i].device = d) => PingsReadAround(entries)]

(* The repair in parse_request(): numbers that the device could not format *)
(* cost no more than themselves, in whatever number and places they stand  *)
(* in what a device that reports may send.                                 *)
MalformedNumberCostsItself == \A d \in known : Understood[d]
=============================================================================
