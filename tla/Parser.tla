------------------------------- MODULE Parser -------------------------------
(***************************************************************************)
(* core/parser.py: the bodies the device sends, with what its printf() can *)
(* make of a number, and what parse_request() reads out of them.           *)
(*                                                                         *)
(* loaded is read as battery_voltage is, ac_power and high_water as        *)
(* motor_fail is, recordNumber as idPumpAlertType is.  The device always   *)
(* names itself and writes types as numbers.  A query string changes       *)
(* nothing and is left out.                                                *)
(***************************************************************************)
EXTENDS Naturals, Sequences, SequencesExt

Numbers   == {"0", "1"}                 \* a number, as JSON has it; "1" is not 0
Malformed == {"1.#INF00", "0000"}       \* a number, as JSON does not have it
Written   == {"absent", "null", "text"} \cup Numbers \cup Malformed

(* The outer utcunixtime and the fields of the inner object; "other" is a  *)
(* field outside _KNOWN_BBS_FIELDS.                                        *)
Fields == {"utcunixtime", "battery_voltage", "motor_fail", "motor", "time", "mamp",
           "other"}

Unknown == "unknown"            \* Python's None, of a single reading
None    == [kind |-> "none"]    \* Python's None, of a whole message

\* Mutant of repaired: only what is not finite is repaired.
repaired_non_finite(w) == IF w = "1.#INF00" THEN "null" ELSE w

(* The two substitutions on the raw bytes, of which each turns one kind of *)
(* malformed number into something that is JSON.                           *)
repaired(w) == CASE w = "1.#INF00" -> "null"
                 [] w = "0000"     -> "0"
                 [] OTHER          -> w

-----------------------------------------------------------------------------
device_time(w) == IF w = "1" THEN w ELSE Unknown

volts(w) == IF w \in Numbers THEN w ELSE Unknown

\* Mutant of flag: the number is taken as it is.
flag_raw(w) == IF w = "absent" THEN Unknown ELSE w

flag(w) == CASE w \in {"absent", "null"} -> Unknown
             [] w = "0"                  -> "off"
             [] OTHER                    -> "on"

(* Whether it raises: in json.loads, at `time` or `mamp` of a run, or at a *)
(* voltage that is no number.                                              *)
bbs_json_raises(f) ==
    \/ \E x \in Fields : f[x] \in Malformed
    \/ f["battery_voltage"] = "text"
    \/ f["motor"] # "absent" /\ (f["time"] \notin Numbers \/ f["mamp"] = "absent")

(* The fields of a BbsReading; of a message without a run the run's are    *)
(* unknown.                                                                *)
parse_bbs_json(device, f) ==
    LET ran == f["motor"] # "absent" IN
    IF bbs_json_raises(f) THEN None
    ELSE [kind        |-> "bbs",
          device_id   |-> device,
          device_time |-> device_time(f["utcunixtime"]),
          battery     |-> volts(f["battery_voltage"]),
          motor_fail  |-> flag(f["motor_fail"]),
          pump        |-> IF ~ran THEN Unknown
                          ELSE IF f["motor"] = "1" THEN "primary" ELSE "backup",
          duration    |-> IF ran THEN f["time"] ELSE Unknown,
          current     |-> IF ran /\ f["mamp"] # "null" THEN f["mamp"] ELSE Unknown,
          unknown     |-> f["other"] # "absent"]

(* A ping or an alert: which device, which type, and the value as written. *)
(* The pings that are read keep their places, and so their order.          *)
parse_pings(entries) ==
    IF \E i \in DOMAIN entries : entries[i].value \in Malformed \cup {"text"}
    THEN None
    ELSE LET valued == {i \in DOMAIN entries : entries[i].value \notin {"absent", "null"}}
         IN  [kind |-> "pings", items |-> [i \in valued |-> entries[i]]]

parse_pump_alerts(entries) ==
    IF \E i \in DOMAIN entries : entries[i].value \notin Numbers
    THEN None
    ELSE [kind |-> "alerts", items |-> entries]

-----------------------------------------------------------------------------
(* A path is its segments up to a trailing device id, and whether there is *)
(* one; the parsers are found by the whole path.                           *)
PARSER_PATHS == {"/bbs_json", "/pings", "/pump_outlet_alerts"}

parser(path, body) ==
    CASE path.root = "/bbs_json" -> parse_bbs_json(body.device, body.fields)
      [] path.root = "/pings"    -> parse_pings(body.entries)
      [] OTHER                   -> parse_pump_alerts(body.entries)

(* re.sub over the whole body.                                             *)
repaired_fields(f) == [x \in Fields |-> repaired(f[x])]

repaired_entries(entries) ==
    [i \in DOMAIN entries |-> [entries[i] EXCEPT !.value = repaired(@)]]

repaired_body(path, body) ==
    IF path.root = "/bbs_json"
    THEN [body EXCEPT !.fields = repaired_fields(@)]
    ELSE [body EXCEPT !.entries = repaired_entries(@)]

parse_request(path, body) ==
    IF path.id \/ path.root \notin PARSER_PATHS
    THEN None
    ELSE LET parsed == parser(path, body) IN
         IF parsed # None THEN parsed ELSE parser(path, repaired_body(path, body))
=============================================================================
