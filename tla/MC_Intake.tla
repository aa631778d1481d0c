----------------------------- MODULE MC_Intake ------------------------------
(* Two devices, and one message of each kind that Intake tells apart.      *)
EXTENDS Intake

Path(root) == [root |-> root, id |-> FALSE]
WithId(root) == [root |-> root, id |-> TRUE]

Nothing == [x \in Fields |-> "absent"]

Bbs(d, fields) == [path |-> Path("/bbs_json"), body |-> [device |-> d, fields |-> fields]]

Entry(d, type, value) == [device |-> d, type |-> type, value |-> value]
Pings(entries)  == [path |-> Path("/pings"), body |-> [entries |-> entries]]
Alerts(entries) == [path |-> Path("/pump_outlet_alerts"), body |-> [entries |-> entries]]
Unparsed(path)  == [path |-> path, body |-> << >>]

MC_Messages ==
    {Bbs("d1", [Nothing EXCEPT !["battery_voltage"] = "0", !["other"] = "0000"]),
     Bbs("d1", [Nothing EXCEPT !["utcunixtime"] = "1.#INF00", !["motor_fail"] = "1"]),
     Bbs("d1", [Nothing EXCEPT !["motor"] = "1", !["time"] = "1", !["mamp"] = "1"]),
     Bbs("d1", [Nothing EXCEPT !["motor"] = "1", !["time"] = "1.#INF00", !["mamp"] = "1"]),
     Bbs("d1", [Nothing EXCEPT !["motor_fail"] = "1", !["motor"] = "1", !["time"] = "1",
                               !["mamp"] = "text", !["other"] = "1"]),
     Pings(<<Entry("d1", "3", "1"), Entry("d2", "1", "0")>>),
     Pings(<<Entry("d2", "1", "1.#INF00"), Entry("d2", "3", "0000")>>),
     Alerts(<<Entry("d1", "105", "0"), Entry("d2", "3", "0000")>>),
     Alerts(<<Entry("d1", "3", "1.#INF00")>>),
     Unparsed(Path("/tm")),
     Unparsed(Path("/new")),
     Unparsed(WithId("/new")),
     Unparsed(WithId("/bbs_json"))}

MC_WireBodies ==
    {f \in [Fields -> Written] :
        /\ f["utcunixtime"] \in {"absent", "1", "1.#INF00", "0000"}
        /\ f["motor_fail"] \in {"absent", "1", "1.#INF00"}
        /\ f["motor"] \in {"absent", "0", "1", "0000"}
        /\ f["time"] \in {"absent", "1", "1.#INF00", "0000"}
        /\ f["mamp"] \in {"absent", "1", "null", "1.#INF00"}
        /\ f["other"] \in {"absent", "0000"}}

MC_PingBodies ==
    LET entry == [device : {"d1"}, type : {"1", "3"}, value : Written]
    IN  UNION {[1 .. n -> entry] : n \in 1 .. 2}
=============================================================================
