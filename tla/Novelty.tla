------------------------------- MODULE Novelty ------------------------------
(***************************************************************************)
(* core/novelty.py: what about a message is unfamiliar, as <<kind, key>>.  *)
(***************************************************************************)
EXTENDS Parser

PING_WIFI_RSSI == "1"

ANSWERED_NOT_READ == {"/tm", "/oauth/token", "/new_firmware", "/bbs_parameters"}

EXPECTED_UNPARSED == ANSWERED_NOT_READ \cup PARSER_PATHS

\* Mutant of Sightings: alerts are parsed and then dropped on the floor.
SightingsNoAlerts(path, parsed) ==
    CASE parsed = None -> IF path.root \in EXPECTED_UNPARSED THEN {}
                          ELSE {<<"path", path.root>>}
      [] parsed.kind = "bbs" -> IF parsed.unknown THEN {<<"bbs field", "other">>} ELSE {}
      [] parsed.kind = "pings" ->
            {<<"ping", i.type>> : i \in {i \in ToSet(parsed.items) : i.type # PING_WIFI_RSSI}}
      [] OTHER -> {}

(* What note() passes to _say(): a path by its root, as _root() strips the *)
(* device id whether or not the rest is known.                             *)
Sightings(path, parsed) ==
    CASE parsed = None -> IF path.root \in EXPECTED_UNPARSED THEN {}
                          ELSE {<<"path", path.root>>}
      [] parsed.kind = "bbs" -> IF parsed.unknown THEN {<<"bbs field", "other">>} ELSE {}
      [] parsed.kind = "pings" ->
            {<<"ping", i.type>> : i \in {i \in ToSet(parsed.items) : i.type # PING_WIFI_RSSI}}
      [] OTHER -> {<<"alert", i.type>> : i \in ToSet(parsed.items)}
=============================================================================
