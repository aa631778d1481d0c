---------------------------- MODULE IntakeProofs ----------------------------
(***************************************************************************)
(* For any devices and any messages, those that are cut short among them:  *)
(* each platform asks for the entities of each known device exactly once,  *)
(* no entity shows anything but what is known now, what nobody reads is    *)
(* warned about once, and a malformed number costs no more than itself.    *)
(* What a message that is cut short takes away from this is exactly what   *)
(* missed, behind and heard say.                                           *)
(*                                                                         *)
(* Asking once is inductive when it is said of the platforms that are not  *)
(* set up too, which must not have asked, and nothing was missed but by a  *)
(* platform for a known device (AskedInv).  What the entities show is      *)
(* inductive beside the domains of the functions it reads (Domains).       *)
(* Warning once needs that what note() sees is what nobody reads, and that *)
(* it remembers just that (SaidInv).  The types and the malformed numbers  *)
(* rest on what the parsers make of every body the device may send.        *)
(***************************************************************************)
EXTENDS Intake, WellFoundedInduction, TLAPS

AskedInv ==
    /\ ready \subseteq Platforms
    /\ missed \subseteq ready \X known
    /\ asked = [pd \in Platforms \X Devices |->
                  IF pd[1] \in ready /\ pd[2] \in known /\ pd \notin missed THEN 1 ELSE 0]

LEMMA InitAsked == Init => AskedInv
BY DEF Init, NeverAsked, AskedInv

LEMMA AnnouncedAsked ==
    ASSUME AskedInv, NEW parsed, Learnt(parsed), Announced(parsed),
           UNCHANGED <<ready, missed>>
    PROVE  AskedInv'
<1> DEFINE touched == TouchedBy(parsed)
           new     == touched \ known
<1>1. known' = known \cup touched
  BY DEF Learnt
<1>2. asked' = [pd \in Platforms \X Devices |->
                  IF pd[1] \in ready /\ pd[2] \in new THEN asked[pd] + 1
                                                      ELSE asked[pd]]
  BY DEF Announced, AskedInv
<1> HIDE DEF touched
<1>3. ASSUME NEW pd \in Platforms \X Devices
      PROVE  (IF pd[1] \in ready /\ pd[2] \in new THEN asked[pd] + 1 ELSE asked[pd])
               = IF pd[1] \in ready' /\ pd[2] \in known' /\ pd \notin missed' THEN 1 ELSE 0
  <2>1. pd \in missed => pd[2] \in known
    BY DEF AskedInv
  <2> QED
    BY <1>1, <2>1 DEF AskedInv
<1>4. missed' \subseteq ready' \X known'
  BY <1>1 DEF AskedInv
<1> QED
  BY <1>2, <1>3, <1>4 DEF AskedInv

(* A message cut short makes its device known and misses to announce it to *)
(* just the platforms there are.                                           *)
LEMMA CutShortAsked ==
    ASSUME AskedInv, NEW m \in Messages, CutShort(m)
    PROVE  AskedInv'
<1> DEFINE touched == TouchedBy(parse_request(m.path, m.body))
           new     == touched \ known
<1>1. /\ known' = known \cup touched
      /\ missed' = missed \cup (ready \X new)
      /\ ready' = ready /\ asked' = asked
  BY DEF CutShort, Learnt, entities
<1> HIDE DEF touched
<1>2. ASSUME NEW pd \in Platforms \X Devices
      PROVE  (pd[1] \in ready /\ pd[2] \in known /\ pd \notin missed)
               <=> (pd[1] \in ready' /\ pd[2] \in known' /\ pd \notin missed')
  <2>1. pd \in missed => pd[2] \in known
    BY DEF AskedInv
  <2>2. pd \in ready \X new <=> pd[1] \in ready /\ pd[2] \in new
    OBVIOUS
  <2> QED
    BY <1>1, <2>1, <2>2
<1>3. missed' \subseteq ready' \X known'
  BY <1>1 DEF AskedInv
<1> QED
  BY <1>1, <1>2, <1>3 DEF AskedInv

LEMMA StepAsked == AskedInv /\ [Next]_vars => AskedInv'
<1> SUFFICES ASSUME AskedInv, [Next]_vars PROVE AskedInv'
  OBVIOUS
<1>1. ASSUME NEW p \in Platforms, SetUp(p) PROVE AskedInv'
  <2>1. /\ asked' = [pd \in Platforms \X Devices |->
                       IF pd[1] = p /\ pd[2] \in known THEN asked[pd] + 1 ELSE asked[pd]]
        /\ p \notin ready /\ ready' = ready \cup {p}
        /\ known' = known /\ missed' = missed
    BY <1>1 DEF SetUp, AskedInv, lost
  <2>2. ASSUME NEW pd \in Platforms \X Devices
        PROVE  (IF pd[1] = p /\ pd[2] \in known THEN asked[pd] + 1 ELSE asked[pd])
                 = IF pd[1] \in ready' /\ pd[2] \in known' /\ pd \notin missed'
                   THEN 1 ELSE 0
    <3>1. pd \in missed => pd[1] \in ready
      BY DEF AskedInv
    <3> QED
      BY <2>1, <3>1 DEF AskedInv
  <2> QED
    BY <2>1, <2>2 DEF AskedInv
<1>2. ASSUME NEW p \in Platforms, NEW d \in Devices, EntityAdded(p, d) PROVE AskedInv'
  BY <1>2 DEF EntityAdded, AskedInv
<1>3. ASSUME NEW m \in Messages, Handled(m) PROVE AskedInv'
  BY <1>3, AnnouncedAsked DEF Handled
<1>4. ASSUME NEW m \in Messages, CutShort(m) PROVE AskedInv'
  BY <1>4, CutShortAsked
<1>5. ASSUME NEW d \in Devices, ClearPumpFailure(d) PROVE AskedInv'
  BY <1>5 DEF ClearPumpFailure, AskedInv
<1>6. CASE Saved
  BY <1>6 DEF Saved, entities, lost, AskedInv
<1>7. CASE Reload
  BY <1>7 DEF Reload, NeverAsked, AskedInv
<1>8. CASE UNCHANGED vars
  BY <1>8 DEF vars, entities, lost, AskedInv
<1> QED
  BY <1>1, <1>2, <1>3, <1>4, <1>5, <1>6, <1>7, <1>8 DEF Next

(* A device found while platforms are being set up gets its entities from  *)
(* the loop over runtime.devices or from SIGNAL_NEW_DEVICE, never from     *)
(* both, and from neither only if its first message was cut short.         *)
THEOREM AskedExactlyOnce == Spec => []EveryDeviceIsAskedForOnce
<1>1. ASSUME AskedInv, NEW p \in ready, NEW d \in Devices
      PROVE  asked[p, d] = IF d \in known /\ <<p, d>> \notin missed THEN 1 ELSE 0
  <2>1. <<p, d>> \in Platforms \X Devices
    BY <1>1 DEF AskedInv
  <2> QED
    BY <1>1, <2>1 DEF AskedInv
<1>2. AskedInv => EveryDeviceIsAskedForOnce
  BY <1>1 DEF EveryDeviceIsAskedForOnce
<1> QED
  BY InitAsked, StepAsked, <1>2, PTL DEF Spec

-----------------------------------------------------------------------------
Domains ==
    /\ added \subseteq Platforms \X Devices
    /\ behind \subseteq added
    /\ DOMAIN shown = Platforms \X Devices
    /\ DOMAIN state = Devices

ShownInv == Domains /\ EntitiesShowLatest

(* A dispatch to touched brings the entities of touched up to date, so all *)
(* but those left behind are, when nothing else has changed.               *)
LEMMA UpdatedShows ==
    ASSUME ShownInv, NEW touched, NEW new, Updated(touched, new), UNCHANGED added,
           behind' = behind \ (Platforms \X touched),
           DOMAIN state' = Devices,
           \A d \in Devices \ touched : state'[d] = state[d]
    PROVE  ShownInv'
<1>1. shown' = [pd \in Platforms \X Devices |->
                  IF pd \in added /\ pd[2] \in touched THEN Shows(pd[1], state'[pd[2]])
                                                       ELSE shown[pd]]
  BY DEF Updated, ShownInv, Domains
<1>2. Domains'
  BY <1>1 DEF ShownInv, Domains
<1>3. ASSUME NEW pd \in added' \ behind'
      PROVE  shown'[pd] = Shows(pd[1], state'[pd[2]])
  <2>1. pd \in Platforms \X Devices /\ pd[2] \in Devices /\ pd \in added
    BY DEF ShownInv, Domains
  <2>2. CASE pd[2] \in touched
    BY <1>1, <2>1, <2>2
  <2>3. CASE pd[2] \notin touched
    <3>1. shown'[pd] = shown[pd] /\ state'[pd[2]] = state[pd[2]]
      BY <1>1, <2>1, <2>3
    <3>2. pd \notin Platforms \X touched
      BY <2>3
    <3>3. pd \in added \ behind
      BY <1>3, <2>1, <3>2
    <3>4. shown[pd] = Shows(pd[1], state[pd[2]])
      BY <3>3 DEF ShownInv, EntitiesShowLatest
    <3> QED
      BY <3>1, <3>4
  <2> QED
    BY <2>2, <2>3
<1>4. EntitiesShowLatest'
  BY <1>3 DEF EntitiesShowLatest, Shows
<1> QED
  BY <1>2, <1>4 DEF ShownInv

(* Nothing is written when a message is cut short: the entities of its     *)
(* device are left behind, the others show what they did.                  *)
LEMMA CutShortShows ==
    ASSUME ShownInv, NEW m \in Messages, CutShort(m)
    PROVE  ShownInv'
<1> DEFINE parsed == parse_request(m.path, m.body)
           touched == TouchedBy(parsed)
<1>1. /\ behind' = behind \cup {pd \in added : pd[2] \in touched}
      /\ added' = added /\ shown' = shown
      /\ Learnt(parsed)
  BY DEF CutShort, entities
<1> HIDE DEF parsed
<1>2. /\ DOMAIN state' = Devices
      /\ \A d \in Devices \ touched : state'[d] = state[d]
  BY <1>1 DEF Learnt
<1>3. Domains'
  BY <1>1, <1>2 DEF ShownInv, Domains
<1>4. ASSUME NEW pd \in added' \ behind'
      PROVE  shown'[pd] = Shows(pd[1], state'[pd[2]])
  <2>1. pd \in added \ behind /\ pd[2] \notin touched
    BY <1>1
  <2>2. pd[2] \in Devices
    BY <2>1 DEF ShownInv, Domains
  <2>3. shown[pd] = Shows(pd[1], state[pd[2]])
    BY <2>1 DEF ShownInv, EntitiesShowLatest
  <2> QED
    BY <1>1, <1>2, <2>1, <2>2, <2>3
<1>5. EntitiesShowLatest'
  BY <1>4 DEF EntitiesShowLatest, Shows
<1> QED
  BY <1>3, <1>5 DEF ShownInv

LEMMA StepShown == ShownInv /\ [Next]_vars => ShownInv'
<1> SUFFICES ASSUME ShownInv, [Next]_vars PROVE ShownInv'
  OBVIOUS
<1>1. ASSUME NEW p \in Platforms, SetUp(p) PROVE ShownInv'
  BY <1>1 DEF SetUp, lost, ShownInv, Domains, EntitiesShowLatest, Shows
<1>2. ASSUME NEW p \in Platforms, NEW d \in Devices, EntityAdded(p, d) PROVE ShownInv'
  <2>1. /\ added' = added \cup {<<p, d>>}
        /\ behind' = behind \ {<<p, d>>}
        /\ shown' = [shown EXCEPT ![<<p, d>>] = Shows(p, state[d])]
        /\ state' = state
    BY <1>2 DEF EntityAdded
  <2>2. Domains'
    BY <2>1 DEF ShownInv, Domains
  <2>3. ASSUME NEW pd \in added' \ behind'
        PROVE  shown'[pd] = Shows(pd[1], state'[pd[2]])
    <3>1. CASE pd = <<p, d>>
      BY <2>1, <3>1 DEF ShownInv, Domains
    <3>2. CASE pd # <<p, d>>
      <4>1. pd \in added \ behind /\ shown'[pd] = shown[pd]
        BY <2>1, <3>2 DEF ShownInv, Domains
      <4> QED
        BY <2>1, <4>1 DEF ShownInv, EntitiesShowLatest
    <3> QED
      BY <3>1, <3>2
  <2>4. EntitiesShowLatest'
    BY <2>3 DEF EntitiesShowLatest, Shows
  <2> QED
    BY <2>2, <2>4 DEF ShownInv
<1>3. ASSUME NEW m \in Messages, Handled(m) PROVE ShownInv'
  <2> DEFINE parsed == parse_request(m.path, m.body)
  <2>1. Learnt(parsed) /\ Announced(parsed) /\ added' = added
    BY <1>3 DEF Handled
  <2> HIDE DEF parsed
  <2>2. /\ Updated(TouchedBy(parsed), TouchedBy(parsed) \ known)
        /\ behind' = behind \ (Platforms \X TouchedBy(parsed))
        /\ DOMAIN state' = Devices
        /\ \A d \in Devices \ TouchedBy(parsed) : state'[d] = state[d]
    BY <2>1 DEF Learnt, Announced
  <2> QED
    BY <2>1, <2>2, UpdatedShows
<1>4. ASSUME NEW m \in Messages, CutShort(m) PROVE ShownInv'
  BY <1>4, CutShortShows
<1>5. ASSUME NEW d \in Devices, ClearPumpFailure(d) PROVE ShownInv'
  <2>1. /\ Updated({d}, {})
        /\ behind' = behind \ (Platforms \X {d})
        /\ added' = added
        /\ DOMAIN state' = Devices
        /\ \A e \in Devices \ {d} : state'[e] = state[e]
    BY <1>5 DEF ClearPumpFailure, ShownInv, Domains
  <2> QED
    BY <2>1, UpdatedShows
<1>6. CASE Saved
  BY <1>6 DEF Saved, entities, lost, ShownInv, Domains, EntitiesShowLatest, Shows
<1>7. CASE Reload
  BY <1>7 DEF Reload, NotShown, ShownInv, Domains, EntitiesShowLatest
<1>8. CASE UNCHANGED vars
  BY <1>8 DEF vars, entities, lost, ShownInv, Domains, EntitiesShowLatest, Shows
<1> QED
  BY <1>1, <1>2, <1>3, <1>4, <1>5, <1>6, <1>7, <1>8 DEF Next

(* Whatever is recorded, pressed or restored while entities are being      *)
(* added, each of them shows the present state of its device, unless the   *)
(* latest message of the device was cut short.                             *)
THEOREM EntitiesAlwaysCurrent == Spec => []EntitiesShowLatest
<1>1. Init => ShownInv
  BY DEF Init, NotShown, ShownInv, Domains, EntitiesShowLatest
<1>2. ShownInv => EntitiesShowLatest
  BY DEF ShownInv
<1> QED
  BY <1>1, <1>2, StepShown, PTL DEF Spec

-----------------------------------------------------------------------------
(* What the parser makes of a body, once the body has its type.            *)
Item == [device : Devices, type : PING_TYPES, value : Written]

LEMMA BodyTypes ==
    ASSUME NEW m \in Messages, ~m.path.id
    PROVE  /\ m.path.root = "/bbs_json" => m.body \in BbsBody
           /\ m.path.root \in {"/pings", "/pump_outlet_alerts"} =>
                m.body \in [entries : Seq(Item)]
BY IntakeAssumption DEF Item, Entries

LEMMA RepairedIs ==
    ASSUME NEW w \in Written
    PROVE  /\ repaired(w) \in Written /\ repaired(w) \notin Malformed
           /\ repaired(w) = "absent" <=> w = "absent"
           /\ repaired(w) = "text" <=> w = "text"
           /\ repaired(w) \in Numbers <=> w \in Numbers \cup {"0000"}
           /\ w \notin Malformed => repaired(w) = w
           /\ w = "0000" => repaired(w) \in Numbers
           /\ w = "1.#INF00" => repaired(w) = "null"
BY DEF repaired, Written, Malformed, Numbers

LEMMA NoneIs == None.kind = "none"
BY DEF None

LEMMA BbsParsed ==
    ASSUME NEW d, NEW f \in [Fields -> Written], parse_bbs_json(d, f) # None
    PROVE  LET p == parse_bbs_json(d, f) IN
           /\ p.kind = "bbs" /\ p.device_id = d
           /\ p.battery \in Numbers \cup {Unknown}
           /\ p.motor_fail \in {"on", "off", Unknown}
           /\ p.unknown <=> f["other"] # "absent"
BY DEF parse_bbs_json, volts, flag

LEMMA PingsParsed ==
    ASSUME NEW es, \A i \in DOMAIN es : es[i] \in Item, parse_pings(es) # None
    PROVE  LET p == parse_pings(es) IN
           /\ p.kind = "pings"
           /\ DOMAIN p.items = {i \in DOMAIN es : es[i].value \in Numbers}
           /\ \A i \in DOMAIN p.items : p.items[i] = es[i]
<1>1. \A i \in DOMAIN es : es[i].value \in Written
  BY DEF Item
<1>2. \A i \in DOMAIN es : es[i].value \notin Malformed \cup {"text"}
  BY DEF parse_pings
<1>3. \A i \in DOMAIN es : es[i].value \notin {"absent", "null"} <=> es[i].value \in Numbers
  BY <1>1, <1>2 DEF Written, Numbers, Malformed
<1>4. {i \in DOMAIN es : es[i].value \notin {"absent", "null"}}
        = {i \in DOMAIN es : es[i].value \in Numbers}
  BY <1>3
<1>5. parse_pings(es) = [kind  |-> "pings",
                         items |-> [i \in {i \in DOMAIN es : es[i].value \in Numbers}
                                      |-> es[i]]]
  BY <1>2, <1>4 DEF parse_pings
<1> QED
  BY <1>5

LEMMA AlertsParsed ==
    ASSUME NEW es, parse_pump_alerts(es) # None
    PROVE  parse_pump_alerts(es).kind = "alerts" /\ parse_pump_alerts(es).items = es
BY DEF parse_pump_alerts

(* The entries after the repair are the same in all but what was malformed.*)
LEMMA RepairedEntries ==
    ASSUME NEW es \in Seq(Item)
    PROVE  /\ DOMAIN repaired_entries(es) = DOMAIN es /\ DOMAIN es = 1 .. Len(es) /\ Len(es) \in Nat
           /\ \A i \in DOMAIN es :
                /\ es[i] \in Item /\ repaired_entries(es)[i] \in Item
                /\ repaired_entries(es)[i].type = es[i].type
                /\ repaired_entries(es)[i].device = es[i].device
                /\ repaired_entries(es)[i].value = repaired(es[i].value)
                /\ es[i].value \notin Malformed => repaired_entries(es)[i] = es[i]
<1>1. DOMAIN es = 1 .. Len(es) /\ Len(es) \in Nat /\ \A i \in DOMAIN es : es[i] \in Item
  OBVIOUS
<1>2. ASSUME NEW i \in DOMAIN es
      PROVE  /\ repaired_entries(es)[i] \in Item
             /\ repaired_entries(es)[i].type = es[i].type
             /\ repaired_entries(es)[i].device = es[i].device
             /\ repaired_entries(es)[i].value = repaired(es[i].value)
             /\ es[i].value \notin Malformed => repaired_entries(es)[i] = es[i]
  <2>1. es[i] \in Item /\ repaired_entries(es)[i] = [es[i] EXCEPT !.value = repaired(@)]
    BY <1>1 DEF repaired_entries
  <2>2. repaired(es[i].value) \in Written
    BY <2>1, RepairedIs DEF Item
  <2>3. es[i].value \notin Malformed => repaired(es[i].value) = es[i].value
    BY <2>1, RepairedIs DEF Item
  <2> QED
    BY <2>1, <2>2, <2>3 DEF Item
<1> QED
  BY <1>1, <1>2 DEF repaired_entries

(* parse_request(), by the kind of message: which body it reads.           *)
LEMMA BbsRequest ==
    ASSUME NEW path, ~path.id, path.root = "/bbs_json", NEW body \in BbsBody
    PROVE  \E g \in [Fields -> Written] :
             /\ parse_request(path, body) = parse_bbs_json(body.device, g)
             /\ \A x \in Fields : /\ g[x] = "absent" <=> body.fields[x] = "absent"
                                  /\ body.fields[x] \notin Malformed => g[x] = body.fields[x]
<1> DEFINE f == body.fields
           h == repaired_fields(f)
<1>1. f \in [Fields -> Written] /\ body.device = body.device
  BY DEF BbsBody
<1>2. h \in [Fields -> Written]
  BY <1>1, RepairedIs DEF repaired_fields
<1>3. \A x \in Fields : h[x] = "absent" <=> f[x] = "absent"
  BY <1>1, RepairedIs DEF repaired_fields
<1>4. \A x \in Fields : f[x] \notin Malformed => h[x] = f[x]
  BY <1>1, RepairedIs DEF repaired_fields
<1>5. /\ repaired_body(path, body).device = body.device
      /\ repaired_body(path, body).fields = h
  BY DEF repaired_body, BbsBody
<1> HIDE DEF f, h
<1>6. parse_request(path, body) = IF parse_bbs_json(body.device, f) # None
                                  THEN parse_bbs_json(body.device, f)
                                  ELSE parse_bbs_json(body.device, h)
  BY <1>5 DEF parse_request, parser, PARSER_PATHS, f
<1>7. CASE parse_bbs_json(body.device, f) # None
  BY <1>1, <1>6, <1>7 DEF f
<1>8. CASE parse_bbs_json(body.device, f) = None
  BY <1>2, <1>3, <1>4, <1>6, <1>8 DEF f
<1> QED
  BY <1>7, <1>8

LEMMA EntriesRequest ==
    ASSUME NEW path, ~path.id, path.root \in {"/pings", "/pump_outlet_alerts"},
           NEW body \in [entries : Seq(Item)]
    PROVE  LET parse(es) == IF path.root = "/pings" THEN parse_pings(es)
                                                    ELSE parse_pump_alerts(es) IN
           parse_request(path, body) = IF parse(body.entries) # None
                                       THEN parse(body.entries)
                                       ELSE parse(repaired_entries(body.entries))
<1> DEFINE b == repaired_body(path, body)
<1>1. b.entries = repaired_entries(body.entries)
  <2>1. b = [body EXCEPT !.entries = repaired_entries(body.entries)]
    BY DEF repaired_body
  <2> HIDE DEF b
  <2> QED
    BY <2>1
<1>2. parse_request(path, body) = LET parsed == parser(path, body) IN
                                  IF parsed # None THEN parsed ELSE parser(path, b)
  BY DEF parse_request, PARSER_PATHS
<1> HIDE DEF b
<1>3. CASE path.root = "/pings"
  <2>1. /\ parser(path, body) = parse_pings(body.entries)
        /\ parser(path, b) = parse_pings(repaired_entries(body.entries))
    BY <1>1, <1>3 DEF parser
  <2> QED
    BY <1>2, <1>3, <2>1
<1>4. CASE path.root = "/pump_outlet_alerts"
  <2>1. /\ parser(path, body) = parse_pump_alerts(body.entries)
        /\ parser(path, b) = parse_pump_alerts(repaired_entries(body.entries))
    BY <1>1, <1>4 DEF parser
  <2> QED
    BY <1>2, <1>4, <2>1
<1> QED
  BY <1>3, <1>4

-----------------------------------------------------------------------------
(* What note() calls unfamiliar is what nothing reads, for every message   *)
(* and however its body had to be repaired.                                *)
LEMMA SightingsAreUnread ==
    ASSUME NEW m \in Messages
    PROVE  LET parsed == parse_request(m.path, m.body) IN
           Sightings(m.path, parsed) = Unread(m.path, m.body, parsed)
<1> DEFINE parsed == parse_request(m.path, m.body)
<1>1. CASE parsed = None
  <2> HIDE DEF parsed
  <2>1. Sightings(m.path, parsed) = IF m.path.root \in EXPECTED_UNPARSED THEN {}
                                    ELSE {<<"path", m.path.root>>}
    BY <1>1, NoneIs DEF Sightings
  <2>2. Unread(m.path, m.body, parsed)
          = IF m.path.root \notin EXPECTED_UNPARSED THEN {<<"path", m.path.root>>} ELSE {}
    BY <1>1 DEF Unread, EXPECTED_UNPARSED
  <2>3. Sightings(m.path, parsed) = Unread(m.path, m.body, parsed)
    BY <2>1, <2>2
  <2> QED
    BY <2>3 DEF parsed
<1>2. parsed # None => ~m.path.id /\ m.path.root \in PARSER_PATHS
  BY DEF parse_request
<1>3. CASE parsed # None /\ ~m.path.id /\ m.path.root = "/bbs_json"
  <2>1. m.body \in BbsBody
    BY <1>3, BodyTypes
  <2>2. PICK g \in [Fields -> Written] :
           /\ parsed = parse_bbs_json(m.body.device, g)
           /\ \A x \in Fields : g[x] = "absent" <=> m.body.fields[x] = "absent"
    BY <1>3, <2>1, BbsRequest
  <2>3. parsed.kind = "bbs" /\ (parsed.unknown <=> g["other"] # "absent")
    BY <1>3, <2>2, BbsParsed
  <2>4. parsed.unknown <=> m.body.fields["other"] # "absent"
    BY <2>2, <2>3 DEF Fields
  <2> HIDE DEF parsed
  <2>5. Sightings(m.path, parsed) = IF parsed.unknown THEN {<<"bbs field", "other">>} ELSE {}
    BY <1>3, <2>3 DEF Sightings
  <2>6. Unread(m.path, m.body, parsed)
          = {<<"bbs field", x>> : x \in {x \in {"other"} : m.body.fields[x] # "absent"}}
    BY <1>3 DEF Unread, PARSER_PATHS
  <2>7. Sightings(m.path, parsed) = Unread(m.path, m.body, parsed)
    BY <2>4, <2>5, <2>6
  <2> QED
    BY <2>7 DEF parsed
<1>4. CASE parsed # None /\ ~m.path.id /\ m.path.root = "/pings"
  <2> DEFINE es == m.body.entries
  <2>1. m.body \in [entries : Seq(Item)] /\ es \in Seq(Item)
    BY <1>4, BodyTypes
  <2>2. parsed = IF parse_pings(es) # None THEN parse_pings(es)
                                           ELSE parse_pings(repaired_entries(es))
    BY <1>4, <2>1, EntriesRequest
  <2> HIDE DEF parsed, es
  <2>3. \A i \in DOMAIN es : es[i] \in Item /\ es[i].value \in Written
    BY <2>1, RepairedEntries DEF Item
  <2>4. /\ parsed.kind = "pings"
        /\ DOMAIN parsed.items = {i \in DOMAIN es : es[i].value \in Numbers \cup {"0000"}}
        /\ \A i \in DOMAIN parsed.items : parsed.items[i].type = es[i].type
    <3>1. CASE parse_pings(es) # None
      <4>1. \A i \in DOMAIN es : es[i].value # "0000"
        BY <3>1 DEF parse_pings, Malformed
      <4>2. {i \in DOMAIN es : es[i].value \in Numbers}
              = {i \in DOMAIN es : es[i].value \in Numbers \cup {"0000"}}
        BY <4>1
      <4> QED
        BY <2>2, <2>3, <3>1, <4>2, PingsParsed
    <3>2. CASE parse_pings(es) = None
      <4> DEFINE rs == repaired_entries(es)
      <4>1. /\ DOMAIN rs = DOMAIN es
            /\ \A i \in DOMAIN es : /\ rs[i] \in Item /\ rs[i].type = es[i].type
                                    /\ rs[i].value = repaired(es[i].value)
        BY <2>1, RepairedEntries
      <4>2. parsed = parse_pings(rs) /\ parse_pings(rs) # None
        BY <1>4, <2>2, <3>2
      <4> HIDE DEF rs
      <4>3. \A i \in DOMAIN es : rs[i].value \in Numbers <=>
                                 es[i].value \in Numbers \cup {"0000"}
        BY <2>3, <4>1, RepairedIs
      <4>4. {i \in DOMAIN rs : rs[i].value \in Numbers}
              = {i \in DOMAIN es : es[i].value \in Numbers \cup {"0000"}}
        BY <4>1, <4>3
      <4> QED
        BY <4>1, <4>2, <4>4, PingsParsed
    <3> QED
      BY <3>1, <3>2
  <2>5. Sightings(m.path, parsed)
          = {<<"ping", i.type>> : i \in {i \in ToSet(parsed.items) : i.type # PING_WIFI_RSSI}}
    BY <1>4, <2>4 DEF Sightings
  <2>6. Unread(m.path, m.body, parsed)
          = {<<"ping", e.type>> : e \in {e \in ToSet(es) : /\ e.type # PING_WIFI_RSSI
                                                            /\ e.value \in Numbers \cup {"0000"}}}
    BY <1>4 DEF Unread, PARSER_PATHS, es
  <2>7. Sightings(m.path, parsed) = Unread(m.path, m.body, parsed)
    <3> DEFINE unread == {i \in DOMAIN es : /\ es[i].value \in Numbers \cup {"0000"}
                                            /\ es[i].type # PING_WIFI_RSSI}
    <3>1. Sightings(m.path, parsed) = {<<"ping", parsed.items[i].type>> : i \in unread}
      BY <2>4, <2>5 DEF ToSet
    <3>2. Unread(m.path, m.body, parsed) = {<<"ping", es[i].type>> : i \in unread}
      BY <2>6 DEF ToSet
    <3> QED
      BY <2>4, <3>1, <3>2
  <2> QED
    BY <2>7 DEF parsed
<1>5. CASE parsed # None /\ ~m.path.id /\ m.path.root = "/pump_outlet_alerts"
  <2> DEFINE es == m.body.entries
  <2>1. m.body \in [entries : Seq(Item)] /\ es \in Seq(Item)
    BY <1>5, BodyTypes
  <2>2. parsed = IF parse_pump_alerts(es) # None THEN parse_pump_alerts(es)
                                                 ELSE parse_pump_alerts(repaired_entries(es))
    BY <1>5, <2>1, EntriesRequest
  <2> HIDE DEF parsed, es
  <2>3. /\ parsed.kind = "alerts" /\ DOMAIN parsed.items = DOMAIN es
        /\ \A i \in DOMAIN es : parsed.items[i].type = es[i].type
    BY <1>5, <2>1, <2>2, AlertsParsed, RepairedEntries
  <2>4. Sightings(m.path, parsed) = {<<"alert", i.type>> : i \in ToSet(parsed.items)}
    BY <1>5, <2>3 DEF Sightings
  <2>5. Unread(m.path, m.body, parsed) = {<<"alert", e.type>> : e \in ToSet(es)}
    BY <1>5 DEF Unread, PARSER_PATHS, es
  <2>6. Sightings(m.path, parsed) = Unread(m.path, m.body, parsed)
    BY <2>3, <2>4, <2>5 DEF ToSet
  <2> QED
    BY <2>6 DEF parsed
<1> QED
  BY <1>1, <1>2, <1>3, <1>4, <1>5 DEF PARSER_PATHS

(* So _seen is all the device has sent that nothing reads, and each such   *)
(* thing has had its warning.                                              *)
SaidInv ==
    /\ seen = heard
    /\ said = [s \in Things |-> IF s \in heard THEN 1 ELSE 0]

LEMMA StepSaid == SaidInv /\ [Next]_vars => SaidInv'
<1> SUFFICES ASSUME SaidInv, [Next]_vars PROVE SaidInv'
  OBVIOUS
<1>1. ASSUME NEW m \in Messages, Handled(m) PROVE SaidInv'
  <2> DEFINE sightings == Sightings(m.path, parse_request(m.path, m.body))
  <2>1. heard' = heard \cup sightings
    BY <1>1, SightingsAreUnread DEF Handled
  <2>2. /\ seen' = seen \cup sightings
        /\ said' = [s \in Things |-> IF s \in sightings \ seen THEN said[s] + 1 ELSE said[s]]
    BY <1>1 DEF Handled, Note
  <2> HIDE DEF sightings
  <2>3. \A s \in Things : (IF s \in sightings \ seen THEN said[s] + 1 ELSE said[s])
                            = IF s \in heard' THEN 1 ELSE 0
    BY <2>1 DEF SaidInv
  <2> QED
    BY <2>1, <2>2, <2>3 DEF SaidInv
<1>2. CASE Reload
  BY <1>2 DEF Reload, NotSaid, SaidInv
<1>3. CASE UNCHANGED novelty
  BY <1>3 DEF novelty, SaidInv
<1> QED
  BY <1>1, <1>2, <1>3 DEF Next, SetUp, EntityAdded, CutShort, ClearPumpFailure, Saved, vars

(* What the device says and nothing here reads is warned about once in the *)
(* life of a runtime: for every type of ping and alert, every field, every *)
(* path, and through every repair, in whatever message is not cut short.   *)
THEOREM SaidExactlyOnce == Spec => []UnreadIsSaidOnce
<1>1. Init => SaidInv
  BY DEF Init, NotSaid, SaidInv
<1>2. SaidInv => UnreadIsSaidOnce
  BY DEF SaidInv, UnreadIsSaidOnce
<1> QED
  BY <1>1, <1>2, StepSaid, PTL DEF Spec


-----------------------------------------------------------------------------
(* A body without malformed numbers is read as it stands.                  *)
LEMMA ReadIs ==
    ASSUME NEW d \in Devices, NEW f \in [Fields -> Written]
    PROVE  read(d, f) = IF parse_bbs_json(d, f) # None THEN parse_bbs_json(d, f)
                        ELSE parse_bbs_json(d, repaired_fields(f))
<1> DEFINE body == [device |-> d, fields |-> f]
           path == [root |-> "/bbs_json", id |-> FALSE]
           b    == repaired_body(path, body)
<1>1. b.device = d /\ b.fields = repaired_fields(f)
  BY DEF repaired_body
<1>2. parser(path, body) = parse_bbs_json(d, f)
  BY DEF parser
<1> HIDE DEF b
<1>3. parser(path, b) = parse_bbs_json(d, repaired_fields(f))
  BY <1>1 DEF parser
<1>4. parse_request(path, body) = IF parser(path, body) # None THEN parser(path, body)
                                                              ELSE parser(path, b)
  BY DEF parse_request, PARSER_PATHS, b
<1> QED
  BY <1>2, <1>3, <1>4 DEF read

LEMMA RepairedFields ==
    ASSUME NEW f \in [Fields -> Written]
    PROVE  /\ repaired_fields(f) \in [Fields -> Written]
           /\ \A x \in Fields : repaired_fields(f)[x] = repaired(f[x])
           /\ bad(f) = {} => repaired_fields(f) = f
<1>1. \A x \in Fields : repaired(f[x]) \in Written
  BY RepairedIs
<1>2. ASSUME bad(f) = {} PROVE \A x \in Fields : repaired(f[x]) = f[x]
  BY <1>2, RepairedIs DEF bad
<1>3. bad(f) = {} => repaired_fields(f) = [x \in Fields |-> f[x]]
  BY <1>2 DEF repaired_fields
<1> QED
  BY <1>1, <1>3 DEF repaired_fields

(* Every body of a report, not only those that TLC tries.                  *)
LEMMA EveryFieldReadsAround ==
    ASSUME NEW d \in Devices, NEW f \in [Fields -> Written]
    PROVE  ReadsAround(d, f)
<1> DEFINE w == [x \in Fields |-> IF x \in bad(f) THEN "1" ELSE f[x]]
           h == repaired_fields(f)
<1>1. w \in [Fields -> Written]
  BY DEF Written, Numbers
<1>2. \A x \in Fields : w[x] \notin Malformed
  BY DEF bad, Malformed
<1>3. read(d, w) = parse_bbs_json(d, w)
  <2> HIDE DEF w
  <2>1. repaired_fields(w) = w
    BY <1>1, <1>2, RepairedFields DEF bad
  <2> QED
    BY <1>1, <2>1, ReadIs
<1> SUFFICES ASSUME read(d, w) # None,
                    ~(f["motor"] # "absent" /\ f["time"] = "1.#INF00")
             PROVE  /\ read(d, f) # None
                    /\ \A part \in DOMAIN Source :
                         Source[part] \notin bad(f) => read(d, f)[part] = read(d, w)[part]
  BY DEF ReadsAround
<1>4. CASE bad(f) = {}
  <2>1. w = [x \in Fields |-> f[x]]
    BY <1>4
  <2>2. w = f
    BY <2>1
  <2> HIDE DEF w
  <2> QED
    BY <2>2
<1>5. CASE bad(f) # {}
  <2>1. parse_bbs_json(d, f) = None
    BY <1>5 DEF bad, parse_bbs_json, bbs_json_raises
  <2>2. read(d, f) = parse_bbs_json(d, h)
    BY <2>1, ReadIs
  <2>3. \A x \in Fields : x \notin bad(f) => h[x] = f[x] /\ w[x] = f[x]
    BY RepairedFields, RepairedIs DEF bad
  <2>4. \A x \in Fields : x \in bad(f) => /\ h[x] \in {"null", "0"} /\ w[x] = "1"
                                          /\ f[x] # "1.#INF00" => h[x] = "0"
    BY RepairedFields DEF bad, Malformed, repaired
  <2>5. \A x \in Fields : h[x] \notin Malformed
    BY RepairedFields, RepairedIs
  <2>6. ~bbs_json_raises(w)
    BY <1>3 DEF parse_bbs_json
  <2> HIDE DEF w, h
  <2>7. ~bbs_json_raises(h)
    <3>1. h["battery_voltage"] # "text"
      BY <2>3, <2>4, <2>6 DEF bbs_json_raises, Fields
    <3>2. h["motor"] # "absent" => h["time"] \in Numbers /\ h["mamp"] # "absent"
      <4>1. h["motor"] # "absent" => f["motor"] # "absent" /\ w["motor"] # "absent"
        BY <2>3, <2>4 DEF Fields, bad, Malformed
      <4>2. w["motor"] # "absent" => w["time"] \in Numbers /\ w["mamp"] # "absent"
        BY <2>6 DEF bbs_json_raises
      <4>3. f["motor"] # "absent" /\ w["time"] \in Numbers => h["time"] \in Numbers
        BY <2>3, <2>4 DEF Fields, Numbers
      <4>4. w["mamp"] # "absent" => h["mamp"] # "absent"
        BY <2>3, <2>4 DEF Fields
      <4> QED
        BY <4>1, <4>2, <4>3, <4>4
    <3> QED
      BY <2>5, <3>1, <3>2 DEF bbs_json_raises
  <2>8. (h["motor"] # "absent") = (w["motor"] # "absent")
    BY <2>3, <2>4 DEF Fields
  <2>9. ASSUME NEW part \in DOMAIN Source, Source[part] \notin bad(f)
        PROVE  parse_bbs_json(d, h)[part] = parse_bbs_json(d, w)[part]
    <3>1. h[Source[part]] = w[Source[part]]
      BY <2>3, <2>9 DEF Source, Fields
    <3> QED
      BY <2>6, <2>7, <2>8, <2>9, <3>1 DEF parse_bbs_json, Source
  <2>10. parse_bbs_json(d, h) # None
    BY <2>7, NoneIs DEF parse_bbs_json
  <2> QED
    BY <1>3, <2>2, <2>9, <2>10
<1> QED
  BY <1>4, <1>5

LEMMA EveryPingReadsAround ==
    ASSUME NEW es \in Entries
    PROVE  PingsReadAround(es)
<1> DEFINE path == [root |-> "/pings", id |-> FALSE]
           body == [entries |-> es]
           r    == parse_request(path, body)
           rs   == repaired_entries(es)
<1>1. es \in Seq(Item) /\ body \in [entries : Seq(Item)]
  BY DEF Entries, Item
<1>2. r = IF parse_pings(es) # None THEN parse_pings(es) ELSE parse_pings(rs)
  BY <1>1, EntriesRequest
<1>3. /\ DOMAIN rs = DOMAIN es
      /\ \A i \in DOMAIN es : /\ es[i] \in Item /\ rs[i] \in Item
                              /\ rs[i].value = repaired(es[i].value)
                              /\ es[i].value \in Numbers => rs[i] = es[i]
  BY <1>1, RepairedEntries DEF Numbers, Malformed
<1> HIDE DEF r, rs
<1> SUFFICES ASSUME \A i \in DOMAIN es : es[i].value # "text"
             PROVE  /\ r # None
                    /\ \A i \in DOMAIN es :
                         es[i].value \in Numbers => es[i] \in ToSet(r.items)
  BY DEF PingsReadAround, r
<1>4. CASE parse_pings(es) # None
  <2>1. /\ DOMAIN r.items = {i \in DOMAIN es : es[i].value \in Numbers}
        /\ \A i \in DOMAIN r.items : r.items[i] = es[i]
    BY <1>2, <1>3, <1>4, PingsParsed
  <2> QED
    BY <1>2, <1>4, <2>1 DEF ToSet
<1>5. CASE parse_pings(es) = None
  <2>1. \A i \in DOMAIN rs : rs[i].value \notin Malformed \cup {"text"}
    BY <1>3, RepairedIs DEF Item
  <2>2. parse_pings(rs) # None
    BY <2>1, NoneIs DEF parse_pings
  <2>3. /\ DOMAIN r.items = {i \in DOMAIN rs : rs[i].value \in Numbers}
        /\ \A i \in DOMAIN r.items : r.items[i] = rs[i]
    BY <1>2, <1>3, <1>5, <2>2, PingsParsed
  <2> QED
    BY <1>2, <1>3, <1>5, <2>2, <2>3 DEF ToSet
<1> QED
  BY <1>4, <1>5

-----------------------------------------------------------------------------
(* The last of some places, by well-foundedness of <.                      *)
LEMMA Least ==
    ASSUME NEW T \in SUBSET Nat, T # {}
    PROVE  \E x \in T : \A y \in T : x <= y
<1> DEFINE R == OpToRel(<, Nat)
<1>1. IsWellFoundedOn(R, Nat)
  BY NatLessThanWellFounded
<1>2. \A x, y \in Nat : <<x, y>> \in R <=> x < y
  BY DEF OpToRel
<1> HIDE DEF R
<1>3. PICK x \in T : \A y \in T : ~(<<y, x>> \in R)
  BY <1>1, WFMin
<1>4. ASSUME NEW y \in T PROVE x <= y
  <2>1. x \in Nat /\ y \in Nat
    OBVIOUS
  <2>2. ~(y < x)
    BY <1>2, <1>3, <2>1
  <2> QED
    BY <2>1, <2>2
<1> QED
  BY <1>4

LEMMA LastIsAmongThem ==
    ASSUME NEW n \in Nat, NEW T \in SUBSET (1 .. n), T # {}
    PROVE  Max(T) \in T
<1> DEFINE Before == {n - i : i \in T}
<1>1. \A i \in T : i \in Nat /\ i <= n /\ n - i \in Nat
  OBVIOUS
<1>2. Before \in SUBSET Nat /\ Before # {}
  BY <1>1
<1>3. PICK k \in Before : \A l \in Before : k <= l
  <2> HIDE DEF Before
  <2> QED
    BY <1>2, Least
<1>4. PICK x \in T : k = n - x
  OBVIOUS
<1>5. \A y \in T : n - x <= n - y
  BY <1>3, <1>4
<1>6. \A y \in T : x >= y
  BY <1>1, <1>4, <1>5
<1> QED
  BY <1>4, <1>6 DEF Max

(* What parse_request() hands to _record() is typed, whatever came.        *)
Reading == [battery    : Numbers \cup {Unknown},
            wifi       : Numbers \cup {Unknown},
            motor_fail : {"on", "off", Unknown}]

LEMMA ParsedTypes ==
    ASSUME NEW m \in Messages
    PROVE  LET p == parse_request(m.path, m.body) IN
           /\ TouchedBy(p) \subseteq Devices
           /\ p.kind = "bbs" => /\ p.battery \in Numbers \cup {Unknown}
                                /\ p.motor_fail \in {"on", "off", Unknown}
           /\ p.kind = "pings" => /\ \E n \in Nat : DOMAIN p.items \in SUBSET (1 .. n)
                                  /\ \A i \in DOMAIN p.items : p.items[i].value \in Numbers
<1> DEFINE p == parse_request(m.path, m.body)
           Goal == /\ TouchedBy(p) \subseteq Devices
                   /\ p.kind = "bbs" => /\ p.battery \in Numbers \cup {Unknown}
                                        /\ p.motor_fail \in {"on", "off", Unknown}
                   /\ p.kind = "pings" =>
                        /\ \E n \in Nat : DOMAIN p.items \in SUBSET (1 .. n)
                        /\ \A i \in DOMAIN p.items : p.items[i].value \in Numbers
<1> SUFFICES Goal
  OBVIOUS
<1>1. CASE p = None
  <2> HIDE DEF p
  <2> QED
    BY <1>1, NoneIs DEF TouchedBy
<1>2. CASE p # None /\ ~m.path.id /\ m.path.root = "/bbs_json"
  <2>1. m.body \in BbsBody
    BY <1>2, BodyTypes
  <2>2. PICK g \in [Fields -> Written] : p = parse_bbs_json(m.body.device, g)
    BY <1>2, <2>1, BbsRequest
  <2>3. /\ p.kind = "bbs" /\ p.device_id = m.body.device
        /\ p.battery \in Numbers \cup {Unknown}
        /\ p.motor_fail \in {"on", "off", Unknown}
    BY <1>2, <2>2, BbsParsed
  <2>4. m.body.device \in Devices
    BY <2>1 DEF BbsBody
  <2> HIDE DEF p
  <2> QED
    BY <2>3, <2>4 DEF TouchedBy
<1>3. CASE p # None /\ ~m.path.id /\ m.path.root = "/pings"
  <2> DEFINE es == m.body.entries
             rs == repaired_entries(es)
  <2>1. m.body \in [entries : Seq(Item)] /\ es \in Seq(Item)
    BY <1>3, BodyTypes
  <2>2. p = IF parse_pings(es) # None THEN parse_pings(es) ELSE parse_pings(rs)
    BY <1>3, <2>1, EntriesRequest
  <2>3. /\ DOMAIN rs = DOMAIN es /\ DOMAIN es = 1 .. Len(es) /\ Len(es) \in Nat
        /\ \A i \in DOMAIN es : es[i] \in Item /\ rs[i] \in Item
    BY <2>1, RepairedEntries
  <2> HIDE DEF p, es, rs
  <2>4. PICK qs : /\ p = parse_pings(qs) /\ DOMAIN qs = DOMAIN es
                  /\ \A i \in DOMAIN es : qs[i] \in Item
    BY <2>2, <2>3
  <2>5. /\ p.kind = "pings"
        /\ DOMAIN p.items = {i \in DOMAIN qs : qs[i].value \in Numbers}
        /\ \A i \in DOMAIN p.items : p.items[i] = qs[i]
    BY <1>3, <2>4, PingsParsed
  <2>6. DOMAIN p.items \in SUBSET (1 .. Len(es))
    BY <2>3, <2>4, <2>5
  <2>7. \A i \in DOMAIN p.items : p.items[i].value \in Numbers /\ p.items[i].device \in Devices
    BY <2>4, <2>5 DEF Item
  <2> QED
    BY <2>3, <2>5, <2>6, <2>7 DEF TouchedBy, ToSet
<1>4. CASE p # None /\ ~m.path.id /\ m.path.root = "/pump_outlet_alerts"
  <2> DEFINE es == m.body.entries
  <2>1. m.body \in [entries : Seq(Item)]
    BY <1>4, BodyTypes
  <2>2. p = IF parse_pump_alerts(es) # None THEN parse_pump_alerts(es)
                                            ELSE parse_pump_alerts(repaired_entries(es))
    BY <1>4, <2>1, EntriesRequest
  <2> HIDE DEF p, es
  <2>3. p.kind = "alerts"
    BY <1>4, <2>2, AlertsParsed
  <2> QED
    BY <2>3 DEF TouchedBy
<1>5. p # None => ~m.path.id /\ m.path.root \in PARSER_PATHS
  BY DEF parse_request
<1> QED
  BY <1>1, <1>2, <1>3, <1>4, <1>5 DEF PARSER_PATHS

LEMMA LearntTypes ==
    ASSUME NEW m \in Messages, state \in [Devices -> Reading], known \subseteq Devices,
           Learnt(parse_request(m.path, m.body))
    PROVE  state' \in [Devices -> Reading] /\ known' \subseteq Devices
<1> DEFINE p == parse_request(m.path, m.body)
<1>1. /\ TouchedBy(p) \subseteq Devices
      /\ p.kind = "bbs" => /\ p.battery \in Numbers \cup {Unknown}
                           /\ p.motor_fail \in {"on", "off", Unknown}
      /\ p.kind = "pings" => /\ \E n \in Nat : DOMAIN p.items \in SUBSET (1 .. n)
                             /\ \A i \in DOMAIN p.items : p.items[i].value \in Numbers
  BY ParsedTypes
<1> HIDE DEF p
<1>2. /\ known' = known \cup TouchedBy(p)
      /\ state' = [d \in Devices |-> IF d \notin TouchedBy(p) THEN state[d]
                                     ELSE IF p.kind = "bbs" THEN Applied(state[d], p)
                                     ELSE Pinged(d, state[d], p.items)]
  BY DEF Learnt, p
<1>3. ASSUME NEW s \in Reading, p.kind = "bbs" PROVE Applied(s, p) \in Reading
  BY <1>1, <1>3 DEF Applied, Reading
<1>4. ASSUME NEW d \in Devices, NEW s \in Reading, p.kind = "pings"
      PROVE  Pinged(d, s, p.items) \in Reading
  <2> DEFINE mine == {i \in DOMAIN p.items : /\ p.items[i].device = d
                                            /\ p.items[i].type = PING_WIFI_RSSI}
  <2>1. PICK n \in Nat : DOMAIN p.items \in SUBSET (1 .. n)
    BY <1>1, <1>4
  <2>2. mine \in SUBSET (1 .. n) /\ mine \subseteq DOMAIN p.items
    BY <2>1
  <2>3. Pinged(d, s, p.items) = IF mine = {} THEN s
                                ELSE [s EXCEPT !.wifi = p.items[Max(mine)].value]
    BY DEF Pinged
  <2> HIDE DEF mine
  <2>4. mine # {} => p.items[Max(mine)].value \in Numbers
    BY <1>1, <1>4, <2>2, LastIsAmongThem
  <2> QED
    BY <2>3, <2>4 DEF Reading
<1>5. TouchedBy(p) # {} => p.kind \in {"bbs", "pings"}
  BY DEF TouchedBy
<1>6. ASSUME NEW d \in Devices
      PROVE  (IF d \notin TouchedBy(p) THEN state[d]
              ELSE IF p.kind = "bbs" THEN Applied(state[d], p)
              ELSE Pinged(d, state[d], p.items)) \in Reading
  BY <1>3, <1>4, <1>5
<1> QED
  BY <1>1, <1>2, <1>6

LEMMA SightingsAreThings ==
    ASSUME NEW m \in Messages
    PROVE  Sightings(m.path, parse_request(m.path, m.body)) \subseteq Things
<1> DEFINE p == parse_request(m.path, m.body)
<1> SUFFICES Sightings(m.path, p) \subseteq Things
  OBVIOUS
<1>1. Sightings(m.path, p) = Unread(m.path, m.body, p)
  BY SightingsAreUnread
<1>2. p # None => ~m.path.id /\ m.path.root \in PARSER_PATHS
  BY DEF parse_request
<1> HIDE DEF p
<1>3. CASE m.path.root \notin PARSER_PATHS \cup ANSWERED_NOT_READ
  BY <1>1, <1>3 DEF Unread, Things
<1>4. CASE p = None /\ m.path.root \in PARSER_PATHS \cup ANSWERED_NOT_READ
  BY <1>1, <1>4 DEF Unread
<1>5. CASE p # None /\ m.path.root = "/bbs_json"
  <2>1. Unread(m.path, m.body, p) \subseteq {<<"bbs field", "other">>}
    BY <1>5 DEF Unread, PARSER_PATHS
  <2> QED
    BY <1>1, <2>1 DEF Things
<1>6. CASE p # None /\ m.path.root \in {"/pings", "/pump_outlet_alerts"}
  <2>1. \A e \in ToSet(m.body.entries) : e.type \in PING_TYPES
    <3>1. m.body \in [entries : Seq(Item)]
      BY <1>2, <1>6, BodyTypes
    <3>2. \A i \in DOMAIN m.body.entries : m.body.entries[i] \in Item
      BY <3>1
    <3> QED
      BY <3>2 DEF ToSet, Item
  <2>2. CASE m.path.root = "/pings"
    <3>1. Unread(m.path, m.body, p)
            = {<<"ping", e.type>> : e \in {e \in ToSet(m.body.entries) :
                                             /\ e.type # PING_WIFI_RSSI
                                             /\ e.value \in Numbers \cup {"0000"}}}
      BY <1>6, <2>2 DEF Unread, PARSER_PATHS
    <3>2. Unread(m.path, m.body, p) \subseteq {"ping", "alert"} \X PING_TYPES
      BY <2>1, <3>1
    <3> QED
      BY <1>1, <3>2 DEF Things
  <2>3. CASE m.path.root = "/pump_outlet_alerts"
    <3>1. Unread(m.path, m.body, p) = {<<"alert", e.type>> : e \in ToSet(m.body.entries)}
      BY <1>6, <2>3 DEF Unread, PARSER_PATHS
    <3>2. Unread(m.path, m.body, p) \subseteq {"ping", "alert"} \X PING_TYPES
      BY <2>1, <3>1
    <3> QED
      BY <1>1, <3>2 DEF Things
  <2> QED
    BY <1>6, <2>2, <2>3
<1> QED
  BY <1>2, <1>3, <1>4, <1>5, <1>6 DEF PARSER_PATHS

(* What TypeOK says beside what AskedInv, Domains and SaidInv say already. *)
Types ==
    /\ known \subseteq Devices
    /\ state \in [Devices -> Reading]
    /\ seen \subseteq Things
    /\ DOMAIN stored \subseteq Devices
    /\ \A d \in DOMAIN stored : stored[d] \in {"on", "off", Unknown}
    /\ reloads \in 0 .. MaxReloads

LEMMA InitTypes == Init => Types
<1>1. NewDevice \in Reading
  BY DEF NewDevice, Reading
<1>2. Init => DOMAIN stored = {}
  BY DEF Init
<1> QED
  BY <1>1, <1>2, IntakeAssumption DEF Init, Types

LEMMA StepTypes == Types /\ [Next]_vars => Types'
<1> SUFFICES ASSUME Types, [Next]_vars PROVE Types'
  OBVIOUS
<1>1. ASSUME NEW p \in Platforms, SetUp(p) PROVE Types'
  BY <1>1 DEF SetUp, Types, novelty
<1>2. ASSUME NEW p \in Platforms, NEW d \in Devices, EntityAdded(p, d) PROVE Types'
  BY <1>2 DEF EntityAdded, Types, novelty
<1>3. ASSUME NEW m \in Messages, Handled(m) PROVE Types'
  <2> DEFINE p == parse_request(m.path, m.body)
  <2>1. Learnt(p) /\ seen' = seen \cup Sightings(m.path, p)
        /\ UNCHANGED <<stored, reloads>>
    BY <1>3 DEF Handled, Note
  <2>2. state' \in [Devices -> Reading] /\ known' \subseteq Devices
    BY <2>1, LearntTypes DEF Types
  <2>3. Sightings(m.path, p) \subseteq Things
    BY SightingsAreThings
  <2> HIDE DEF p
  <2> QED
    BY <2>1, <2>2, <2>3 DEF Types, Things
<1>4. ASSUME NEW m \in Messages, CutShort(m) PROVE Types'
  <2> DEFINE p == parse_request(m.path, m.body)
  <2>1. Learnt(p) /\ UNCHANGED <<seen, stored, reloads>>
    BY <1>4 DEF CutShort, novelty
  <2>2. state' \in [Devices -> Reading] /\ known' \subseteq Devices
    BY <2>1, LearntTypes DEF Types
  <2> HIDE DEF p
  <2> QED
    BY <2>1, <2>2 DEF Types, Things
<1>5. ASSUME NEW d \in Devices, ClearPumpFailure(d) PROVE Types'
  <2>1. [state[d] EXCEPT !.motor_fail = "off"] \in Reading
    BY DEF Types, Reading
  <2>2. state' = [state EXCEPT ![d] = [state[d] EXCEPT !.motor_fail = "off"]]
    BY <1>5 DEF ClearPumpFailure, Types
  <2> QED
    BY <1>5, <2>1, <2>2 DEF ClearPumpFailure, Types, novelty
<1>6. CASE Saved
  <2>1. \A d \in known : state[d].motor_fail \in {"on", "off", Unknown}
    BY DEF Types, Reading
  <2>2. /\ stored' = [d \in known |-> state[d].motor_fail]
        /\ UNCHANGED <<known, state, seen, reloads>>
    BY <1>6 DEF Saved, novelty
  <2>3. DOMAIN stored' \subseteq Devices
    BY <2>2 DEF Types
  <2>4. \A d \in DOMAIN stored' : stored'[d] \in {"on", "off", Unknown}
    BY <2>1, <2>2
  <2> QED
    BY <2>2, <2>3, <2>4 DEF Types, Things
<1>7. CASE Reload
  <2>1. state' = [d \in Devices |-> IF d \in DOMAIN stored THEN Restored(stored[d])
                                                            ELSE NewDevice]
    BY <1>7 DEF Reload
  <2>2. \A x \in {"on", "off", Unknown} : Restored(x) \in Reading
    BY DEF Restored, NewDevice, Reading
  <2>3. NewDevice \in Reading
    BY DEF NewDevice, Reading
  <2>4. state' \in [Devices -> Reading]
    BY <2>1, <2>2, <2>3 DEF Types
  <2>5. /\ known' = DOMAIN stored /\ seen' = {} /\ stored' = stored
        /\ reloads < MaxReloads /\ reloads' = reloads + 1
    BY <1>7 DEF Reload
  <2>6. reloads' \in 0 .. MaxReloads
    BY <2>5, IntakeAssumption DEF Types
  <2> QED
    BY <2>4, <2>5, <2>6 DEF Types
<1>8. CASE UNCHANGED vars
  BY <1>8 DEF vars, entities, novelty, Types
<1> QED
  BY <1>1, <1>2, <1>3, <1>4, <1>5, <1>6, <1>7, <1>8 DEF Next

(* Whatever the device writes into a body, what is kept of it is a reading *)
(* or nothing; and no platform asks for a device that is not known.        *)
THEOREM TypeCorrect == Spec => []TypeOK
<1>1. Init => ShownInv /\ SaidInv
  BY DEF Init, ShownInv, Domains, EntitiesShowLatest, SaidInv, NotShown, NotSaid
<1>2. Types /\ AskedInv /\ ShownInv /\ SaidInv => TypeOK
  <2> SUFFICES ASSUME Types, AskedInv, ShownInv, SaidInv PROVE TypeOK
    OBVIOUS
  <2>1. /\ asked \in [Platforms \X Devices -> Nat]
        /\ \A pd \in DOMAIN asked : asked[pd] > 0 => pd[2] \in known
        /\ DOMAIN asked = Platforms \X Devices
        /\ ready \subseteq Platforms /\ missed \subseteq ready \X known
    BY DEF AskedInv
  <2>2. said \in [Things -> Nat] /\ heard = seen
    BY DEF SaidInv
  <2> QED
    BY <2>1, <2>2 DEF Types, ShownInv, Domains, Reading, TypeOK
<1> QED
  BY InitTypes, <1>1, <1>2, InitAsked, StepAsked, StepShown, StepSaid, StepTypes, PTL
  DEF Spec

(* In every message of every device, of any body at all, a number that the *)
(* device could not format costs that number and nothing else.             *)
THEOREM MalformedCostsItself == Spec => []MalformedNumberCostsItself
<1>1. ASSUME NEW d \in Devices PROVE Understood[d]
  <2>1. \A f \in WireBodies : ReadsAround(d, f)
    BY EveryFieldReadsAround, IntakeAssumption
  <2>2. \A es \in PingBodies : PingsReadAround(es)
    BY EveryPingReadsAround, IntakeAssumption
  <2> QED
    BY <2>1, <2>2 DEF Understood
<1>2. Types => MalformedNumberCostsItself
  BY <1>1 DEF Types, MalformedNumberCostsItself
<1> QED
  BY <1>2, InitTypes, StepTypes, PTL DEF Spec

=============================================================================
