# A TLA+ model of pumpspy-local

pumpspy-local is a Home Assistant integration that puts itself between a
sump-pump controller and its vendor's cloud.  It relays what the device sends,
reads the telemetry on the way past, answers the device's token request itself
when the vendor is down, and can hold a firmware update back until the user
approves it.  This directory holds TLA+ modules that model those parts, the TLC
configurations that check them and the TLAPS proofs about them.

All paths without a directory are under `src/custom_components/pumpspy_local/`.
`PROJECT.json` maps every definition to the lines it models.

## 1. The system

Everything runs on one asyncio event loop, so code between two `await`s is
atomic.  The only suspension that matters in a request handler is `_relay`:
`await upstream_address.target(...)`, then `await forward(...)`.  Between the two
halves of one handler any other handler, a button, a timer or a stop may run.
That is the atomicity of every module here: one action up to the suspension, one
action from there to the end.

| Component | State | Operations | What makes it correct |
|---|---|---|---|
| Vendor health, `core/vendor.py` | verdict (unknown, up, down), two streak counters | `record_success`, `record_failure` | the verdict is what the whole history of outcomes calls for, flaps notwithstanding |
| Relay, `_relay` in `__init__.py`, `core/forward.py` | none of its own; moves the verdict, logs its flips | one attempt to deliver | every outcome is counted once; it is over before the device leaves, retries duplicate nothing in good health |
| Upstream address, `core/upstream.py` | cached address and its time | `target` | never relays to itself, what is cached was true when it says, the vendor is found again |
| Token requests, `_handle_auth`, `core/auth.py` | when a token was minted | relay first, `should_mint`, `mint`, `clear`, store, restore | the record is true of the device; the device keeps reporting and later recovers |
| Firmware gate, `_handle_firmware_check`, `core/firmware.py`, approve button, firmware entity | cached "no update" reply, held update, time of the last question, whether an update is on offer | poll, `record_upstream`, `approve` | a held update stays back; an approved one is delivered; the user always sees an offer |
| Device state, `core/state.py`, `core/gallons.py` | merged readings, fault latch, last run, last self-test, daily and lifetime totals, `unfired_run` | `apply`, `clear_fault`, `to_stored`, `from_stored` | the state is what everything recorded adds up to |
| Telemetry path, `handle`, `_record`, `event.py`, clear button | the devices, the delayed save | relay, parse, record, dispatch, save | nothing is lost to a failed relay; a run fires exactly once |
| Parser, `core/parser.py` | none | parse, repair, give up | a malformed number costs no more than itself |
| Novelty report, `core/novelty.py` | what has been said | `note` | what is parsed and not read is said once, and none is silently ignored |
| Entry lifecycle, setup and unload in `__init__.py`, `config_flow.py` | listener, session, store, port | setup, failed bind, unload, reload, reconfigure | nothing leaks, nothing recorded is lost or overwritten |
| Fail-open shim, `shim/*.conf` | none (nginx) | fail over, replay | an event reaches the vendor whatever Home Assistant does, and Home Assistant still hears it |
| Sensors, binary sensors, buttons, `entity.py` | entities | set up with the platform or when a device appears, write on dispatch | each device's entities exist once and show what is known now |
| Dashboard, docs | none | display | views of the above |

How they interact: every handler calls `_relay`, which feeds the one verdict
that token requests then read.  Telemetry creates devices, whose entities are
added by Home Assistant in tasks of their own, later; dispatcher signals with
`@callback` targets run inside the sender's step.  The store is written ten
seconds after the last request for a save, with the state of that moment, or at
an orderly stop.

What is hard: overlapping relays that finish in another order than they began;
a verdict read before an `await` and used after it; two dispatches for one
change; entities that do not exist yet when the first event arrives; restarts
between a change and its save; a device that retries, gives up after ten seconds
and drops an event after three tries; and a vendor that can be up, down or
answering with errors.  `PROJECT.json` lists each hazard at its line.

## 2. The modules

| Module | Models | Composition |
|---|---|---|
| `VendorHealth` | `core/vendor.py` as operators on a record | used by all below |
| `VendorVerdict` | the verdict beside the history of outcomes | EXTENDS `VendorHealth` |
| `VendorVerdictProofs` | proofs about it | |
| `Relay` | `_relay` and `_log_vendor_change` as the two halves of a handler | EXTENDS `VendorHealth` |
| `TokenAuth` | `_handle_auth` and its entities among other traffic | EXTENDS `Relay`: its handlers are built from `RelayBegins` and `RelayEnds` |
| `TokenAuthProofs` | proofs about it | |
| `FirmwareGate`, `MC_FirmwareGate` | the firmware poll, checker, button and entity of one device | |
| `FirmwareGateProofs` | proofs about it | |
| `DeviceState` | `core/state.py` as operators on a record | used by `Telemetry` |
| `Telemetry`, `MC_Telemetry` | the path of `/bbs_json` messages of one device, with saves and restarts | EXTENDS `DeviceState` |
| `TelemetryProofs` | proofs about it | |
| `Upstream` | `core/upstream.py`: configured and looked-up addresses, the cache, overlapping lookups, the loop check | stands alone |
| `UpstreamProofs` | proofs about it | |
| `AtLeastOnce` | what interception owes the vendor's alerting, with no shim, integration or time in it | abstract |
| `Delivery` | one event on its way: the device's tries, the shim, `_relay` and `forward` with their timeouts, the vendor, stops of Home Assistant | implements `AtLeastOnce` (`INSTANCE ... WITH`) |
| `DeliveryProofs` | proofs about it | |
| `Parser` | `core/parser.py` as operators: what each parser makes of a body, when it raises, the repair | used by `Novelty` and `Intake` |
| `Novelty` | `core/novelty.py`: what is unfamiliar about a message | EXTENDS `Parser` |
| `Intake`, `MC_Intake` | messages of every kind from several devices into device states, entities and warnings | EXTENDS `Novelty` |
| `IntakeProofs` | proofs about it | |
| `Lifecycle` | the entry: setup, failed bind, unload, reload, reconfigure, and the one file that every runtime's Store writes | stands alone: what a runtime knows is a set of messages and the mint time |
| `LifecycleProofs` | proofs about it | |

State and actions against the code:

- **Relay.**  `was[h]` is the local `was_reachable` of a suspended handler,
  `vendor` is `runtime.vendor`.  `RelayBegins` is `_relay` up to its first
  `await`; `RelayEnds` is the rest: the fold of the outcome, the log line, and
  (in the handler that uses it) the dispatch.  The retry in `forward` is inside one
  outcome here: it only decides whether that outcome is "answered" or "failed".
  `Delivery` takes that outcome apart.  `said` is what the log was last told; it and
  `reply` in `TokenAuth` are output of the code that nothing in it reads again.
  `overtaken` is history: some relay ended on another verdict than it began with.
- **TokenAuth.**  `TokenRequest` begins, `TokenGranted` and `NoToken` end, a
  token request; `OtherRequest` and `OtherRelayed` are everything else that feeds
  the verdict.  The device, whether it is still listening (`waiting`, `Abandon`)
  and the vendor's day (`ServiceChanges`) are external.  `issued` is
  `local_auth.issued`; the time in it only matters to a restore.  `unheard` and
  `overruled` are history: whether the last answer with a token in it reached nobody,
  and how many rejections were replaced by a minted token since a relay last failed.
- **FirmwareGate.**  `checker` is the `FirmwareChecker`, with its time reduced to
  never asked, asked less than an interval ago, due.  `PollFromCache`,
  `PollAsks`, `RelayFailed` and `RelayAnswered` are the branches of
  `_handle_firmware_check`; `Restart` also stands for the reload that a
  reconfigure makes, and may change the policy.  `withheld` and `approved` are
  history.
- **DeviceState and Telemetry.**  A run is named by the message that reported
  it.  `MessageHandled` is the whole of `handle` after the relay, with `Record`
  (`_record`) in it whatever the relay's outcome.  `log` is a history variable:
  what the device state has been told, in order, each entry with its day and what it
  said; it is saved and restored with the
  state, so that it always is the log *of that state*.  The invariants read
  `log` as a whole and never fold over it: they are a second definition of what the
  state should be, independent of `apply`.

- **Lifecycle.**  `runtime[s]` is one `PumpspyRuntime` with its session, listener
  port and Store; `current` is the one in `hass.data`; `phase` is how far
  `async_setup_entry` or `async_unload_entry` has got, one value per `await` of
  theirs.  A runtime that was unloaded with a delayed save pending keeps its slot
  until the save runs, which is how two Stores come to write one file.  A message
  or token request is relayed from `RequestArrives` to `Recorded` or
  `AuthAnswered`, across any phase.  The port another program may take, the token
  the device carries and Home Assistant's own retries and stops are external.
  `straggled` is history: some handler outlived the flush of its runtime.
- **Upstream.**  `asking[h]` is a handler's lookup in progress, with how long it has
  waited; `target[h]` is what `target()` last gave it.  Times are kept as ages:
  `age` of the cached answer and `left[a]`, how long ago the vendor left an
  address, both up to the ttl.  `LookupAnswers` may answer with any address the vendor
  had since the lookup began, and stores the time at which it *began*, as the code's
  `now` does.  An address that is configured is trusted as given.
- **Delivery.**  `place[e]` says who has the request of the device's present try,
  `relay[<<e, t>>]` is the handler of try t, which goes on when the device has left:
  its `stage` is the lookup or one of the two attempts of `forward`, `spent` the
  seconds of that stage and `age` of the whole.  `Arrives`, the `Lookup...` and
  `Vendor...` actions and `Answers` are `handle` and `_relay` in the order of the code;
  `Replays` and `HomeAssistantFailed` are the shim's `proxy_next_upstream`.  With
  `shim = FALSE` the redirect points at Home Assistant itself.  The status that
  `Answers` passes on is "200", "502" (for 504 too, which the shim takes alike) or "500"
  (any other error); only the first is an acknowledgement to the device, whether the
  integration or the vendor made it.  A vendor that answers with an error may have processed the
  request, and so may one that is late; a server of its that the shim passes over has
  not.  `faults` and
  `outages` are history: which tries Home Assistant was away from, and which the vendor
  failed, by hanging up ("dropped") or by being late, away or in error ("failed").  `got`
  counts the copies at the vendor, at most two of each try: one from a relay, one from the shim.
- **Parser and Novelty.**  A value is one of seven written forms, of which two are
  malformed numbers; a body is a function from fields to forms, or a sequence of
  entries, of which those that are read keep their places.  A parser that raises returns
  `None`, as the caller makes of it.
  `battery_voltage` stands for `loaded` and `motor_fail` for the other flags, which
  the code reads by the same function.
- **Intake.**  `Handled` is `handle` from the end of the relay: parse, `_record`,
  `note`.  `CutShort` is the same handler when `apply()` raises, which it does for a primary
  run whose `mamp` is text: the device is known and has its readings, and nobody is
  told.  `SetUp` is the `async_setup_entry` of a platform (sensor, binary sensor,
  button; `event.py` is in `Telemetry`), `EntityAdded` the task Home Assistant adds
  entities in, `Updated` the device's dispatch.  `asked`, `said` and `heard` are history,
  and so are `missed` and `behind`: what messages cut short have kept from which
  platforms and entities.  `Saved` writes the file (`stored`) at any time, and a reload
  restores the devices in it as they were then, and forgets what was said.

Left out as data: in `Telemetry` battery, radio, high-water and clock figures (merged by
the same rule as `ac_power`, and no decision reads them), gallons (they grow exactly
where runs are counted), `last_error` and `last_delivery`, request headers and
bodies, the wording of log lines.

## 3. The runs

Passing runs:

| Run | What it shows | Bounds, and why they suffice |
|---|---|---|
| `vendor_verdict` | `VerdictFollowsHistory`: the verdict is the latest evidence in the whole history | 10 outcomes, real thresholds 4 and 2: long enough for up, down, up and down again's evidence, and no streak meets `StreakCap`; the theorem removes the bound |
| `token_auth` | `IssuedTellsTheTruth`, `RejectionsGetThrough`, `EntitiesCurrent`, `LogFollowsVerdict`; live: `KeepsReportingInOutage`, `RecoversByItself` | two handlers: one token request among one other relay, which may straddle any flip of the verdict; real thresholds; one abandoned answer |
| `firmware_gate` | `CacheAnswerIsSafe`, `HeldStaysBack`, `EntityMissesNothing`; live: `LastingOfferIsAnnounced`, `ObserveDelivers` | two polls in flight, one reply of each shape `classify` tells apart and two different updates, one restart |
| `telemetry` | `TotalsMatchLog`, `FaultMatchesLog`, `LastTestMatchesLog`, `EveryRunFires`, `NothingHandledIsLost`, `UnsavedIsPending` | three messages of five kinds, two outstanding at once (so they may finish in either order), any two upsets: a retry, a midnight, a press of the clear button, a stop with or without its last save |
| `lifecycle` | `RecordedIsKept`, `TokenRemembered`, `NothingLeaks`, `FileOnlyGrows`; live: `ComesBack` | two runtimes (the loaded one and one still to save), two ports, two messages and token requests, one reload or move to another port, one stop or crash in any phase; the four hours of `from_stored` are one tick, so a mint can be fresh or too old |
| `upstream` | `NeverLoops`, `CacheIsTrue`; live: `FindsTheVendor` | two requests whose lookups overlap, two addresses of the vendor's, a lookup of up to 3 units and a ttl of 5: a lookup may end on either side of the expiry and of another's answer; the theorems remove the bounds |
| `delivery` | `FailOpen`, `ExactlyOnceInHealth`, `HeardAtHome`, `BudgetHolds`; refinement: `ImplementsAtLeastOnce` | one event (events share nothing but the address, which may be missing, old or fresh at any try), the device's three tries and ten seconds, the code's 3 s and 4 s, a vendor that answers, is late, hangs up or answers with an error of either kind at any try, one stop or crash, with and without the shim |
| `intake` | `EveryDeviceIsAskedForOnce`, `EntitiesShowLatest`, `UnreadIsSaidOnce`, `MalformedNumberCostsItself` | two devices, one message of each kind the code tells apart (two devices in one ping, an unread field, type, alert and path, numbers malformed here and there, a run whose `mamp` is text beside a fault and an unread field), three platforms, saves at any time, one reload.  `MalformedNumberCostsItself` reads some 10,700 `/bbs_json` bodies with each combination of malformed fields, and every `/pings` body of up to two entries |

`RecordedIsKept`, `TokenRemembered` and `FileOnlyGrows` are claimed while no request
outlived its runtime's flush and no crash caught a save pending: what
those two lose is the finding of `lifecycle_flush` and the price of any delayed save.

Three messages are what the rules of `core/state.py` need: a cause (fault, mains
lost), an effect that depends on it (a backup run), and something that ends it or
follows it.  `StreakCap` stops the streak counters where the code would go on
counting.  It is a bound of the models and no claim about the code: the counters are compared
with nothing above the thresholds, and no property names it.

Each module has its type invariant `TypeOK`.  Those of `VendorVerdict`, `TokenAuth` and
`Upstream` are close to what any step assigns, and are in no run.

Deadlock is checked in `token_auth`, `firmware_gate`, `lifecycle`, `upstream` and `intake`,
which never stop.  The others end when their bound on outcomes, messages or events is
used up.

Fairness (`FairSpec`).  Every relay ends, because lookup and attempts are under
timeouts (`core/upstream.py:107`, `core/forward.py:29`): weak fairness on the
second half of each handler.  The device polls and asks for tokens for ever:
weak or, where other traffic may hold the bounded handlers, strong fairness on
their arrival.  A healthy vendor does not hang up on every single request ("about
one request in ten", `__init__.py:282`): strong fairness on being answered when
an answer is possible.  Time passes, and telemetry makes the device's entities
appear.  In `lifecycle` each step of setup and unload follows the last, Home Assistant sets
an entry up again that is down (`ConfigEntryNotReady`, a reload, a restart), and
delayed saves run: weak fairness on each.  In `upstream` requests keep coming and
a nameserver that answers is not too late every single time (strong fairness on
`LookupAnswers`).  In `delivery` time passes, a step of a relay that is due happens
(its timeouts see to that), and the device makes its next try; the vendor
and the lookup owe nothing.  Nothing is assumed about the user, nor about when the vendor changes: the
liveness properties say what follows *if* an outage, a recovery or an offer lasts.

Why these bounds of `delivery`: what is at stake is which timeout comes first, so all of
them are real.  A relay that had to look the vendor up and was then hung up on
takes up to 3 + 4 + 4 = 11 s, against the device's ten: `BudgetHolds` says that
this is the only way, and `FailOpen` and `ImplementsAtLeastOnce` hold through it.
`ExactlyOnceInHealth` says when duplicates cannot happen; when the vendor hangs or Home
Assistant goes away in the middle of a request, they do, at the vendor and here, and
nothing in the code says otherwise.

Violation runs, each a place where the code does not do what its own words say
(quoted in `PROJECT.json`, findings):

| Run | Property | What happens |
|---|---|---|
| `firmware_approve` | `ApprovedIsDelivered` | the fresh check that `approve()` asks for meets quarantine again and holds the same update again |
| `firmware_restart` | `HeldUntilApproved` | no checker is stored: after a restart there is nothing held and nothing safe to answer with, and the update passes |
| `lifecycle_flush` | `ReloadDropsNothing` | unload flushes before it stops the listener; a message handled in between is unknown to the reloaded entry |
| `telemetry_cleared_fault` | `ClearedFaultStaysCleared` | the press asks for a delayed save; a crash within the delay restores the fault |

Smaller divergences met while modelling, which no run is spent on:

- `core/auth.py:73-77`: should_mint is true for any status but 200 while the verdict is
  still "unreachable", and one answer does not lift the verdict, so the first rejection
  after an outage is replaced by a minted token although the comment says the vendor's
  answer is the one to pass on.  `RejectionsGetThrough` says that no more than that
  one is, until a relay fails again.
- `core/state.py:214`: the comparison with a `mamp` that is JSON text, which `_pump_run`
  (`core/parser.py:157`) hands on unconverted, raises after `device_for` and the merge of
  the readings.  `handle` has "parse_request never raises" (`__init__.py:432`) and "Everything the device
  says reaches one of these two" (`:436`), but neither the announcement of a new device, the update of
  its entities, the save nor `note` happens, and the device is answered 500 for a message
  that the vendor may have.  `Intake` has this path as `CutShort`; the properties there say just
  what such a message loses.  `Telemetry` and `Delivery` leave such messages out.
- `__init__.py:308` ("Say so once when the verdict on the vendor flips, not per request"):
  `was_reachable` is older than the relay, so a relay in progress at a flip says it again
  when it ends, even one that has just succeeded ("unreachable after 0 failed requests"),
  and a relay during which the verdict moves twice says neither.
- `__init__.py:346`: `SIGNAL_FIRMWARE` is sent only when an update is offered, so the
  entity goes on showing an offer that the vendor has withdrawn.
- `core/parser.py:216-222`: the repair makes a non-finite number `null`, which `time / 10`
  in `_pump_run` cannot take: such a run costs its whole message.
- `core/novelty.py:57`: `/bbs_json/<digits>` has the root of a known path and the
  parser of none, so it is neither read nor reported.
- `shim/pumpspy-shim.conf:59`: a Home Assistant that accepts a connection and never
  answers is failed over after 15 s, five after the device has left.

Every property of a passing run has a mutant in `PROJECT.json`: a plausible bug in
one mapped definition under which that run finds the property violated.

## 4. The proofs

TLAPS checks, for every value of the constants that satisfies the named
assumptions of the modules:

- `VendorVerdictProofs`: `VerdictCorrect`, both verdict
  directions for all thresholds and histories.  They are not inductive: nothing in
  them ties the counters to the history.  `IInv` adds the types, `CountsTail` (a streak is the
  length of the last run of its outcome, up to the cap) and
  `NoneMeansNoEvidence`.  The lemmas say what appending one outcome does to old
  positions, that a streak reaching its threshold is new evidence, and that the
  other streak's reset rules the other evidence out.  Assumes only that both
  thresholds are positive and the cap is at least either.
- `TokenAuthProofs`: `TypeCorrect`; `EntitiesStayCurrent`; `IssuedIsTrue`, whose
  strengthening `AuthIsAwaited` says that, until the device has walked away once, the
  handler serving a token request is the one it listens to, so every `mint` and `clear`
  goes together with the token; after that an unheard answer is remembered in `unheard`, and
  the next one heard puts both right.  `RejectionsPass`, whose strengthening
  `OverruledInv` says that while the verdict is down each replaced rejection is one of
  the answers in a row that the verdict has counted.  `LogIsTrue`.  For any set of handlers.
- `UpstreamProofs`: `TypeCorrect`, `LoopNever` and `CacheAlwaysTrue`, for any handlers,
  addresses and times.  Both invariants are inductive beside the types: an answer is
  checked before it is remembered, so nothing local is ever cached; and it is
  remembered as of the moment its lookup began, so its age and the time since the vendor
  left it grow together.
- `FirmwareGateProofs`: `TypeCorrect` (only "no update" replies are ever cached,
  only updates are ever held), `CacheAlwaysAnswers`, `HeldStaysBackAlways`,
  `EntityNeverMisses`.  `GateInv` adds that what is held, and in one run of the
  integration what was ever withheld, has a cached reply to hide behind: without it a
  second poll in flight could find nothing to answer with and pass the update on.  For
  any number of polls in flight and any set of replies.

- `DeliveryProofs`, from the budget alone (`BudgetAssumption`: a lookup and twice a
  healthy answer, two attempts of `forward`, or a lookup and one attempt each end before
  the device's patience does), for any events, tries, servers and stops:
  - `DeliversAtLeastOnce`: Delivery starts as `AtLeastOnce` may start, and each of its
    steps is a step of `AtLeastOnce` or a stutter.  `Outcome` lists the few things that
    any action does to an event, seen from outside; `Linked` adds that a request is
    somewhere only while its event is pending and that nothing is relayed that was
    not made.
  - `AlwaysHeardAtHome`: `Heard` says the same of a request that is still with the
    vendor, and that while Home Assistant is away so was each try it had.
  - `AlwaysBudgetHolds`: `Timed` bounds the age of a handler by the stages it went
    through, and ties a second attempt, or a long wait, to a fault of the vendor's.
  - `AlwaysFailsOpen`: `Waits` says that the device's wait and the age of its handler
    are one clock, so a request that the vendor has not failed reaches the shim within a
    lookup and a healthy answer, with time for another; and that the vendor has failed
    every try that is over.
  - `AlwaysOnceInHealth`: `Once` says of an event that nothing has failed so far that
    there is one handler at most, that of the present try, while the request is
    with the integration; that no try of it is over without being acknowledged; and
    that it is at the vendor and recorded here exactly when those say so.  This needs
    the budget: a retry by the device would take a relay that outlasts it, which in
    health only `Timed` and `Waits` rule out.
  - `TypeCorrect`: the bound on the copies at the vendor is not inductive by itself.
    `Counted` counts with it the handlers still alive, each of which may deliver one
    more; `Clocked` bounds each stage of a handler by its timeout.
- `IntakeProofs`, for any devices and messages:
  - `AskedExactlyOnce`, strengthened to the platforms that are not set up, which must not
    have asked; `EntitiesAlwaysCurrent`, inductive beside the domains of what it reads.
    Both hold whatever the parsers make of a body, and for messages that are cut short
    say what is missed: `AskedInv` follows `missed` from the message to the set-up of the
    platforms, and a reload ends it.
  - `SaidExactlyOnce`: the code decides what to say by what its parsers returned
    (`Sightings`), the property by what was on the wire (`Unread`).
    `SightingsAreUnread` shows them equal for every message; `SaidInv` then says that
    `_seen` is just what was heard, in the messages that were handled to their end.
  - `TypeCorrect`: that whatever is read of a body, at the first or the second try, is a
    reading, so that no malformed number ever reaches a device state
    (`ParsedTypes`).  The ping that stays is the last one of its device, whose
    existence (`Least`) is argued from the well-foundedness of `<`.
  - `MalformedCostsItself`: `EveryFieldReadsAround` for each of the 7^7 ways the fields of a
    body may be written, `EveryPingReadsAround` for arrays of any length; the run
    enumerates a part of the former and arrays of up to two.
- `TelemetryProofs`, for any readings, messages, upsets and stops:
  - `FaultIsLatched`, `LastTestIsRight`, `TotalsAreRight`.  The invariants read the whole
    log, the code only folds the latest message into its state.  Lemmas about any log
    say what one more entry does to each reading of it (whether a fault stands, mains are
    gone, a run counts, a day's runs); lemmas about `apply` say what it does to each
    field; the two agree field by field, so `Reflects` is kept.  `Reflects` must say
    more than the three properties do: where mains stand, because the next self-test depends
    on it, and of which day the daily totals are, because the next rollover does.
    `Reflected` claims it of the state on disk too, with the log saved beside it:
    without that nothing would be known after a restore.
  - `RunsFireOnce`: `Firing` adds that the one held run is owed to an entity that is not
    there yet, and that the file never holds one.
  - `NothingStaysUnsaved`: inductive beside `Types` and `Firing`, as what a restore brings
    back must be its own stored part.
  - `NothingIsLost`: `Recorded`, every message done with has its entry, until the first stop.
  - `TypeCorrect`, with what the types rest on: a message has a fate exactly once it is made.
- `LifecycleProofs`, for any slots, ports, messages and bounds:
  - `NoLeaks`: `Held` adds in which phases a runtime has its session, its port and handlers.
  - `FileGrows` and `NothingForgotten`: `Saved` says that while nothing has straggled only a
    loaded runtime has a save pending, that it knows at least what the file says, and just
    that when no save is pending.  So no other Store has anything to write, and what a
    write replaces is never more than what it brings.
  - `TokenIsRemembered`: `Remembered` says the same of the mint time, for as long as the
    token is not due to be replaced.
  - `TypeCorrect`.

Every safety invariant and action property of the passing runs is thus proved.
Model-checked only: liveness (`KeepsReportingInOutage`, `RecoversByItself`,
`LastingOfferIsAnnounced`, `ObserveDelivers`, `FindsTheVendor`, `ComesBack`) and the
liveness half of `ImplementsAtLeastOnce`, which rest on fairness and so on ENABLED, out of
the prover's reach.  The properties of the violation runs are refuted by TLC, and nothing
is proved about them.

## 5. Not modelled, and the plan

Order of work, most important behaviour first:

1. *(done)* `VendorHealth`, `VendorVerdict`, `Relay`, `TokenAuth`, `FirmwareGate`,
   `DeviceState`, `Telemetry`, with the proofs above.
2. *(done)* `Lifecycle`, model-checked.
3. *(done)* `Upstream`, `AtLeastOnce`, `Delivery`, `Parser`, `Novelty` and `Intake`,
   with the proofs above.
4. *(done)* Proofs of everything that `Telemetry`, `Lifecycle`, `Delivery` and `Intake`
   claim but liveness: `TelemetryProofs`, `LifecycleProofs`, and the later parts of
   `DeliveryProofs` and `IntakeProofs`.
5. A Home Assistant that accepts requests and never answers, in `Delivery`, with what the
   shim's 15 s do to `FailOpen`; then the proofs that this addition touches.

Not modelled: in the shim, the bodyless GETs (their failover differs only in not
replaying a 502), and the health endpoint that withdraws the redirect; in the relay, what an error status of the
vendor's says beyond whether the shim replays it; in the entry, the first dialog (one
entry only), a failure to forward or unload the platforms, and the removal of the entry; in the
device state, gallons and what no decision reads; of the entities, the views that differ
only in the field they show, their names and registry data.  nginx and
Home Assistant are modelled only as the code uses them.  The dashboard, docs and
packaging have no behaviour of their own.
