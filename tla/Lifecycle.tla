------------------------------ MODULE Lifecycle ------------------------------
(***************************************************************************)
(* The life of a config entry: async_setup_entry and async_unload_entry in *)
(* __init__.py, the reconfigure dialog in config_flow.py, and what is kept *)
(* on disk through reloads, failed binds, stops and crashes.               *)
(*                                                                         *)
(* Every setup makes a runtime of its own, with its own session, listener  *)
(* and Store; all of them write the same file.  A runtime that has been    *)
(* unloaded is not gone: a delayed save it was asked for still runs.       *)
(*                                                                         *)
(* Home Assistant (external) retries a setup that was not ready, sets the  *)
(* entry up again after a restart, and writes what is pending when it      *)
(* stops in an orderly way.                                                *)
(***************************************************************************)
EXTENDS Naturals, FiniteSets

CONSTANTS
    Slots,          \* bound: runtimes there can be at once, unloaded ones
                    \* with a save still pending included
    NoSlot,         \* no runtime
    Ports,          \* ports the entry may be configured to listen on
    NoPort,         \* not listening
    Messages,       \* bound: telemetry messages the device makes
    Auth,           \* a token request
    Never,          \* issued_at is None
    ReauthHours,    \* DEVICE_REAUTH_INTERVAL_HOURS
    MaxClock,       \* bound: hours
    MaxReloads,     \* bound: reloads by the user
    MaxStops        \* bound: stops and crashes of Home Assistant, together

ASSUME ValueAssumption ==
    /\ NoSlot \notin Slots
    /\ NoPort \notin Ports
    /\ Auth \notin Messages
    /\ Never \notin Nat
    /\ {ReauthHours, MaxClock, MaxReloads, MaxStops} \subseteq Nat

VARIABLES
    phase,      \* how far setup or unload has got
    current,    \* the slot of the entry's runtime, from setup to unload
    runtime,    \* runtime[s]
    port,       \* entry.data[CONF_PORT]
    disk,       \* the stored file
    inflight,   \* [slot, request] of the handlers that are relaying
    taken,      \* external: ports other programs listen on
    unsent,     \* external: messages the device has still to make
    token,      \* external: the token the device carries, and since when
    clock,      \* external: the hour
    recorded,   \* history: messages a runtime has recorded
    straggled,  \* history: something was handled after its runtime's flush
    crashed,    \* history: a crash has caught a save still pending
    reloads,
    stops

external == <<taken, unsent, token, clock>>
counters == <<reloads, stops>>
history  == <<recorded, straggled, crashed>>
vars == <<phase, current, runtime, port, disk, inflight, taken, unsent, token,
          clock, recorded, straggled, crashed, reloads, stops>>

Phase == {"down", "loading", "restored", "starting", "up",
          "unloading", "flushed", "draining"}

(* A slot nothing lives in.                                                *)
Empty == [known |-> {}, issued |-> Never, pending |-> FALSE,
          session |-> FALSE, port |-> NoPort]

as_stored(r) == [known |-> r.known, issued |-> r.issued]

Init ==
    /\ phase = "down"
    /\ current = NoSlot
    /\ runtime = [s \in Slots |-> Empty]
    /\ port \in Ports
    /\ disk = [known |-> {}, issued |-> Never]
    /\ inflight = {}
    /\ taken \in SUBSET Ports
    /\ unsent = Messages
    /\ token = [from |-> "vendor", at |-> 0]
    /\ clock = 0
    /\ recorded = {}
    /\ straggled = FALSE
    /\ crashed = FALSE
    /\ reloads = 0
    /\ stops = 0

-----------------------------------------------------------------------------
(* Setup up to the await of async_load: a session and a runtime.           *)
SetupStarts ==
    /\ phase = "down"
    /\ \E s \in Slots :
         /\ runtime[s] = Empty
         /\ current' = s
         /\ runtime' = [runtime EXCEPT ![s].session = TRUE]
    /\ phase' = "loading"
    /\ UNCHANGED <<port, disk, inflight>>
    /\ UNCHANGED <<external, history, counters>>

\* Mutant of issued_from_stored: the record starts afresh with each runtime.
issued_forgotten(issued) == Never

(* LocalAuth.from_stored: one too old to believe is discarded.             *)
issued_from_stored(issued) ==
    IF issued = Never THEN Never
    ELSE IF clock - issued >= ReauthHours THEN Never ELSE issued

\* Mutant of Restore: the devices are not restored.
RestoreTokenOnly ==
    /\ phase = "loading"
    /\ runtime' = [runtime EXCEPT ![current].issued =
                                            issued_from_stored(disk.issued)]
    /\ phase' = "restored"
    /\ UNCHANGED <<current, port, disk, inflight>>
    /\ UNCHANGED <<external, history, counters>>

(* The file has been read.                                                 *)
Restore ==
    /\ phase = "loading"
    /\ runtime' = [runtime EXCEPT ![current].known = disk.known,
                                  ![current].issued =
                                            issued_from_stored(disk.issued)]
    /\ phase' = "restored"
    /\ UNCHANGED <<current, port, disk, inflight>>
    /\ UNCHANGED <<external, history, counters>>

PortHeld == port \in taken \/ \E s \in Slots : runtime[s].port = port

Bind ==
    /\ phase = "restored"
    /\ ~PortHeld
    /\ runtime' = [runtime EXCEPT ![current].port = port]
    /\ phase' = "starting"
    /\ UNCHANGED <<current, port, disk, inflight>>
    /\ UNCHANGED <<external, history, counters>>

\* Mutant of BindFails: the session is left open.
BindFailsLeaving ==
    /\ phase = "restored"
    /\ PortHeld
    /\ current' = NoSlot
    /\ phase' = "down"
    /\ UNCHANGED <<runtime, port, disk, inflight>>
    /\ UNCHANGED <<external, history, counters>>

\* Mutant of BindFails: the runtime stays in hass.data.
BindFailsKeeping ==
    /\ phase = "restored"
    /\ PortHeld
    /\ runtime' = [runtime EXCEPT ![current] = Empty]
    /\ phase' = "down"
    /\ UNCHANGED <<current, port, disk, inflight>>
    /\ UNCHANGED <<external, history, counters>>

(* OSError: all that was made is undone by hand, and ConfigEntryNotReady   *)
(* makes Home Assistant try again later.                                   *)
BindFails ==
    /\ phase = "restored"
    /\ PortHeld
    /\ runtime' = [runtime EXCEPT ![current] = Empty]
    /\ current' = NoSlot
    /\ phase' = "down"
    /\ UNCHANGED <<port, disk, inflight>>
    /\ UNCHANGED <<external, history, counters>>

(* The platforms have been forwarded: the entry is loaded.                 *)
PlatformsReady ==
    /\ phase = "starting"
    /\ phase' = "up"
    /\ UNCHANGED <<current, runtime, port, disk, inflight>>
    /\ UNCHANGED <<external, history, counters>>

-----------------------------------------------------------------------------
(* A request reaches the listener, whatever the entry is doing meanwhile.  *)
RequestArrives(s, r) ==
    /\ runtime[s].port # NoPort
    /\ IF r = Auth THEN /\ \A i \in inflight : i.request # Auth
                        /\ UNCHANGED unsent
                   ELSE /\ r \in unsent
                        /\ unsent' = unsent \ {r}
    /\ inflight' = inflight \cup {[slot |-> s, request |-> r]}
    /\ UNCHANGED <<phase, current, runtime, port, disk, taken, token, clock>>
    /\ UNCHANGED <<history, counters>>

(* Handled by a runtime whose state has already been flushed.              *)
Straggles(s) == straggled' = (straggled \/ s # current \/
                              phase \in {"flushed", "draining"})

(* A telemetry message is recorded.                                        *)
Recorded(s, m) ==
    /\ [slot |-> s, request |-> m] \in inflight
    /\ inflight' = inflight \ {[slot |-> s, request |-> m]}
    /\ runtime' = [runtime EXCEPT ![s].known = @ \cup {m},
                                  ![s].pending = TRUE]
    /\ recorded' = recorded \cup {m}
    /\ Straggles(s)
    /\ UNCHANGED <<phase, current, port, disk, crashed>>
    /\ UNCHANGED <<external, counters>>

(* A token request is answered: with a token of ours, with one of the      *)
(* vendor's, or with neither.                                              *)
AuthAnswered(s, from) ==
    /\ [slot |-> s, request |-> Auth] \in inflight
    /\ inflight' = inflight \ {[slot |-> s, request |-> Auth]}
    /\ IF from = "nobody"
       THEN UNCHANGED <<runtime, token, straggled>>
       ELSE /\ runtime' = [runtime EXCEPT
                             ![s].issued = IF from = "local" THEN clock ELSE Never,
                             ![s].pending = TRUE]
            /\ token' = [from |-> from, at |-> clock]
            /\ Straggles(s)
    /\ UNCHANGED <<phase, current, port, disk, taken, unsent, clock, recorded,
                   crashed>>
    /\ UNCHANGED counters

(* A delayed save, of a loaded runtime or of one that is not any more.     *)
SaveRuns(s) ==
    /\ runtime[s].pending
    /\ disk' = as_stored(runtime[s])
    /\ runtime' = [runtime EXCEPT ![s] = IF s = current
                                         THEN [@ EXCEPT !.pending = FALSE]
                                         ELSE Empty]
    /\ UNCHANGED <<phase, current, port, inflight>>
    /\ UNCHANGED <<external, history, counters>>

-----------------------------------------------------------------------------
(* The dialog: a port to move to is probed first, any other change is not. *)
(* Loaded or waiting for a retry, the entry is then reloaded.              *)
Reconfigure(p) ==
    /\ phase \in {"up", "down"}
    /\ reloads < MaxReloads
    /\ p # port => p \notin taken
    /\ reloads' = reloads + 1
    /\ port' = p
    /\ phase' = IF phase = "up" THEN "unloading" ELSE phase
    /\ UNCHANGED <<current, runtime, disk, inflight, stops>>
    /\ UNCHANGED <<external, history>>

\* Mutant of UnloadFlushes: the delayed save is relied on.
UnloadDoesNotFlush ==
    /\ phase = "unloading"
    /\ phase' = "flushed"
    /\ UNCHANGED <<current, runtime, port, disk, inflight>>
    /\ UNCHANGED <<external, history, counters>>

(* The platforms are unloaded; the state is written, which also consumes a *)
(* save that was pending.                                                  *)
UnloadFlushes ==
    /\ phase = "unloading"
    /\ disk' = as_stored(runtime[current])
    /\ runtime' = [runtime EXCEPT ![current].pending = FALSE]
    /\ phase' = "flushed"
    /\ UNCHANGED <<current, port, inflight>>
    /\ UNCHANGED <<external, history, counters>>

\* Mutant of ListenerStops: the listener goes on.
ListenerStays ==
    /\ phase = "flushed"
    /\ phase' = "draining"
    /\ UNCHANGED <<current, runtime, port, disk, inflight>>
    /\ UNCHANGED <<external, history, counters>>

(* runner.cleanup(): no more connections are taken ...                     *)
ListenerStops ==
    /\ phase = "flushed"
    /\ runtime' = [runtime EXCEPT ![current].port = NoPort]
    /\ phase' = "draining"
    /\ UNCHANGED <<current, port, disk, inflight>>
    /\ UNCHANGED <<external, history, counters>>

(* ... and it returns when the handlers have; then the session is closed.  *)
UnloadEnds ==
    /\ phase = "draining"
    /\ \A i \in inflight : i.slot # current
    /\ runtime' = [runtime EXCEPT ![current] =
                     IF @.pending THEN [@ EXCEPT !.session = FALSE]
                     ELSE [Empty EXCEPT !.port = runtime[current].port]]
    /\ current' = NoSlot
    /\ phase' = "down"
    /\ UNCHANGED <<port, disk, inflight>>
    /\ UNCHANGED <<external, history, counters>>

(* Home Assistant stops.  An orderly stop writes what is pending, in any   *)
(* order (the last one stays); a crash or a power cut does not.            *)
Stop(orderly) ==
    /\ stops < MaxStops
    /\ stops' = stops + 1
    /\ LET waiting == {s \in Slots : runtime[s].pending} IN
         /\ crashed' = (crashed \/ (~orderly /\ waiting # {}))
         /\ IF orderly /\ waiting # {}
            THEN \E s \in waiting : disk' = as_stored(runtime[s])
            ELSE UNCHANGED disk
    /\ runtime' = [s \in Slots |-> Empty]
    /\ current' = NoSlot
    /\ inflight' = {}
    /\ phase' = "down"
    /\ UNCHANGED <<port, recorded, straggled, reloads>>
    /\ UNCHANGED external

-----------------------------------------------------------------------------
(* External: another program takes a free port or gives one back.          *)
OtherTakes(p) ==
    /\ p \notin taken
    /\ \A s \in Slots : runtime[s].port # p
    /\ taken' = taken \cup {p}
    /\ UNCHANGED <<phase, current, runtime, port, disk, inflight, unsent, token,
                   clock>>
    /\ UNCHANGED <<history, counters>>

OtherReleases(p) ==
    /\ p \in taken
    /\ taken' = taken \ {p}
    /\ UNCHANGED <<phase, current, runtime, port, disk, inflight, unsent, token,
                   clock>>
    /\ UNCHANGED <<history, counters>>

(* External: with nobody listening the shim takes the device to the vendor.*)
TokenElsewhere ==
    /\ \A s \in Slots : runtime[s].port = NoPort
    /\ token' = [from |-> "vendor", at |-> clock]
    /\ UNCHANGED <<phase, current, runtime, port, disk, inflight, taken, unsent,
                   clock>>
    /\ UNCHANGED <<history, counters>>

Hour ==
    /\ clock < MaxClock
    /\ clock' = clock + 1
    /\ UNCHANGED <<phase, current, runtime, port, disk, inflight, taken, unsent,
                   token>>
    /\ UNCHANGED <<history, counters>>

Next ==
    \/ SetupStarts
    \/ Restore
    \/ Bind
    \/ BindFails
    \/ PlatformsReady
    \/ \E s \in Slots :
         \/ \E r \in Messages \cup {Auth} : RequestArrives(s, r)
         \/ \E m \in Messages : Recorded(s, m)
         \/ \E from \in {"local", "vendor", "nobody"} : AuthAnswered(s, from)
         \/ SaveRuns(s)
    \/ \E p \in Ports : Reconfigure(p) \/ OtherTakes(p) \/ OtherReleases(p)
    \/ UnloadFlushes
    \/ ListenerStops
    \/ UnloadEnds
    \/ \E orderly \in BOOLEAN : Stop(orderly)
    \/ TokenElsewhere
    \/ Hour

(* The steps of setup and unload follow each other, Home Assistant sets    *)
(* the entry up again, relays end, delayed saves run.                      *)
Fairness ==
    /\ WF_vars(SetupStarts) /\ WF_vars(Restore)
    /\ WF_vars(Bind \/ BindFails) /\ WF_vars(PlatformsReady)
    /\ WF_vars(UnloadFlushes) /\ WF_vars(ListenerStops) /\ WF_vars(UnloadEnds)
    /\ \A s \in Slots :
         /\ WF_vars(\E m \in Messages : Recorded(s, m))
         /\ WF_vars(\E from \in {"local", "vendor", "nobody"} : AuthAnswered(s, from))
         /\ WF_vars(SaveRuns(s))

Spec == Init /\ [][Next]_vars

FairSpec == Spec /\ Fairness

-----------------------------------------------------------------------------
Times == Nat \cup {Never}

Kept == [known : SUBSET Messages, issued : Times]

(* Every variable has its type, and there is a current runtime exactly     *)
(* from the start of setup to the end of unload.                           *)
TypeOK ==
    /\ phase \in Phase
    /\ current \in Slots \cup {NoSlot}
    /\ current = NoSlot <=> phase = "down"
    /\ runtime \in [Slots -> [known : SUBSET Messages, issued : Times,
                              pending : BOOLEAN, session : BOOLEAN,
                              port : Ports \cup {NoPort}]]
    /\ port \in Ports
    /\ disk \in Kept
    /\ inflight \subseteq [slot : Slots, request : Messages \cup {Auth}]
    /\ taken \subseteq Ports
    /\ unsent \subseteq Messages
    /\ token \in [from : {"local", "vendor"}, at : Nat]
    /\ clock \in 0 .. MaxClock
    /\ recorded \subseteq Messages
    /\ straggled \in BOOLEAN
    /\ crashed \in BOOLEAN
    /\ reloads \in 0 .. MaxReloads
    /\ stops \in 0 .. MaxStops

(* What the entry knows now: its runtime's state once that was restored    *)
(* and until it is flushed, the stored file otherwise.                     *)
Loaded == phase \in {"restored", "starting", "up", "unloading"}
State == IF Loaded THEN as_stored(runtime[current]) ELSE disk

(* Whatever has been recorded is known after any reloads, failed binds,    *)
(* retries and stops, unless a crash came within the delay of a save or a  *)
(* request outlived its runtime's flush (__init__.py, async_setup_entry    *)
(* and async_unload_entry together).                                       *)
RecordedIsKept ==
    ~crashed /\ ~straggled => recorded \subseteq State.known

(* While the device carries a token minted here, and is not yet due to ask *)
(* for another, a restart or a reload does not make the entry deny it      *)
(* (__init__.py, restoring local_auth; auth.py, from_stored).              *)
TokenRemembered ==
    Loaded /\ ~crashed /\ ~straggled
           /\ token.from = "local" /\ clock - token.at < ReauthHours
      => State.issued = token.at

(* No write replaces the file by one that knows less, though every setup   *)
(* has a Store of its own on it; only a request that outlived its          *)
(* runtime's flush can (PumpspyRuntime.as_stored, async_unload_entry).     *)
FileOnlyGrows == [][~straggled' => disk.known \subseteq disk'.known]_vars

(* Whichever way a setup ends, unload or failed bind, its session and its  *)
(* port go with it; and a request is only ever relayed with a session that *)
(* is open (__init__.py, the OSError branch; async_unload_entry closes the *)
(* session after the listener).                                            *)
NothingLeaks ==
    /\ \A s \in Slots :
         runtime[s].session \/ runtime[s].port # NoPort => s = current
    /\ \A i \in inflight : runtime[i.slot].session

(* If other programs leave the ports alone for good, the entry comes up    *)
(* again and again after whatever reloads and stops, instead of failing on *)
(* a port that it holds itself (__init__.py, ConfigEntryNotReady; unload   *)
(* releases the port).                                                     *)
ComesBack == <>[](taken = {}) => []<>(phase = "up")

(* Claimed by the comment in async_unload_entry: as unload flushes the     *)
(* state, a reload drops nothing that was reported in the last seconds.    *)
ReloadDropsNothing ==
    phase = "up" /\ ~crashed => recorded \subseteq runtime[current].known
=============================================================================
