--------------------------- MODULE LifecycleProofs ---------------------------
(***************************************************************************)
(* For any slots, ports and messages and any bounds: what is open belongs  *)
(* to the current runtime, no write of the file forgets, and neither a     *)
(* message nor the token is forgotten by a reload, a failed bind, a retry  *)
(* or a restart.                                                           *)
(*                                                                         *)
(* First what each action does to the runtimes, slot by slot and field by  *)
(* field; every invariant below is then argued from these facts.           *)
(***************************************************************************)
EXTENDS Lifecycle, TLAPS

Runtime == [known : SUBSET Messages, issued : Times, pending : BOOLEAN,
            session : BOOLEAN, port : Ports \cup {NoPort}]

LEMMA TypeFacts ==
    ASSUME TypeOK
    PROVE  /\ phase \in Phase /\ current \in Slots \cup {NoSlot}
           /\ current = NoSlot <=> phase = "down"
           /\ phase # "down" <=> current \in Slots
           /\ runtime \in [Slots -> Runtime]
           /\ port \in Ports /\ disk \in Kept
           /\ inflight \subseteq [slot : Slots, request : Messages \cup {Auth}]
           /\ taken \subseteq Ports /\ unsent \subseteq Messages
           /\ token \in [from : {"local", "vendor"}, at : Nat]
           /\ clock \in 0 .. MaxClock /\ clock \in Nat
           /\ recorded \subseteq Messages
           /\ straggled \in BOOLEAN /\ crashed \in BOOLEAN
           /\ reloads \in 0 .. MaxReloads /\ stops \in 0 .. MaxStops
BY ValueAssumption DEF TypeOK, Runtime

LEMMA EmptyRuntime == Empty \in Runtime
BY DEF Empty, Runtime, Times

LEMMA StoredKept == ASSUME NEW r \in Runtime
                    PROVE  /\ as_stored(r) \in Kept
                           /\ as_stored(r).known = r.known
                           /\ as_stored(r).issued = r.issued
BY DEF as_stored, Runtime, Kept

(* One slot gets a new runtime r; the others keep theirs.                  *)
Becomes(s, r) ==
    /\ s \in Slots
    /\ r \in Runtime
    /\ runtime' \in [Slots -> Runtime]
    /\ runtime'[s] = r
    /\ \A x \in Slots : x # s => runtime'[x] = runtime[x]

LEMMA OneChanges ==
    ASSUME TypeOK, NEW s \in Slots, NEW r \in Runtime,
           runtime' = [runtime EXCEPT ![s] = r]
    PROVE  Becomes(s, r)
BY TypeFacts DEF Becomes

-----------------------------------------------------------------------------
LEMMA SetupMakes ==
    ASSUME TypeOK, SetupStarts
    PROVE  /\ current' \in Slots /\ runtime[current'] = Empty
           /\ Becomes(current', [Empty EXCEPT !.session = TRUE])
<1>1. PICK s \in Slots : /\ runtime[s] = Empty
                         /\ current' = s
                         /\ runtime' = [runtime EXCEPT ![s].session = TRUE]
  BY DEF SetupStarts
<1>2. [Empty EXCEPT !.session = TRUE] \in Runtime
  BY EmptyRuntime DEF Runtime
<1>3. runtime' = [runtime EXCEPT ![s] = [Empty EXCEPT !.session = TRUE]]
  BY <1>1
<1> QED
  BY <1>1, <1>2, <1>3, OneChanges

LEMMA RestoreReads ==
    ASSUME TypeOK, Restore
    PROVE  Becomes(current, [runtime[current] EXCEPT
                               !.known = disk.known,
                               !.issued = issued_from_stored(disk.issued)])
<1> DEFINE r == [runtime[current] EXCEPT
                               !.known = disk.known,
                               !.issued = issued_from_stored(disk.issued)]
<1>1. current \in Slots /\ runtime[current] \in Runtime /\ disk \in Kept
  BY TypeFacts DEF Restore
<1>2. issued_from_stored(disk.issued) \in Times
  BY <1>1 DEF issued_from_stored, Kept, Times
<1>3. r \in Runtime
  BY <1>1, <1>2 DEF Runtime, Kept
<1>4. runtime' = [runtime EXCEPT ![current] = r]
  BY <1>1 DEF Restore
<1> QED
  BY <1>1, <1>3, <1>4, OneChanges

LEMMA BindTakes ==
    ASSUME TypeOK, Bind
    PROVE  Becomes(current, [runtime[current] EXCEPT !.port = port])
<1> DEFINE r == [runtime[current] EXCEPT !.port = port]
<1>1. current \in Slots /\ runtime[current] \in Runtime /\ port \in Ports
  BY TypeFacts DEF Bind
<1>2. r \in Runtime
  BY <1>1 DEF Runtime
<1>3. runtime' = [runtime EXCEPT ![current] = r]
  BY <1>1 DEF Bind
<1> QED
  BY <1>1, <1>2, <1>3, OneChanges

LEMMA BindFailsUndoes ==
    ASSUME TypeOK, BindFails
    PROVE  Becomes(current, Empty)
<1>1. current \in Slots
  BY TypeFacts DEF BindFails
<1> QED
  BY <1>1, EmptyRuntime, OneChanges DEF BindFails

LEMMA RecordedAdds ==
    ASSUME TypeOK, NEW s \in Slots, NEW m \in Messages, Recorded(s, m)
    PROVE  Becomes(s, [runtime[s] EXCEPT !.known = @ \cup {m}, !.pending = TRUE])
<1> DEFINE r == [runtime[s] EXCEPT !.known = @ \cup {m}, !.pending = TRUE]
<1>1. runtime[s] \in Runtime
  BY TypeFacts
<1>2. r \in Runtime
  BY <1>1 DEF Runtime
<1>3. runtime' = [runtime EXCEPT ![s] = r]
  BY <1>1 DEF Recorded
<1> QED
  BY <1>2, <1>3, OneChanges

(* The same, field by field.                                               *)
LEMMA RecordedFields ==
    ASSUME TypeOK, NEW s \in Slots, NEW m \in Messages, Recorded(s, m)
    PROVE  /\ runtime'[s].known = runtime[s].known \cup {m}
           /\ runtime'[s].issued = runtime[s].issued
           /\ runtime'[s].pending = TRUE
           /\ \A x \in Slots : x # s => runtime'[x] = runtime[x]
<1> DEFINE r == [runtime[s] EXCEPT !.known = @ \cup {m}, !.pending = TRUE]
<1>1. runtime[s] \in Runtime
  BY TypeFacts
<1>2. /\ r.known = runtime[s].known \cup {m} /\ r.issued = runtime[s].issued
      /\ r.pending = TRUE
  BY <1>1 DEF Runtime
<1>3. Becomes(s, r)
  BY RecordedAdds
<1> HIDE DEF r
<1> QED
  BY <1>2, <1>3 DEF Becomes

LEMMA AuthIssues ==
    ASSUME TypeOK, NEW s \in Slots, NEW from, AuthAnswered(s, from), from # "nobody"
    PROVE  Becomes(s, [runtime[s] EXCEPT
                         !.issued = IF from = "local" THEN clock ELSE Never,
                         !.pending = TRUE])
<1> DEFINE r == [runtime[s] EXCEPT
                   !.issued = IF from = "local" THEN clock ELSE Never,
                   !.pending = TRUE]
<1>1. runtime[s] \in Runtime /\ clock \in Nat
  BY TypeFacts
<1>2. r \in Runtime
  BY <1>1 DEF Runtime, Times
<1>3. runtime' = [runtime EXCEPT ![s] = r]
  BY <1>1 DEF AuthAnswered
<1> QED
  BY <1>2, <1>3, OneChanges

LEMMA AuthFields ==
    ASSUME TypeOK, NEW s \in Slots, NEW from, AuthAnswered(s, from), from # "nobody"
    PROVE  /\ runtime'[s].known = runtime[s].known
           /\ runtime'[s].issued = IF from = "local" THEN clock ELSE Never
           /\ runtime'[s].pending = TRUE
           /\ \A x \in Slots : x # s => runtime'[x] = runtime[x]
<1> DEFINE i == IF from = "local" THEN clock ELSE Never
           r == [runtime[s] EXCEPT !.issued = i, !.pending = TRUE]
<1>1. Becomes(s, r)
  BY AuthIssues
<1>2. runtime[s] \in Runtime
  BY TypeFacts
<1> HIDE DEF i
<1>3. r.known = runtime[s].known /\ r.issued = i /\ r.pending = TRUE
  BY <1>2 DEF Runtime
<1> HIDE DEF r
<1>4. runtime'[s].issued = i
  BY <1>1, <1>3 DEF Becomes
<1> QED
  BY <1>1, <1>3, <1>4 DEF Becomes, i

LEMMA SaveConsumes ==
    ASSUME TypeOK, NEW s \in Slots, SaveRuns(s)
    PROVE  Becomes(s, IF s = current THEN [runtime[s] EXCEPT !.pending = FALSE] ELSE Empty)
<1> DEFINE r == IF s = current THEN [runtime[s] EXCEPT !.pending = FALSE] ELSE Empty
<1>1. runtime[s] \in Runtime
  BY TypeFacts
<1>2. r \in Runtime
  BY <1>1, EmptyRuntime DEF Runtime
<1>3. runtime' = [runtime EXCEPT ![s] = r]
  BY <1>1 DEF SaveRuns
<1> QED
  BY <1>2, <1>3, OneChanges

LEMMA FlushConsumes ==
    ASSUME TypeOK, UnloadFlushes
    PROVE  Becomes(current, [runtime[current] EXCEPT !.pending = FALSE])
<1> DEFINE r == [runtime[current] EXCEPT !.pending = FALSE]
<1>1. current \in Slots /\ runtime[current] \in Runtime
  BY TypeFacts DEF UnloadFlushes
<1>2. r \in Runtime
  BY <1>1 DEF Runtime
<1>3. runtime' = [runtime EXCEPT ![current] = r]
  BY <1>1 DEF UnloadFlushes
<1> QED
  BY <1>1, <1>2, <1>3, OneChanges

LEMMA StopReleases ==
    ASSUME TypeOK, ListenerStops
    PROVE  Becomes(current, [runtime[current] EXCEPT !.port = NoPort])
<1> DEFINE r == [runtime[current] EXCEPT !.port = NoPort]
<1>1. current \in Slots /\ runtime[current] \in Runtime
  BY TypeFacts DEF ListenerStops
<1>2. r \in Runtime
  BY <1>1 DEF Runtime
<1>3. runtime' = [runtime EXCEPT ![current] = r]
  BY <1>1 DEF ListenerStops
<1> QED
  BY <1>1, <1>2, <1>3, OneChanges

(* A runtime with a save still to run outlives its entry, with nothing open*)
(* but what ListenerStops left.                                            *)
LEMMA UnloadLeaves ==
    ASSUME TypeOK, UnloadEnds
    PROVE  Becomes(current,
             IF runtime[current].pending THEN [runtime[current] EXCEPT !.session = FALSE]
             ELSE [Empty EXCEPT !.port = runtime[current].port])
<1> DEFINE r == IF runtime[current].pending
                THEN [runtime[current] EXCEPT !.session = FALSE]
                ELSE [Empty EXCEPT !.port = runtime[current].port]
<1>1. current \in Slots /\ runtime[current] \in Runtime
  BY TypeFacts DEF UnloadEnds
<1>2. r \in Runtime
  BY <1>1, EmptyRuntime DEF Runtime
<1>3. runtime' = [runtime EXCEPT ![current] = r]
  BY <1>1 DEF UnloadEnds
<1> QED
  BY <1>1, <1>2, <1>3, OneChanges

-----------------------------------------------------------------------------
LEMMA TypeIsRuntime ==
    TypeOK <=> /\ phase \in Phase
               /\ current \in Slots \cup {NoSlot}
               /\ current = NoSlot <=> phase = "down"
               /\ runtime \in [Slots -> Runtime]
               /\ port \in Ports
               /\ disk \in Kept
               /\ inflight \subseteq [slot : Slots, request : Messages \cup {Auth}]
               /\ taken \subseteq Ports
               /\ unsent \subseteq Messages
               /\ token \in [from : {"local", "vendor"}, at : Nat]
               /\ clock \in 0 .. MaxClock
               /\ recorded \subseteq Messages
               /\ straggled \in BOOLEAN
               /\ crashed \in BOOLEAN
               /\ reloads \in 0 .. MaxReloads
               /\ stops \in 0 .. MaxStops
BY DEF TypeOK, Runtime

LEMMA Bounds == MaxClock \in Nat /\ MaxReloads \in Nat /\ MaxStops \in Nat /\ ReauthHours \in Nat
BY ValueAssumption

LEMMA StepTypes == TypeOK /\ [Next]_vars => TypeOK'
<1> SUFFICES ASSUME TypeOK, [Next]_vars PROVE TypeOK'
  OBVIOUS
<1>0. /\ phase \in Phase /\ current \in Slots \cup {NoSlot}
      /\ current = NoSlot <=> phase = "down"
      /\ phase # "down" <=> current \in Slots
      /\ runtime \in [Slots -> Runtime]
      /\ port \in Ports /\ disk \in Kept
      /\ inflight \subseteq [slot : Slots, request : Messages \cup {Auth}]
      /\ taken \subseteq Ports /\ unsent \subseteq Messages
      /\ token \in [from : {"local", "vendor"}, at : Nat]
      /\ clock \in 0 .. MaxClock /\ clock \in Nat
      /\ recorded \subseteq Messages
      /\ straggled \in BOOLEAN /\ crashed \in BOOLEAN
      /\ reloads \in 0 .. MaxReloads /\ stops \in 0 .. MaxStops
      /\ MaxClock \in Nat /\ MaxReloads \in Nat /\ MaxStops \in Nat
      /\ NoSlot \notin Slots
  BY TypeFacts, Bounds, ValueAssumption
<1> DEFINE Typed ==
      /\ phase' \in Phase
      /\ current' \in Slots \cup {NoSlot}
      /\ current' = NoSlot <=> phase' = "down"
      /\ runtime' \in [Slots -> Runtime]
      /\ port' \in Ports
      /\ disk' \in Kept
      /\ inflight' \subseteq [slot : Slots, request : Messages \cup {Auth}]
      /\ taken' \subseteq Ports
      /\ unsent' \subseteq Messages
      /\ token' \in [from : {"local", "vendor"}, at : Nat]
      /\ clock' \in 0 .. MaxClock
      /\ recorded' \subseteq Messages
      /\ straggled' \in BOOLEAN
      /\ crashed' \in BOOLEAN
      /\ reloads' \in 0 .. MaxReloads
      /\ stops' \in 0 .. MaxStops
<1>1. ASSUME Typed PROVE TypeOK'
  BY <1>1 DEF TypeOK, Runtime, Kept, Times
<1>2. CASE SetupStarts
  <2>1. current' \in Slots /\ runtime' \in [Slots -> Runtime]
    BY <1>2, SetupMakes DEF Becomes
  <2>2. Typed
    BY <1>0, <1>2, <2>1 DEF SetupStarts, external, history, counters, Phase
  <2> QED
    BY <1>1, <2>2
<1>3. CASE Restore
  <2>1. runtime' \in [Slots -> Runtime]
    BY <1>3, RestoreReads DEF Becomes
  <2>2. Typed
    BY <1>0, <1>3, <2>1 DEF Restore, external, history, counters, Phase
  <2> QED
    BY <1>1, <2>2
<1>4. CASE Bind
  <2>1. runtime' \in [Slots -> Runtime]
    BY <1>4, BindTakes DEF Becomes
  <2>2. Typed
    BY <1>0, <1>4, <2>1 DEF Bind, external, history, counters, Phase
  <2> QED
    BY <1>1, <2>2
<1>5. CASE BindFails
  <2>1. runtime' \in [Slots -> Runtime]
    BY <1>5, BindFailsUndoes DEF Becomes
  <2>2. Typed
    BY <1>0, <1>5, <2>1 DEF BindFails, external, history, counters, Phase
  <2> QED
    BY <1>1, <2>2
<1>6. CASE PlatformsReady
  <2>1. Typed
    BY <1>0, <1>6 DEF PlatformsReady, external, history, counters, Phase
  <2> QED
    BY <1>1, <2>1
<1>7. ASSUME NEW s \in Slots, NEW r \in Messages \cup {Auth}, RequestArrives(s, r)
      PROVE  TypeOK'
  <2>1. unsent' \subseteq unsent /\ inflight' = inflight \cup {[slot |-> s, request |-> r]}
    BY <1>7 DEF RequestArrives
  <2>2. Typed
    BY <1>0, <1>7, <2>1 DEF RequestArrives, history, counters
  <2> QED
    BY <1>1, <2>2
<1>8. ASSUME NEW s \in Slots, NEW m \in Messages, Recorded(s, m) PROVE TypeOK'
  <2>1. runtime' \in [Slots -> Runtime]
    BY <1>8, RecordedAdds DEF Becomes
  <2>2. straggled' \in BOOLEAN
    BY <1>8 DEF Recorded, Straggles
  <2>3. Typed
    BY <1>0, <1>8, <2>1, <2>2 DEF Recorded, external, counters
  <2> QED
    BY <1>1, <2>3
<1>9. ASSUME NEW s \in Slots, NEW from \in {"local", "vendor", "nobody"},
             AuthAnswered(s, from)
      PROVE  TypeOK'
  <2>1. runtime' \in [Slots -> Runtime]
    BY <1>0, <1>9, AuthIssues DEF Becomes, AuthAnswered
  <2>2. straggled' \in BOOLEAN /\ token' \in [from : {"local", "vendor"}, at : Nat]
    <3>1. CASE from = "nobody"
      BY <1>0, <1>9, <3>1 DEF AuthAnswered
    <3>2. CASE from # "nobody"
      <4>1. token' = [from |-> from, at |-> clock] /\ Straggles(s)
        BY <1>9, <3>2 DEF AuthAnswered
      <4> QED
        BY <1>0, <3>2, <4>1 DEF Straggles
    <3> QED
      BY <3>1, <3>2
  <2>3. Typed
    BY <1>0, <1>9, <2>1, <2>2 DEF AuthAnswered, counters
  <2> QED
    BY <1>1, <2>3
<1>10. ASSUME NEW s \in Slots, SaveRuns(s) PROVE TypeOK'
  <2>1. runtime' \in [Slots -> Runtime]
    BY <1>10, SaveConsumes DEF Becomes
  <2>2. disk' \in Kept
    BY <1>0, <1>10, StoredKept DEF SaveRuns
  <2>3. Typed
    BY <1>0, <1>10, <2>1, <2>2 DEF SaveRuns, external, history, counters
  <2> QED
    BY <1>1, <2>3
<1>11. ASSUME NEW p \in Ports, Reconfigure(p) PROVE TypeOK'
  <2>1. reloads' \in 0 .. MaxReloads
    BY <1>0, <1>11 DEF Reconfigure
  <2>2. phase' \in Phase /\ (phase' = "down" <=> phase = "down")
    BY <1>0, <1>11 DEF Reconfigure, Phase
  <2>3. Typed
    BY <1>0, <1>11, <2>1, <2>2 DEF Reconfigure, external, history
  <2> QED
    BY <1>1, <2>3
<1>12. CASE UnloadFlushes
  <2>1. runtime' \in [Slots -> Runtime]
    BY <1>12, FlushConsumes DEF Becomes
  <2>2. disk' \in Kept
    BY <1>0, <1>12, StoredKept DEF UnloadFlushes
  <2>3. Typed
    BY <1>0, <1>12, <2>1, <2>2 DEF UnloadFlushes, external, history, counters, Phase
  <2> QED
    BY <1>1, <2>3
<1>13. CASE ListenerStops
  <2>1. runtime' \in [Slots -> Runtime]
    BY <1>13, StopReleases DEF Becomes
  <2>2. Typed
    BY <1>0, <1>13, <2>1 DEF ListenerStops, external, history, counters, Phase
  <2> QED
    BY <1>1, <2>2
<1>14. CASE UnloadEnds
  <2>1. runtime' \in [Slots -> Runtime]
    BY <1>14, UnloadLeaves DEF Becomes
  <2>2. Typed
    BY <1>0, <1>14, <2>1 DEF UnloadEnds, external, history, counters, Phase
  <2> QED
    BY <1>1, <2>2
<1>15. ASSUME NEW orderly \in BOOLEAN, Stop(orderly) PROVE TypeOK'
  <2>1. runtime' \in [Slots -> Runtime]
    BY <1>15, EmptyRuntime DEF Stop
  <2>2. disk' \in Kept
    BY <1>0, <1>15, StoredKept DEF Stop
  <2>3. crashed' \in BOOLEAN /\ stops' \in 0 .. MaxStops
    BY <1>0, <1>15 DEF Stop
  <2>4. Typed
    BY <1>0, <1>15, <2>1, <2>2, <2>3 DEF Stop, external, Phase
  <2> QED
    BY <1>1, <2>4
<1>16. ASSUME NEW p \in Ports, OtherTakes(p) \/ OtherReleases(p) PROVE TypeOK'
  <2>1. Typed
    BY <1>0, <1>16 DEF OtherTakes, OtherReleases, history, counters
  <2> QED
    BY <1>1, <2>1
<1>17. CASE TokenElsewhere
  <2>1. Typed
    BY <1>0, <1>17 DEF TokenElsewhere, history, counters
  <2> QED
    BY <1>1, <2>1
<1>18. CASE Hour
  <2>1. clock' \in 0 .. MaxClock
    BY <1>0, <1>18 DEF Hour
  <2>2. Typed
    BY <1>0, <1>18, <2>1 DEF Hour, history, counters
  <2> QED
    BY <1>1, <2>2
<1>19. CASE UNCHANGED vars
  <2>1. Typed
    BY <1>0, <1>19 DEF vars
  <2> QED
    BY <1>1, <2>1
<1> QED
  BY <1>2, <1>3, <1>4, <1>5, <1>6, <1>7, <1>8, <1>9, <1>10, <1>11, <1>12, <1>13,
     <1>14, <1>15, <1>16, <1>17, <1>18, <1>19 DEF Next

LEMMA InitTypes == Init => TypeOK
<1> SUFFICES ASSUME Init PROVE TypeOK
  OBVIOUS
<1>1. runtime \in [Slots -> Runtime] /\ [known |-> {}, issued |-> Never] \in Kept
  BY EmptyRuntime DEF Init, Kept, Times
<1>2. [from |-> "vendor", at |-> 0] \in [from : {"local", "vendor"}, at : Nat]
  OBVIOUS
<1>3. 0 \in 0 .. MaxClock /\ 0 \in 0 .. MaxReloads /\ 0 \in 0 .. MaxStops
  BY Bounds
<1> QED
  BY <1>1, <1>2, <1>3, TypeIsRuntime DEF Init, Phase

(* Every variable keeps its type, and there is a current runtime exactly   *)
(* from the start of setup to the end of unload.                           *)
THEOREM TypeCorrect == Spec => []TypeOK
BY InitTypes, StepTypes, PTL DEF Spec

-----------------------------------------------------------------------------
(* What each action leaves alone, for the invariants below.                *)
Quiet == UNCHANGED <<phase, current, runtime, disk, inflight, recorded,
                     straggled, crashed>>

LEMMA OutsideIsQuiet ==
    ASSUME (\E p \in Ports : OtherTakes(p) \/ OtherReleases(p)) \/ TokenElsewhere \/ Hour
    PROVE  Quiet
BY DEF Quiet, OtherTakes, OtherReleases, TokenElsewhere, Hour, history

(* The current runtime has its session from setup to unload; a port is     *)
(* held from the bind to the cleanup; handlers are about only then, until  *)
(* unload has waited for them.                                             *)
Held ==
    /\ NothingLeaks
    /\ current # NoSlot => runtime[current].session
    /\ inflight # {} => phase \in {"starting", "up", "unloading", "flushed", "draining"}
    /\ \A s \in Slots :
         runtime[s].port # NoPort => phase \in {"starting", "up", "unloading", "flushed"}

LEMMA HandlersAreCurrent ==
    ASSUME TypeOK, Held
    PROVE  /\ \A i \in inflight : i.slot = current
           /\ inflight # {} => current \in Slots
<1>1. \A i \in inflight : i.slot \in Slots
  BY TypeFacts
<1> QED
  BY <1>1 DEF Held, NothingLeaks

LEMMA StepHeld == TypeOK /\ Held /\ [Next]_vars => Held'
<1> SUFFICES ASSUME TypeOK, Held, [Next]_vars PROVE Held'
  OBVIOUS
<1>0. /\ NoSlot \notin Slots
      /\ phase # "down" <=> current \in Slots
      /\ current \in Slots \cup {NoSlot}
      /\ \A s \in Slots : runtime[s] \in Runtime
      /\ inflight \subseteq [slot : Slots, request : Messages \cup {Auth}]
      /\ \A i \in inflight : i.slot = current
      /\ \A s \in Slots : runtime[s].session \/ runtime[s].port # NoPort => s = current
      /\ \A i \in inflight : runtime[i.slot].session
      /\ current # NoSlot => runtime[current].session
      /\ inflight # {} => phase \in {"starting", "up", "unloading", "flushed", "draining"}
      /\ \A s \in Slots : runtime[s].port # NoPort =>
                             phase \in {"starting", "up", "unloading", "flushed"}
  BY TypeFacts, ValueAssumption, HandlersAreCurrent DEF Held, NothingLeaks
<1> DEFINE Goal ==
      /\ \A s \in Slots : runtime'[s].session \/ runtime'[s].port # NoPort => s = current'
      /\ \A i \in inflight' : runtime'[i.slot].session
      /\ current' # NoSlot => runtime'[current'].session
      /\ inflight' # {} => phase' \in {"starting", "up", "unloading", "flushed", "draining"}
      /\ \A s \in Slots : runtime'[s].port # NoPort =>
                             phase' \in {"starting", "up", "unloading", "flushed"}
<1>1. ASSUME Goal PROVE Held'
  BY <1>1 DEF Held, NothingLeaks
<1>2. Empty.session = FALSE /\ Empty.port = NoPort
  BY DEF Empty
(* Of the slot that changes, session and port are what matters.            *)
<1>3. ASSUME NEW s \in Slots, NEW r, Becomes(s, r),
             r.session = runtime[s].session, r.port = runtime[s].port,
             inflight' \subseteq inflight, current' = current,
             phase' = phase \/ phase \notin {"starting", "up", "unloading", "flushed", "draining"}
      PROVE  Held'
  <2>1. \A x \in Slots : /\ runtime'[x].session = runtime[x].session
                         /\ runtime'[x].port = runtime[x].port
    BY <1>3 DEF Becomes
  <2>2. Goal
    BY <1>0, <1>3, <2>1
  <2> QED
    BY <1>1, <2>2
<1>4. CASE SetupStarts
  <2>1. /\ current' \in Slots /\ runtime'[current'].session
        /\ runtime'[current'].port = NoPort
        /\ \A x \in Slots : x # current' => runtime'[x] = runtime[x]
    BY <1>2, <1>4, SetupMakes DEF Becomes, Runtime, Empty
  <2>2. phase = "down" /\ current \notin Slots /\ inflight' = inflight
    BY <1>0, <1>4 DEF SetupStarts
  <2>3. Goal
    BY <1>0, <2>1, <2>2
  <2> QED
    BY <1>1, <2>3
<1>5. CASE Restore
  <2> DEFINE r == [runtime[current] EXCEPT
                     !.known = disk.known,
                     !.issued = issued_from_stored(disk.issued)]
  <2>1. Becomes(current, r) /\ current \in Slots
    BY <1>5, RestoreReads DEF Becomes
  <2>2. r.session = runtime[current].session /\ r.port = runtime[current].port
    BY <1>0, <2>1 DEF Runtime
  <2>3. /\ inflight' = inflight /\ current' = current
        /\ phase \notin {"starting", "up", "unloading", "flushed", "draining"}
    BY <1>5 DEF Restore
  <2> HIDE DEF r
  <2> QED
    BY <1>3, <2>1, <2>2, <2>3
<1>6. CASE Bind
  <2>1. /\ current \in Slots /\ runtime'[current].session
        /\ \A x \in Slots : x # current => runtime'[x] = runtime[x]
    BY <1>0, <1>6, BindTakes DEF Becomes, Runtime
  <2>2. phase = "restored" /\ phase' = "starting" /\ inflight' = inflight /\ current' = current
    BY <1>6 DEF Bind
  <2>3. Goal
    BY <1>0, <2>1, <2>2
  <2> QED
    BY <1>1, <2>3
<1>7. CASE BindFails
  <2>1. /\ ~runtime'[current].session /\ runtime'[current].port = NoPort
        /\ \A x \in Slots : x # current => runtime'[x] = runtime[x]
    BY <1>2, <1>7, BindFailsUndoes DEF Becomes
  <2>2. phase = "restored" /\ inflight' = inflight /\ current' = NoSlot
    BY <1>7 DEF BindFails
  <2>3. Goal
    BY <1>0, <2>1, <2>2
  <2> QED
    BY <1>1, <2>3
<1>8. CASE PlatformsReady \/ \E p \in Ports : Reconfigure(p)
  <2>1. /\ runtime' = runtime /\ inflight' = inflight /\ current' = current
        /\ phase' = phase \/ (phase \in {"starting", "up"} /\ phase' \in {"up", "unloading"})
    BY <1>8 DEF PlatformsReady, Reconfigure
  <2>2. Goal
    BY <1>0, <2>1
  <2> QED
    BY <1>1, <2>2
<1>9. ASSUME NEW s \in Slots, NEW r \in Messages \cup {Auth}, RequestArrives(s, r)
      PROVE  Held'
  <2>1. /\ runtime[s].port # NoPort
        /\ inflight' = inflight \cup {[slot |-> s, request |-> r]}
        /\ runtime' = runtime /\ phase' = phase /\ current' = current
    BY <1>9 DEF RequestArrives
  <2>2. s = current /\ runtime[s].session
    BY <1>0, <2>1
  <2>3. Goal
    BY <1>0, <2>1, <2>2
  <2> QED
    BY <1>1, <2>3
<1>10. ASSUME NEW s \in Slots, NEW m \in Messages, Recorded(s, m) PROVE Held'
  <2> DEFINE r == [runtime[s] EXCEPT !.known = @ \cup {m}, !.pending = TRUE]
  <2>1. Becomes(s, r)
    BY <1>10, RecordedAdds
  <2>2. r.session = runtime[s].session /\ r.port = runtime[s].port
    BY <1>0 DEF Runtime
  <2>3. inflight' \subseteq inflight /\ current' = current /\ phase' = phase
    BY <1>10 DEF Recorded
  <2> HIDE DEF r
  <2> QED
    BY <1>3, <2>1, <2>2, <2>3
<1>11. ASSUME NEW s \in Slots, NEW from, AuthAnswered(s, from) PROVE Held'
  <2> DEFINE r == [runtime[s] EXCEPT
                     !.issued = IF from = "local" THEN clock ELSE Never,
                     !.pending = TRUE]
  <2>1. inflight' \subseteq inflight /\ current' = current /\ phase' = phase
    BY <1>11 DEF AuthAnswered
  <2>2. CASE from = "nobody"
    <3>1. runtime' = runtime
      BY <1>11, <2>2 DEF AuthAnswered
    <3>2. Goal
      BY <1>0, <2>1, <3>1
    <3> QED
      BY <1>1, <3>2
  <2>3. CASE from # "nobody"
    <3>1. Becomes(s, r)
      BY <1>11, <2>3, AuthIssues
    <3>2. r.session = runtime[s].session /\ r.port = runtime[s].port
      BY <1>0 DEF Runtime
    <3> HIDE DEF r
    <3> QED
      BY <1>3, <2>1, <3>1, <3>2
  <2> QED
    BY <2>2, <2>3
<1>12. ASSUME NEW s \in Slots, SaveRuns(s) PROVE Held'
  <2> DEFINE r == IF s = current THEN [runtime[s] EXCEPT !.pending = FALSE] ELSE Empty
  <2>1. Becomes(s, r)
    BY <1>12, SaveConsumes
  <2>2. r.session = runtime[s].session /\ r.port = runtime[s].port
    BY <1>0, <1>2 DEF Runtime
  <2>3. inflight' = inflight /\ current' = current /\ phase' = phase
    BY <1>12 DEF SaveRuns
  <2> HIDE DEF r
  <2> QED
    BY <1>3, <2>1, <2>2, <2>3
<1>13. CASE UnloadFlushes
  <2>1. /\ current \in Slots
        /\ runtime'[current].session = runtime[current].session
        /\ \A x \in Slots : x # current => runtime'[x] = runtime[x]
    BY <1>0, <1>13, FlushConsumes DEF Becomes, Runtime
  <2>2. /\ phase = "unloading" /\ phase' = "flushed"
        /\ inflight' = inflight /\ current' = current
    BY <1>13 DEF UnloadFlushes
  <2>3. Goal
    BY <1>0, <2>1, <2>2
  <2> QED
    BY <1>1, <2>3
<1>14. CASE ListenerStops
  <2>1. /\ current \in Slots
        /\ runtime'[current].session = runtime[current].session
        /\ runtime'[current].port = NoPort
        /\ \A x \in Slots : x # current => runtime'[x] = runtime[x]
    BY <1>0, <1>14, StopReleases DEF Becomes, Runtime
  <2>2. /\ phase = "flushed" /\ phase' = "draining"
        /\ inflight' = inflight /\ current' = current
    BY <1>14 DEF ListenerStops
  <2>3. Goal
    BY <1>0, <2>1, <2>2
  <2> QED
    BY <1>1, <2>3
<1>15. CASE UnloadEnds
  <2>1. /\ ~runtime'[current].session
        /\ runtime'[current].port = runtime[current].port
        /\ \A x \in Slots : x # current => runtime'[x] = runtime[x]
    <3> DEFINE r == IF runtime[current].pending
                    THEN [runtime[current] EXCEPT !.session = FALSE]
                    ELSE [Empty EXCEPT !.port = runtime[current].port]
    <3>1. Becomes(current, r)
      BY <1>15, UnloadLeaves
    <3>2. ~r.session /\ r.port = runtime[current].port
      BY <1>0, <3>1 DEF Becomes, Runtime, Empty
    <3> HIDE DEF r
    <3> QED
      BY <3>1, <3>2 DEF Becomes
  <2>2. /\ phase = "draining" /\ inflight' = inflight /\ current' = NoSlot
        /\ \A i \in inflight : i.slot # current
    BY <1>15 DEF UnloadEnds
  <2>3. inflight' = {}
    BY <1>0, <2>2
  <2>4. runtime[current].port = NoPort
    BY <1>0, <2>2
  <2>5. Goal
    BY <1>0, <2>1, <2>2, <2>3, <2>4
  <2> QED
    BY <1>1, <2>5
<1>16. ASSUME NEW orderly \in BOOLEAN, Stop(orderly) PROVE Held'
  <2>1. /\ \A x \in Slots : runtime'[x] = Empty
        /\ current' = NoSlot /\ inflight' = {}
    BY <1>16 DEF Stop
  <2>2. Goal
    BY <1>0, <1>2, <2>1
  <2> QED
    BY <1>1, <2>2
<1>17. ASSUME Quiet PROVE Held'
  <2>1. Goal
    BY <1>0, <1>17 DEF Quiet
  <2> QED
    BY <1>1, <2>1
<1>18. CASE UNCHANGED vars
  BY <1>17, <1>18 DEF Quiet, vars
<1>19. ASSUME NEW p \in Ports, OtherTakes(p) \/ OtherReleases(p) PROVE Held'
  BY <1>17, <1>19, OutsideIsQuiet
<1>20. CASE TokenElsewhere \/ Hour
  BY <1>17, <1>20, OutsideIsQuiet
<1> QED
  BY <1>4, <1>5, <1>6, <1>7, <1>8, <1>9, <1>10, <1>11, <1>12, <1>13, <1>14, <1>15,
     <1>16, <1>18, <1>19, <1>20 DEF Next

LEMMA InitHeld == Init => Held
<1>1. Init => /\ inflight = {} /\ current = NoSlot
              /\ \A s \in Slots : ~runtime[s].session /\ runtime[s].port = NoPort
  BY DEF Init, Empty
<1> QED
  BY <1>1 DEF Held, NothingLeaks

(* Whichever way a setup ends, its session and its port go with it, and a  *)
(* request is only relayed with a session that is open.                    *)
THEOREM NoLeaks == Spec => []NothingLeaks
<1>1. Held => NothingLeaks
  BY DEF Held
<1> QED
  BY <1>1, InitTypes, StepTypes, InitHeld, StepHeld, PTL DEF Spec

-----------------------------------------------------------------------------
(* While nothing has straggled only a loaded runtime has a save pending,   *)
(* and what it knows is at least what the file says, exactly that until    *)
(* something is recorded.                                                  *)
Saving == phase \in {"starting", "up", "unloading"}

Saved ==
    ~straggled =>
        /\ \A s \in Slots : runtime[s].pending => s = current /\ Saving
        /\ Loaded => disk.known \subseteq runtime[current].known
        /\ Loaded /\ ~runtime[current].pending => runtime[current].known = disk.known

(* The device carries a token of ours that it is not yet due to replace.   *)
Fresh == token.from = "local" /\ clock - token.at < ReauthHours

(* Nothing recorded is forgotten, nor when that token was issued; once     *)
(* there is nothing to save, the file has both.                            *)
Remembered ==
    ~crashed /\ ~straggled =>
        /\ recorded \subseteq State.known
        /\ Fresh => State.issued = token.at
        /\ Loaded /\ ~runtime[current].pending /\ Fresh => disk.issued = token.at

(* A handler whose runtime has not been flushed is the current one's, of a *)
(* loaded entry.                                                           *)
LEMMA HandlerIsLoaded ==
    ASSUME TypeOK, Held, NEW s, NEW r, [slot |-> s, request |-> r] \in inflight,
           Straggles(s), ~straggled'
    PROVE  s = current /\ s \in Slots /\ Saving /\ Loaded /\ ~straggled
<1>1. s = current /\ s \in Slots
  BY HandlersAreCurrent
<1>2. ~straggled /\ phase \notin {"flushed", "draining"}
  BY DEF Straggles
<1>3. phase \in {"starting", "up", "unloading", "flushed", "draining"}
  BY DEF Held
<1> QED
  BY <1>1, <1>2, <1>3 DEF Saving, Loaded

(* What has straggled or crashed stays noted.                              *)
LEMMA HistoryStays ==
    ASSUME TypeOK, [Next]_vars
    PROVE  (straggled => straggled') /\ (crashed => crashed')
<1>0. straggled \in BOOLEAN /\ crashed \in BOOLEAN
  BY TypeFacts
<1>1. straggled => straggled'
  BY <1>0 DEF Next, SetupStarts, Restore, Bind, BindFails, PlatformsReady,
     RequestArrives, Recorded, Straggles, AuthAnswered, SaveRuns, Reconfigure,
     OtherTakes, OtherReleases, UnloadFlushes, ListenerStops, UnloadEnds, Stop,
     TokenElsewhere, Hour, vars, history
<1>2. ASSUME NEW orderly \in BOOLEAN, Stop(orderly), crashed PROVE crashed'
  BY <1>0, <1>2 DEF Stop
<1>3. CASE crashed' = crashed
  BY <1>1, <1>3
<1> QED
  BY <1>1, <1>2, <1>3 DEF Next, SetupStarts, Restore, Bind, BindFails, PlatformsReady,
     RequestArrives, Recorded, AuthAnswered, SaveRuns, Reconfigure, OtherTakes,
     OtherReleases, UnloadFlushes, ListenerStops, UnloadEnds, TokenElsewhere, Hour,
     vars, history

LEMMA StepSaved == TypeOK /\ Held /\ Saved /\ [Next]_vars => Saved'
<1> SUFFICES ASSUME TypeOK, Held, Saved, [Next]_vars, ~straggled'
             PROVE  /\ \A x \in Slots : runtime'[x].pending => x = current' /\ Saving'
                    /\ Loaded' => disk'.known \subseteq runtime'[current'].known
                    /\ Loaded' /\ ~runtime'[current'].pending =>
                          runtime'[current'].known = disk'.known
  BY DEF Saved
<1> DEFINE Goal ==
             /\ \A x \in Slots : runtime'[x].pending => x = current' /\ Saving'
             /\ Loaded' => disk'.known \subseteq runtime'[current'].known
             /\ Loaded' /\ ~runtime'[current'].pending =>
                   runtime'[current'].known = disk'.known
<1>0. /\ NoSlot \notin Slots
      /\ phase # "down" <=> current \in Slots
      /\ \A s \in Slots : runtime[s] \in Runtime
      /\ disk \in Kept
      /\ Empty.pending = FALSE
  BY TypeFacts, ValueAssumption DEF Empty
<1>1. ~straggled
  BY HistoryStays
<1>2. /\ \A s \in Slots : runtime[s].pending => s = current /\ Saving
      /\ Loaded => disk.known \subseteq runtime[current].known
      /\ Loaded /\ ~runtime[current].pending => runtime[current].known = disk.known
  BY <1>1 DEF Saved
<1>3. CASE SetupStarts
  <2>1. /\ current' \in Slots /\ ~runtime'[current'].pending
        /\ \A x \in Slots : x # current' => runtime'[x] = runtime[x]
    BY <1>3, SetupMakes DEF Becomes, Runtime, Empty
  <2>2. phase = "down" /\ phase' = "loading"
    BY <1>3 DEF SetupStarts
  <2>3. ~Loaded' /\ ~Saving
    BY <2>2 DEF Loaded, Saving
  <2> QED
    BY <1>2, <2>1, <2>3
<1>4. CASE Restore
  <2>1. /\ current \in Slots /\ runtime'[current].known = disk.known
        /\ runtime'[current].pending = runtime[current].pending
        /\ \A x \in Slots : x # current => runtime'[x] = runtime[x]
    BY <1>0, <1>4, RestoreReads DEF Becomes, Runtime
  <2>2. phase = "loading" /\ current' = current /\ disk' = disk
    BY <1>4 DEF Restore
  <2>3. ~Saving
    BY <2>2 DEF Saving
  <2> QED
    BY <1>2, <2>1, <2>2, <2>3
<1>5. CASE Bind
  <2>1. /\ current \in Slots /\ runtime'[current].known = runtime[current].known
        /\ runtime'[current].pending = runtime[current].pending
        /\ \A x \in Slots : x # current => runtime'[x] = runtime[x]
    BY <1>0, <1>5, BindTakes DEF Becomes, Runtime
  <2>2. phase = "restored" /\ phase' = "starting" /\ current' = current /\ disk' = disk
    BY <1>5 DEF Bind
  <2>3. ~Saving /\ Loaded
    BY <2>2 DEF Saving, Loaded
  <2> QED
    BY <1>2, <2>1, <2>2, <2>3
<1>6. CASE BindFails
  <2>1. /\ current \in Slots /\ ~runtime'[current].pending
        /\ \A x \in Slots : x # current => runtime'[x] = runtime[x]
    BY <1>0, <1>6, BindFailsUndoes DEF Becomes
  <2>2. phase = "restored" /\ phase' = "down"
    BY <1>6 DEF BindFails
  <2>3. ~Loaded' /\ ~Saving
    BY <2>2 DEF Loaded, Saving
  <2> QED
    BY <1>2, <2>1, <2>3
<1>7. CASE PlatformsReady \/ \E p \in Ports : Reconfigure(p)
  <2>1. /\ runtime' = runtime /\ disk' = disk /\ current' = current
        /\ phase' = phase \/ (phase \in {"starting", "up"} /\ phase' \in {"up", "unloading"})
    BY <1>7 DEF PlatformsReady, Reconfigure
  <2>2. (Saving' <=> Saving) /\ (Loaded' <=> Loaded)
    BY <2>1 DEF Saving, Loaded
  <2> QED
    BY <1>2, <2>1, <2>2
<1>8. ASSUME NEW s \in Slots, NEW m \in Messages, Recorded(s, m) PROVE Goal
  <2>1. s = current /\ Saving /\ Loaded
    BY <1>8, HandlerIsLoaded DEF Recorded
  <2>2. /\ runtime'[s].known = runtime[s].known \cup {m} /\ runtime'[s].pending
        /\ \A x \in Slots : x # s => runtime'[x] = runtime[x]
    BY <1>8, RecordedFields
  <2>3. current' = current /\ phase' = phase /\ disk' = disk
    BY <1>8 DEF Recorded
  <2>4. Saving' /\ Loaded'
    BY <2>1, <2>3 DEF Saving, Loaded
  <2> QED
    BY <1>2, <2>1, <2>2, <2>3, <2>4
<1>9. ASSUME NEW s \in Slots, NEW from, AuthAnswered(s, from) PROVE Goal
  <2>1. current' = current /\ phase' = phase /\ disk' = disk
    BY <1>9 DEF AuthAnswered
  <2>2. (Saving' <=> Saving) /\ (Loaded' <=> Loaded)
    BY <2>1 DEF Saving, Loaded
  <2>3. CASE from = "nobody"
    <3>1. runtime' = runtime
      BY <1>9, <2>3 DEF AuthAnswered
    <3> QED
      BY <1>2, <2>1, <2>2, <3>1
  <2>4. CASE from # "nobody"
    <3>1. s = current /\ Saving /\ Loaded
      BY <1>9, <2>4, HandlerIsLoaded DEF AuthAnswered
    <3>2. /\ runtime'[s].known = runtime[s].known /\ runtime'[s].pending
          /\ \A x \in Slots : x # s => runtime'[x] = runtime[x]
      BY <1>9, <2>4, AuthFields
    <3> QED
      BY <1>2, <2>1, <2>2, <3>1, <3>2
  <2> QED
    BY <2>3, <2>4
<1>10. ASSUME NEW s \in Slots, SaveRuns(s) PROVE Goal
  <2>1. s = current /\ Saving
    BY <1>2, <1>10 DEF SaveRuns
  <2>2. /\ runtime'[s].known = runtime[s].known /\ ~runtime'[s].pending
        /\ \A x \in Slots : x # s => runtime'[x] = runtime[x]
    BY <1>0, <1>10, <2>1, SaveConsumes DEF Becomes, Runtime
  <2>3. current' = current /\ phase' = phase /\ disk'.known = runtime[s].known
    BY <1>0, <1>10, StoredKept DEF SaveRuns
  <2> QED
    BY <1>2, <2>1, <2>2, <2>3
<1>11. CASE UnloadFlushes
  <2>1. /\ ~runtime'[current].pending
        /\ \A x \in Slots : x # current => runtime'[x] = runtime[x]
    BY <1>0, <1>11, FlushConsumes DEF Becomes, Runtime
  <2>2. phase' = "flushed" /\ current' = current
    BY <1>11 DEF UnloadFlushes
  <2>3. ~Loaded'
    BY <2>2 DEF Loaded
  <2> QED
    BY <1>2, <2>1, <2>2, <2>3
<1>12. CASE ListenerStops
  <2>1. /\ runtime'[current].pending = runtime[current].pending
        /\ \A x \in Slots : x # current => runtime'[x] = runtime[x]
    BY <1>0, <1>12, StopReleases DEF Becomes, Runtime
  <2>2. phase = "flushed" /\ phase' = "draining" /\ current' = current
    BY <1>12 DEF ListenerStops
  <2>3. ~Loaded' /\ ~Saving
    BY <2>2 DEF Loaded, Saving
  <2> QED
    BY <1>2, <2>1, <2>3
<1>13. CASE UnloadEnds
  <2>1. phase = "draining" /\ phase' = "down" /\ current \in Slots
    BY <1>0, <1>13 DEF UnloadEnds
  <2>2. ~Loaded' /\ ~Saving
    BY <2>1 DEF Loaded, Saving
  <2>3. ~runtime[current].pending
    BY <1>2, <2>1, <2>2
  <2>4. /\ ~runtime'[current].pending
        /\ \A x \in Slots : x # current => runtime'[x] = runtime[x]
    BY <1>0, <1>13, <2>3, UnloadLeaves DEF Becomes, Runtime, Empty
  <2> QED
    BY <1>2, <2>2, <2>4
<1>14. ASSUME NEW orderly \in BOOLEAN, Stop(orderly) PROVE Goal
  <2>1. (\A x \in Slots : runtime'[x] = Empty) /\ phase' = "down"
    BY <1>14 DEF Stop
  <2> QED
    BY <1>0, <2>1 DEF Loaded
<1>15. ASSUME UNCHANGED <<phase, current, runtime, disk>> PROVE Goal
  <2>1. (Saving' <=> Saving) /\ (Loaded' <=> Loaded)
    BY <1>15 DEF Saving, Loaded
  <2> QED
    BY <1>2, <1>15, <2>1
<1>16. ASSUME NEW s \in Slots, NEW r \in Messages \cup {Auth}, RequestArrives(s, r)
      PROVE  Goal
  BY <1>15, <1>16 DEF RequestArrives
<1>17. CASE UNCHANGED vars
  BY <1>15, <1>17 DEF vars
<1>18. ASSUME NEW p \in Ports, OtherTakes(p) \/ OtherReleases(p) PROVE Goal
  BY <1>15, <1>18 DEF OtherTakes, OtherReleases
<1>19. CASE TokenElsewhere \/ Hour
  BY <1>15, <1>19 DEF TokenElsewhere, Hour
<1> QED
  BY <1>3, <1>4, <1>5, <1>6, <1>7, <1>8, <1>9, <1>10, <1>11, <1>12, <1>13, <1>14,
     <1>16, <1>17, <1>18, <1>19 DEF Next

LEMMA InitSaved == Init => Saved
<1>1. Init => ~Loaded /\ \A s \in Slots : ~runtime[s].pending
  BY DEF Init, Empty, Loaded
<1> QED
  BY <1>1 DEF Saved

(* What a write of the file takes from what it replaces: nothing, unless a *)
(* straggler has been handled.                                             *)
LEMMA WritesKeep == TypeOK /\ Saved /\ [Next]_vars /\ ~straggled' => disk.known \subseteq disk'.known
<1> SUFFICES ASSUME TypeOK, Saved, [Next]_vars, ~straggled'
             PROVE  disk.known \subseteq disk'.known
  OBVIOUS
<1>1. ~straggled
  BY HistoryStays
<1>2. /\ \A s \in Slots : runtime[s].pending => s = current /\ Saving
      /\ Loaded => disk.known \subseteq runtime[current].known
  BY <1>1 DEF Saved
<1>3. \A s \in Slots : runtime[s].pending => disk.known \subseteq as_stored(runtime[s]).known
  BY <1>2 DEF Saving, Loaded, as_stored
<1>4. ASSUME NEW s \in Slots, SaveRuns(s) PROVE disk.known \subseteq disk'.known
  BY <1>3, <1>4 DEF SaveRuns
<1>5. CASE UnloadFlushes
  BY <1>2, <1>5 DEF UnloadFlushes, Loaded, as_stored
<1>6. ASSUME NEW orderly \in BOOLEAN, Stop(orderly) PROVE disk.known \subseteq disk'.known
  BY <1>3, <1>6 DEF Stop
<1>7. CASE UNCHANGED disk
  BY <1>7
<1> QED
  BY <1>4, <1>5, <1>6, <1>7
     DEF Next, SetupStarts, Restore, Bind, BindFails, PlatformsReady, RequestArrives,
         Recorded, AuthAnswered, Reconfigure, OtherTakes, OtherReleases,
         ListenerStops, UnloadEnds, TokenElsewhere, Hour, vars

(* Every setup has a Store of its own on the one file, and still no write  *)
(* replaces it by one that knows less.                                     *)
THEOREM FileGrows == Spec => FileOnlyGrows
<1>1. TypeOK /\ Saved /\ [Next]_vars => [~straggled' => disk.known \subseteq disk'.known]_vars
  BY WritesKeep
<1> QED
  BY <1>1, InitTypes, StepTypes, InitHeld, StepHeld, InitSaved, StepSaved, PTL
     DEF Spec, FileOnlyGrows

-----------------------------------------------------------------------------
LEMMA StateIs ==
    /\ Loaded => /\ State.known = runtime[current].known
                 /\ State.issued = runtime[current].issued
    /\ ~Loaded => State = disk
BY DEF State, as_stored

LEMMA StepRemembered ==
    TypeOK /\ Held /\ Saved /\ Remembered /\ [Next]_vars => Remembered'
<1> SUFFICES ASSUME TypeOK, Held, Saved, Remembered, [Next]_vars, ~crashed', ~straggled'
             PROVE  /\ recorded' \subseteq State'.known
                    /\ Fresh' => State'.issued = token'.at
                    /\ Loaded' /\ ~runtime'[current'].pending /\ Fresh' =>
                          disk'.issued = token'.at
  BY DEF Remembered
<1> DEFINE Goal ==
                    /\ recorded' \subseteq State'.known
                    /\ Fresh' => State'.issued = token'.at
                    /\ Loaded' /\ ~runtime'[current'].pending /\ Fresh' =>
                          disk'.issued = token'.at
<1>0. /\ NoSlot \notin Slots
      /\ phase # "down" <=> current \in Slots
      /\ \A s \in Slots : runtime[s] \in Runtime
      /\ disk \in Kept
      /\ token \in [from : {"local", "vendor"}, at : Nat]
      /\ clock \in Nat /\ ReauthHours \in Nat /\ Never \notin Nat
  BY TypeFacts, Bounds, ValueAssumption
<1>1. ~straggled /\ ~crashed
  BY HistoryStays
<1>2. /\ \A s \in Slots : runtime[s].pending => s = current /\ Saving
      /\ Loaded => disk.known \subseteq runtime[current].known
      /\ Loaded /\ ~runtime[current].pending => runtime[current].known = disk.known
  BY <1>1 DEF Saved
<1>3. /\ recorded \subseteq State.known
      /\ Fresh => State.issued = token.at
      /\ Loaded /\ ~runtime[current].pending /\ Fresh => disk.issued = token.at
  BY <1>1 DEF Remembered
<1>4. /\ Loaded => /\ State.known = runtime[current].known
                   /\ State.issued = runtime[current].issued
      /\ ~Loaded => State = disk
  BY StateIs
<1>5. /\ Loaded' => /\ State'.known = runtime'[current'].known
                    /\ State'.issued = runtime'[current'].issued
      /\ ~Loaded' => State' = disk'
  BY DEF State, as_stored
<1>6. ASSUME token' = token, clock' = clock PROVE Fresh' <=> Fresh
  BY <1>6 DEF Fresh
<1>7. CASE SetupStarts
  <2>1. ~Loaded /\ ~Loaded' /\ disk' = disk /\ recorded' = recorded /\ token' = token
        /\ clock' = clock
    BY <1>7 DEF SetupStarts, Loaded, external, history
  <2> QED
    BY <1>3, <1>4, <1>5, <1>6, <2>1
<1>8. CASE Restore
  <2>1. ~Loaded /\ Loaded' /\ current' = current /\ disk' = disk /\ recorded' = recorded
        /\ token' = token /\ clock' = clock
    BY <1>8 DEF Restore, Loaded, external, history
  <2>2. /\ runtime'[current].known = disk.known
        /\ runtime'[current].issued = issued_from_stored(disk.issued)
    <3> DEFINE i == issued_from_stored(disk.issued)
               r == [runtime[current] EXCEPT !.known = disk.known, !.issued = i]
    <3>1. Becomes(current, r) /\ current \in Slots
      BY <1>8, RestoreReads DEF Becomes
    <3> HIDE DEF i
    <3>2. r.known = disk.known /\ r.issued = i
      BY <1>0, <3>1 DEF Runtime
    <3> HIDE DEF r
    <3> QED
      BY <3>1, <3>2 DEF Becomes, i
  <2>3. Fresh => issued_from_stored(disk.issued) = token.at
    <3>1. Fresh => disk.issued = token.at
      BY <1>3, <1>4, <2>1
    <3>2. token.at \in Nat /\ token.at # Never
      BY <1>0
    <3>3. Fresh => ~(clock - token.at >= ReauthHours)
      BY <1>0, <3>2 DEF Fresh
    <3> QED
      BY <3>1, <3>2, <3>3 DEF issued_from_stored
  <2>4. Fresh => disk.issued = token.at
    BY <1>3, <1>4, <2>1
  <2> QED
    BY <1>3, <1>4, <1>5, <1>6, <2>1, <2>2, <2>3, <2>4
<1>9. CASE Bind
  <2>1. /\ current \in Slots /\ runtime'[current].known = runtime[current].known
        /\ runtime'[current].issued = runtime[current].issued
        /\ runtime'[current].pending = runtime[current].pending
    BY <1>0, <1>9, BindTakes DEF Becomes, Runtime
  <2>2. Loaded /\ Loaded' /\ current' = current /\ disk' = disk /\ recorded' = recorded
        /\ token' = token /\ clock' = clock
    BY <1>9 DEF Bind, Loaded, external, history
  <2> QED
    BY <1>3, <1>4, <1>5, <1>6, <2>1, <2>2
<1>10. CASE BindFails
  <2>1. Loaded /\ ~Saving /\ ~Loaded' /\ disk' = disk /\ recorded' = recorded
        /\ token' = token /\ clock' = clock
    BY <1>10 DEF BindFails, Loaded, Saving, external, history
  <2>2. current \in Slots
    BY <1>0, <1>10 DEF BindFails
  <2>3. ~runtime[current].pending
    BY <1>2, <2>1, <2>2
  <2> QED
    BY <1>2, <1>3, <1>4, <1>5, <1>6, <2>1, <2>3
<1>11. ASSUME UNCHANGED <<current, runtime, disk, recorded>>,
              Loaded' <=> Loaded, Fresh' => Fresh /\ token' = token
       PROVE  Goal
  BY <1>3, <1>4, <1>5, <1>11
<1>12. CASE PlatformsReady \/ \E p \in Ports : Reconfigure(p)
  <2>1. Loaded' <=> Loaded
    BY <1>12 DEF PlatformsReady, Reconfigure, Loaded
  <2>2. /\ UNCHANGED <<current, runtime, disk, recorded>>
        /\ token' = token /\ clock' = clock
    BY <1>12 DEF PlatformsReady, Reconfigure, external, history
  <2> QED
    BY <1>6, <1>11, <2>1, <2>2
<1>13. ASSUME NEW s \in Slots, NEW m \in Messages, Recorded(s, m) PROVE Goal
  <2>1. s = current /\ Saving /\ Loaded
    BY <1>13, HandlerIsLoaded DEF Recorded
  <2>2. /\ runtime'[s].known = runtime[s].known \cup {m} /\ runtime'[s].pending
        /\ runtime'[s].issued = runtime[s].issued
    BY <1>13, RecordedFields
  <2>3. /\ current' = current /\ phase' = phase /\ recorded' = recorded \cup {m}
        /\ token' = token /\ clock' = clock
    BY <1>13 DEF Recorded, external
  <2>4. Loaded'
    BY <2>1, <2>3 DEF Loaded
  <2> QED
    BY <1>3, <1>4, <1>5, <1>6, <2>1, <2>2, <2>3, <2>4
<1>14. ASSUME NEW s \in Slots, NEW from, AuthAnswered(s, from) PROVE Goal
  <2>1. current' = current /\ phase' = phase /\ disk' = disk /\ recorded' = recorded
        /\ clock' = clock
    BY <1>14 DEF AuthAnswered
  <2>2. Loaded' <=> Loaded
    BY <2>1 DEF Loaded
  <2>3. CASE from = "nobody"
    <3>1. runtime' = runtime /\ token' = token
      BY <1>14, <2>3 DEF AuthAnswered
    <3> QED
      BY <1>6, <1>11, <2>1, <2>2, <3>1
  <2>4. CASE from # "nobody"
    <3>1. s = current /\ Loaded
      BY <1>14, <2>4, HandlerIsLoaded DEF AuthAnswered
    <3>2. /\ runtime'[s].known = runtime[s].known /\ runtime'[s].pending
          /\ runtime'[s].issued = IF from = "local" THEN clock ELSE Never
      BY <1>14, <2>4, AuthFields
    <3>3. token' = [from |-> from, at |-> clock]
      BY <1>14, <2>4 DEF AuthAnswered
    <3>4. Fresh' => from = "local" /\ token'.at = clock
      BY <3>3 DEF Fresh
    <3> QED
      BY <1>3, <1>4, <1>5, <2>1, <2>2, <3>1, <3>2, <3>4
  <2> QED
    BY <2>3, <2>4
<1>15. ASSUME NEW s \in Slots, SaveRuns(s) PROVE Goal
  <2>1. s = current /\ Saving /\ Loaded
    BY <1>2, <1>15 DEF SaveRuns, Saving, Loaded
  <2>2. runtime'[s].known = runtime[s].known /\ runtime'[s].issued = runtime[s].issued
    BY <1>0, <1>15, <2>1, SaveConsumes DEF Becomes, Runtime
  <2>3. /\ current' = current /\ phase' = phase /\ disk' = as_stored(runtime[s])
        /\ recorded' = recorded /\ token' = token /\ clock' = clock
    BY <1>15 DEF SaveRuns, external, history
  <2>4. Loaded' /\ disk'.issued = runtime[s].issued
    BY <2>1, <2>3 DEF Loaded, as_stored
  <2> QED
    BY <1>3, <1>4, <1>5, <1>6, <2>1, <2>2, <2>3, <2>4
<1>16. CASE UnloadFlushes
  <2>1. Loaded /\ ~Loaded' /\ disk' = State /\ recorded' = recorded
        /\ token' = token /\ clock' = clock
    BY <1>16 DEF UnloadFlushes, Loaded, State, external, history
  <2> QED
    BY <1>3, <1>5, <1>6, <2>1
<1>17. CASE ListenerStops \/ UnloadEnds
  <2>1. ~Loaded /\ ~Loaded' /\ disk' = disk /\ recorded' = recorded
        /\ token' = token /\ clock' = clock
    BY <1>17 DEF ListenerStops, UnloadEnds, Loaded, external, history
  <2> QED
    BY <1>3, <1>4, <1>5, <1>6, <2>1
<1>18. ASSUME NEW orderly \in BOOLEAN, Stop(orderly) PROVE Goal
  <2> DEFINE waiting == {s \in Slots : runtime[s].pending}
  <2>1. ~Loaded' /\ recorded' = recorded /\ token' = token /\ clock' = clock
    BY <1>18 DEF Stop, Loaded, external
  <2>2. crashed' = (crashed \/ (~orderly /\ waiting # {}))
    BY <1>18 DEF Stop
  <2>3. CASE waiting = {}
    <3>1. disk' = disk
      BY <1>18, <2>3 DEF Stop
    <3>2. Loaded => current \in Slots
      BY <1>0 DEF Loaded
    <3>3. Loaded => ~runtime[current].pending
      BY <2>3, <3>2
    <3> QED
      BY <1>2, <1>3, <1>4, <1>5, <1>6, <2>1, <3>1, <3>3
  <2>4. CASE waiting # {}
    <3>1. orderly
      BY <2>2, <2>4
    <3>2. PICK s \in Slots : runtime[s].pending /\ disk' = as_stored(runtime[s])
      BY <1>18, <2>4, <3>1 DEF Stop
    <3>3. disk' = State
      BY <1>2, <3>2 DEF Saving, Loaded, State
    <3> QED
      BY <1>3, <1>5, <1>6, <2>1, <3>3
  <2> QED
    BY <2>3, <2>4
<1>19. ASSUME NEW s \in Slots, NEW r \in Messages \cup {Auth}, RequestArrives(s, r)
       PROVE  Goal
  <2>1. UNCHANGED <<phase, current, runtime, disk, recorded, token, clock>>
    BY <1>19 DEF RequestArrives, history
  <2> QED
    BY <1>6, <1>11, <2>1 DEF Loaded
<1>20. CASE UNCHANGED vars
  BY <1>6, <1>11, <1>20 DEF Loaded, vars
<1>21. ASSUME NEW p \in Ports, OtherTakes(p) \/ OtherReleases(p) PROVE Goal
  <2>1. UNCHANGED <<phase, current, runtime, disk, recorded, token, clock>>
    BY <1>21 DEF OtherTakes, OtherReleases, history
  <2> QED
    BY <1>6, <1>11, <2>1 DEF Loaded
<1>22. CASE TokenElsewhere
  <2>1. UNCHANGED <<phase, current, runtime, disk, recorded>> /\ token'.from = "vendor"
    BY <1>22 DEF TokenElsewhere, history
  <2>2. ~Fresh'
    BY <2>1 DEF Fresh
  <2> QED
    BY <1>11, <2>1, <2>2 DEF Loaded
<1>23. CASE Hour
  <2>1. /\ UNCHANGED <<phase, current, runtime, disk, recorded, token>>
        /\ clock' = clock + 1
    BY <1>23 DEF Hour, history
  <2>2. token.at \in Nat
    BY <1>0
  <2>3. Fresh' => Fresh
    BY <1>0, <2>1, <2>2 DEF Fresh
  <2> QED
    BY <1>11, <2>1, <2>3 DEF Loaded
<1> QED
  BY <1>7, <1>8, <1>9, <1>10, <1>12, <1>13, <1>14, <1>15, <1>16, <1>17, <1>18,
     <1>19, <1>20, <1>21, <1>22, <1>23 DEF Next

LEMMA InitRemembered == Init => Remembered
<1>1. Init => /\ recorded = {} /\ token.from = "vendor"
  BY DEF Init
<1> QED
  BY <1>1 DEF Remembered, Fresh

LEMMA AlwaysRemembered == Spec => []Remembered
BY InitTypes, StepTypes, InitHeld, StepHeld, InitSaved, StepSaved,
   InitRemembered, StepRemembered, PTL DEF Spec

(* Whatever was recorded is known after any reloads, failed binds, retries *)
(* and stops, unless a crash came within a save's delay or a request       *)
(* outlived its runtime's flush.                                           *)
THEOREM NothingForgotten == Spec => []RecordedIsKept
<1>1. Remembered => RecordedIsKept
  BY DEF Remembered, RecordedIsKept
<1> QED
  BY <1>1, AlwaysRemembered, PTL

(* A token of ours that the device still carries is not forgotten by them  *)
(* either.                                                                 *)
THEOREM TokenIsRemembered == Spec => []TokenRemembered
<1>1. Remembered => TokenRemembered
  BY DEF Remembered, TokenRemembered, Fresh
<1> QED
  BY <1>1, AlwaysRemembered, PTL
=============================================================================
