--------------------------- MODULE DeliveryProofs ---------------------------
(***************************************************************************)
(* For any events, tries, servers and stops, and any timeouts that keep    *)
(* the budget: every step of Delivery is one of AtLeastOnce or changes     *)
(* nothing there; what gets through was heard at home; a relay is over in  *)
(* time; the shim fails open; and in good health nothing arrives twice.    *)
(*                                                                         *)
(* What any step does to an event, seen from outside, is one of the few    *)
(* things that Outcome lists.  Each action is shown to be one of them, and *)
(* then each of them once to keep the invariant and to be allowed.  The    *)
(* later parts add to that invariant: who heard (HInv), how long each      *)
(* handler has run (TInv), how long the device has waited (FInv), what a   *)
(* try may add in good health (OInv), and how many copies there can be     *)
(* (KInv).                                                                 *)
(***************************************************************************)
EXTENDS Delivery, FiniteSetTheorems, TLAPS

Handlers == Events \X (1 .. Tries)

(* What a handler may answer.                                              *)
Statuses == {"200", "500", "502"}

Types ==
    /\ fate \in [Events -> {"unmade", "pending", "acknowledged", "lost"}]
    /\ try \in [Events -> 0 .. Tries]
    /\ place \in [Events -> {"nowhere", "sent", "integration", "vendor"}]
    /\ got \in [Events -> Nat]
    /\ DOMAIN relay = Handlers

(* A request is somewhere only while its event is pending and a try is     *)
(* counted; an event waits for another try only while one is left; nothing *)
(* is relayed that was not made.                                           *)
Linked ==
    /\ \A e \in Events :
         /\ place[e] # "nowhere" => fate[e] = "pending" /\ try[e] \in 1 .. Tries
         /\ fate[e] = "unmade" => try[e] = 0
         /\ fate[e] = "pending" /\ place[e] = "nowhere" => try[e] < Tries
    /\ \A r \in Handlers : relay[r] # NoRelay => fate[r[1]] # "unmade"

DInv == Types /\ Linked

LEMMA TriesNat == Tries \in Nat /\ Tries > 0
BY BudgetAssumption

Outcome(e) ==
    /\ try' = try
    /\ \/ UNCHANGED <<fate, place>>
       \/ /\ place[e] # "nowhere"
          /\ \/ /\ fate' = fate
                /\ \E x \in {"integration", "vendor"} : place' = [place EXCEPT ![e] = x]
             \/ TryFails(e)
             \/ Acknowledged(e) /\ got' = [got EXCEPT ![e] = @ + 1]
    /\ \/ got' = got
       \/ fate[e] # "unmade" /\ got' = [got EXCEPT ![e] = @ + 1]

(* Handlers only appear for a request that is somewhere.                   *)
Relaying ==
    /\ DOMAIN relay' = Handlers
    /\ \A r \in Handlers :
         relay'[r] # NoRelay => relay[r] # NoRelay \/ place[r[1]] # "nowhere"

-----------------------------------------------------------------------------
LEMMA AnswersOutcome ==
    ASSUME DInv, NEW e \in Events, NEW t \in 1 .. Tries, NEW status \in Statuses,
           relay[<<e, t>>] # NoRelay, try' = try, Answers(e, t, status),
           (got' = got /\ status # "200") \/ got' = [got EXCEPT ![e] = @ + 1]
    PROVE  Outcome(e) /\ Relaying
<1>0. <<e, t>> \in Handlers /\ <<e, t>>[1] = e
  BY DEF Handlers
<1>1. fate[e] # "unmade"
  BY <1>0 DEF DInv, Linked
<1>2. Relaying
  BY DEF Answers, Relaying, DInv, Types, Handlers
<1>3. Outcome(e)
  BY <1>1 DEF Answers, HomeAssistantFailed, Outcome
<1> QED
  BY <1>2, <1>3

(* Every action that concerns one event, but for a new try.                *)
LEMMA StepOutcome ==
    ASSUME DInv, NEW e \in Events,
           \/ DeviceGivesUp(e) \/ Refused(e) \/ Arrives(e)
           \/ VendorAnswersShim(e) \/ VendorFailsShim(e)
           \/ \E t \in 1 .. Tries : RelaySteps(e, t) \/ Crashes(e, t)
    PROVE  Outcome(e) /\ Relaying
<1> USE DEF DInv, Types
<1>1. place[e] # "nowhere" => fate[e] = "pending"
  BY DEF Linked
<1>2. UNCHANGED relay => Relaying
  BY DEF Relaying
<1>3. CASE DeviceGivesUp(e)
  BY <1>1, <1>2, <1>3 DEF DeviceGivesUp, Outcome
<1>4. CASE Refused(e)
  BY <1>1, <1>2, <1>4 DEF Refused, HomeAssistantFailed, Outcome, history
<1>5. CASE Arrives(e)
  <2>1. Outcome(e)
    BY <1>5 DEF Arrives, Outcome, history
  <2>2. place[e] # "nowhere" /\ \A r \in Handlers : r # <<e, try[e]>> => relay'[r] = relay[r]
    BY <1>5 DEF Arrives
  <2>3. Relaying
    BY <1>5, <2>2, <<e, try[e]>>[1] = e DEF Arrives, Relaying
  <2> QED
    BY <2>1, <2>3
<1>6. CASE VendorAnswersShim(e)
  BY <1>1, <1>2, <1>6 DEF VendorAnswersShim, Outcome
<1>7. CASE VendorFailsShim(e)
  BY <1>1, <1>2, <1>7 DEF VendorFailsShim, Outcome
<1>8. ASSUME NEW t \in 1 .. Tries, RelaySteps(e, t) \/ Crashes(e, t)
      PROVE  Outcome(e) /\ Relaying
  <2>0. <<e, t>> \in Handlers /\ <<e, t>>[1] = e
    BY DEF Handlers
  <2>1. relay[<<e, t>>] # NoRelay
    <3>1. relay[<<e, t>>].stage \in {"lookup", "first", "second"} \/ Crashes(e, t)
      BY <1>8 DEF RelaySteps, LookupAnswers, LookupFallsBack, LookupFails,
           VendorAnswers, VendorHangsUp, VendorFails
    <3>2. NoRelay.stage = "none"
      BY DEF NoRelay
    <3> QED
      BY <3>1, <3>2 DEF Crashes
  <2>2. fate[e] # "unmade"
    BY <2>0, <2>1 DEF Linked
  <2>3. CASE LookupAnswers(e, t) \/ LookupFallsBack(e, t) \/ VendorHangsUp(e, t)
    <3>1. Stage(e, t, "first") \/ Stage(e, t, "second")
      BY <2>3 DEF LookupAnswers, LookupFallsBack, VendorHangsUp
    <3>2. Relaying
      BY <2>1, <3>1 DEF Stage, Relaying, Handlers
    <3>3. Outcome(e)
      BY <2>3 DEF LookupAnswers, LookupFallsBack, VendorHangsUp, Outcome, device, history
    <3> QED
      BY <3>2, <3>3
  <2>4. CASE LookupFails(e, t) \/ VendorFails(e, t)
    BY <2>1, <2>4, AnswersOutcome DEF LookupFails, VendorFails, Statuses
  <2>5. CASE VendorAnswers(e, t)
    BY <2>1, <2>5, AnswersOutcome DEF VendorAnswers, Statuses
  <2>6. CASE Crashes(e, t)
    <3>1. Relaying
      BY <2>6 DEF Crashes, Relaying, Handlers
    <3>2. Outcome(e)
      BY <2>2, <2>6 DEF Crashes, HomeAssistantFailed, Outcome
    <3> QED
      BY <3>1, <3>2
  <2> QED
    BY <1>8, <2>3, <2>4, <2>5, <2>6 DEF RelaySteps
<1> QED
  BY <1>3, <1>4, <1>5, <1>6, <1>7, <1>8

(* What concerns no event in particular.                                   *)
LEMMA RestOutcome ==
    ASSUME DInv, AddressExpires \/ Stops \/ Starts \/ Tick \/ UNCHANGED vars
    PROVE  UNCHANGED <<fate, try, place, got>> /\ Relaying
<1> USE DEF DInv, Types, device, history
<1>1. CASE Tick
  <2>1. DOMAIN relay' = Handlers
    BY <1>1 DEF Tick
  <2>2. \A r \in Handlers : relay[r] = NoRelay => relay'[r] = NoRelay
    BY <1>1 DEF Tick
  <2> QED
    BY <1>1, <2>1, <2>2 DEF Tick, Relaying
<1>2. CASE AddressExpires \/ Stops \/ Starts \/ UNCHANGED vars
  BY <1>2 DEF AddressExpires, Stops, Starts, vars, Relaying
<1> QED
  BY <1>1, <1>2

-----------------------------------------------------------------------------
(* What FailedTries is while a request is somewhere, and once it is not.   *)
LEMMA Count ==
    ASSUME DInv, NEW e \in Events
    PROVE  /\ place[e] # "nowhere" => FailedTries(e) = try[e] - 1
           /\ fate[e] = "unmade" => FailedTries(e) = 0
BY DEF DInv, Linked, FailedTries

LEMMA SendsInv ==
    ASSUME DInv, NEW e \in Events, DeviceSends(e)
    PROVE  DInv'
<1>1. try[e] < Tries
  BY TriesNat DEF DeviceSends, DInv, Linked
<1>2. /\ fate' = [fate EXCEPT ![e] = "pending"]
      /\ try' = [try EXCEPT ![e] = try[e] + 1] /\ try[e] + 1 \in 1 .. Tries
      /\ place' = [place EXCEPT ![e] = "sent"]
      /\ got' = got /\ relay' = relay
  <2>1. try[e] \in 0 .. Tries
    BY DEF DInv, Types
  <2>2. try[e] + 1 \in 1 .. Tries
    BY <1>1, <2>1, TriesNat
  <2> QED
    BY <2>2 DEF DeviceSends, history
<1>3. Types'
  <2>1. try' \in [Events -> 0 .. Tries]
    <3>1. try[e] \in 0 .. Tries
      BY DEF DInv, Types
    <3>2. try[e] + 1 \in 0 .. Tries
      BY <1>1, <3>1, TriesNat
    <3> QED
      BY <1>2, <3>2 DEF DInv, Types
  <2> QED
    BY <1>2, <2>1 DEF DInv, Types
<1>4. \A f \in Events :
        /\ place'[f] # "nowhere" => fate'[f] = "pending" /\ try'[f] \in 1 .. Tries
        /\ fate'[f] = "unmade" => try'[f] = 0
        /\ fate'[f] = "pending" /\ place'[f] = "nowhere" => try'[f] < Tries
  BY <1>2 DEF DInv, Types, Linked
<1>5. \A f \in Events : fate'[f] = "unmade" => fate[f] = "unmade"
  BY <1>2 DEF DInv, Types
<1>6. Linked'
  BY <1>2, <1>4, <1>5 DEF DInv, Linked, Handlers
<1> QED
  BY <1>3, <1>6 DEF DInv

LEMMA OutcomeInv ==
    ASSUME DInv, NEW e \in Events, Outcome(e), Relaying
    PROVE  DInv'
<1>0. /\ got' \in [Events -> Nat]
      /\ try' = try
  <2>1. got \in [Events -> Nat]
    BY DEF DInv, Types
  <2>2. got[e] \in Nat
    BY <2>1
  <2>3. got[e] + 1 \in Nat
    BY <2>2
  <2> QED
    BY <2>1, <2>3 DEF Outcome
<1>1. Types'
  BY <1>0 DEF Outcome, Relaying, TryFails, Acknowledged, DInv, Types
<1>2. \A f \in Events :
        /\ place'[f] # "nowhere" => fate'[f] = "pending" /\ try'[f] \in 1 .. Tries
        /\ fate'[f] = "unmade" => try'[f] = 0
        /\ fate'[f] = "pending" /\ place'[f] = "nowhere" => try'[f] < Tries
  <2>1. \A f \in Events \ {e} : fate'[f] = fate[f] /\ place'[f] = place[f]
    BY DEF Outcome, TryFails, Acknowledged, DInv, Types
  <2>2. CASE UNCHANGED <<fate, place>>
    BY <1>0, <2>2 DEF DInv, Linked
  <2>3. CASE /\ place[e] # "nowhere" /\ fate' = fate
             /\ \E x \in {"integration", "vendor"} : place' = [place EXCEPT ![e] = x]
    <3>1. fate[e] = "pending" /\ try[e] \in 1 .. Tries /\ place'[e] # "nowhere"
      BY <2>3 DEF DInv, Linked, Types
    <3> QED
      BY <1>0, <2>1, <2>3, <3>1 DEF DInv, Linked
  <2>4. CASE place[e] # "nowhere" /\ TryFails(e)
    <3>1. /\ place'[e] = "nowhere"
          /\ fate'[e] = IF try[e] = Tries THEN "lost" ELSE "pending"
          /\ try[e] \in 1 .. Tries
      BY <2>4 DEF TryFails, DInv, Linked, Types
    <3>2. fate'[e] = "pending" => try'[e] < Tries
      BY <1>0, <3>1, TriesNat
    <3> QED
      BY <1>0, <2>1, <3>1, <3>2 DEF DInv, Linked
  <2>5. CASE place[e] # "nowhere" /\ Acknowledged(e)
    <3>1. place'[e] = "nowhere" /\ fate'[e] = "acknowledged"
      BY <2>5 DEF Acknowledged, DInv, Types
    <3> QED
      BY <1>0, <2>1, <3>1 DEF DInv, Linked
  <2> QED
    BY <2>2, <2>3, <2>4, <2>5 DEF Outcome
<1>3. \A f \in Events : fate'[f] = "unmade" => fate[f] = "unmade"
  BY DEF Outcome, TryFails, Acknowledged, DInv, Types, Linked
<1>4. \A r \in Handlers : relay'[r] # NoRelay => fate'[r[1]] # "unmade"
  BY <1>3 DEF Relaying, DInv, Linked, Handlers
<1> QED
  BY <1>1, <1>2, <1>4 DEF DInv, Linked

LEMMA RestInv ==
    ASSUME DInv, UNCHANGED <<fate, try, place, got>>, Relaying
    PROVE  DInv'
BY DEF Relaying, DInv, Types, Linked, Handlers

LEMMA InitInv == Init => DInv
BY BudgetAssumption DEF Init, DInv, Types, Linked, Handlers

LEMMA StepInv == DInv /\ [Next]_vars => DInv'
BY SendsInv, StepOutcome, OutcomeInv, RestOutcome, RestInv DEF Next

-----------------------------------------------------------------------------
Failures == [e \in Events |-> FailedTries(e)]
Has      == {e \in Events : got[e] > 0}

LEMMA HasStep ==
    ASSUME DInv, NEW e \in Events, got' = got \/ got' = [got EXCEPT ![e] = @ + 1]
    PROVE  /\ Has' \in {Has, Has \cup {e}}
           /\ got' # got => Has' = Has \cup {e}
<1>1. CASE got' = got
  BY <1>1 DEF Has
<1>2. CASE got' = [got EXCEPT ![e] = @ + 1]
  <2>1. got[e] \in Nat /\ got'[e] = got[e] + 1
    BY <1>2 DEF DInv, Types
  <2>2. \A f \in Events \ {e} : got'[f] = got[f]
    BY <1>2 DEF DInv, Types
  <2> QED
    BY <2>1, <2>2 DEF Has
<1> QED
  BY <1>1, <1>2

LEMMA SendsStep ==
    ASSUME DInv, NEW e \in Events, DeviceSends(e)
    PROVE  [Promise!Next]_(Promise!vars)
<1>1. /\ fate' = [fate EXCEPT ![e] = "pending"]
      /\ try' = [try EXCEPT ![e] = try[e] + 1] /\ try[e] \in 0 .. Tries
      /\ place' = [place EXCEPT ![e] = "sent"]
      /\ place[e] = "nowhere" /\ fate[e] \in {"unmade", "pending"}
      /\ fate[e] = "unmade" => try[e] = 0
  BY DEF DeviceSends, DInv, Types, Linked
<1>2. FailedTries(e) = try[e]
  BY <1>1 DEF FailedTries
<1>3. FailedTries(e)' = try[e]
  <2>1. fate'[e] = "pending" /\ place'[e] = "sent" /\ try'[e] = try[e] + 1
    BY <1>1 DEF DInv, Types
  <2>2. FailedTries(e)' = try'[e] - 1
    BY <2>1 DEF FailedTries
  <2> QED
    <3>0. try[e] \in 0 .. Tries
      BY <1>1
    <3>1. try[e] \in Nat
      BY <3>0, TriesNat
    <3>2. FailedTries(e)' = (try[e] + 1) - 1
      BY <2>1, <2>2
    <3> QED
      BY <3>1, <3>2
<1>4. \A f \in Events \ {e} : FailedTries(f)' = FailedTries(f)
  BY <1>1 DEF FailedTries, DInv, Types
<1>5. Failures' = Failures
  BY <1>2, <1>3, <1>4 DEF Failures
<1>6. Has' = Has
  BY DEF DeviceSends, Has, history
<1>7. fate' = fate \/ (fate[e] = "unmade" /\ fate' = [fate EXCEPT ![e] = "pending"])
  BY DEF DeviceSends, DInv, Types
<1> QED
  BY <1>5, <1>6, <1>7 DEF Failures, Has, Promise!Next, Promise!Make, Promise!vars

LEMMA OutcomeStep ==
    ASSUME DInv, NEW e \in Events, Outcome(e)
    PROVE  [Promise!Next]_(Promise!vars)
<1>1. Has' \in {Has, Has \cup {e}}
  BY HasStep DEF Outcome
<1>2. CASE fate' = fate /\ \/ place' = place
                           \/ /\ place[e] # "nowhere"
                              /\ \E x \in {"integration", "vendor"} :
                                   place' = [place EXCEPT ![e] = x]
  <2>1. Failures' = Failures
    BY <1>2 DEF Outcome, Failures, FailedTries, DInv, Types
  <2>2. CASE got' = got
    BY <1>2, <2>1, <2>2 DEF Failures, Has, Promise!vars
  <2>3. CASE got' # got
    <3>1. fate[e] # "unmade" /\ Has' = Has \cup {e}
      BY <2>3, HasStep DEF Outcome
    <3> QED
      BY <1>2, <2>1, <3>1 DEF Failures, Has, Promise!Next, Promise!ReachVendor
  <2> QED
    BY <2>2, <2>3
<1>3. CASE place[e] # "nowhere" /\ TryFails(e)
  <2>1. fate[e] = "pending" /\ Failures[e] = try[e] - 1 /\ try[e] \in 1 .. Tries
    BY <1>3, Count DEF Failures, DInv, Linked
  <2>2. fate' = [fate EXCEPT ![e] = IF Failures[e] + 1 = Tries THEN "lost"
                                                               ELSE "pending"]
    <3>1. Failures[e] + 1 = Tries <=> try[e] = Tries
      BY <2>1, TriesNat
    <3>2. fate' = [fate EXCEPT ![e] = IF try[e] = Tries THEN "lost" ELSE fate[e]]
      BY <1>3 DEF TryFails
    <3> QED
      BY <2>1, <3>1, <3>2
  <2>3. fate'[e] \in {"pending", "lost"} /\ place'[e] = "nowhere"
    BY <1>3, <2>2 DEF TryFails, DInv, Types
  <2>4. FailedTries(e)' = Failures[e] + 1
    <3>1. FailedTries(e)' = try'[e] /\ try' = try
      BY <2>3 DEF Outcome, FailedTries
    <3> QED
      BY <2>1, <3>1, TriesNat
  <2>5. \A f \in Events \ {e} : FailedTries(f)' = FailedTries(f)
    BY <1>3 DEF Outcome, TryFails, FailedTries, DInv, Types
  <2>6. Failures' = [Failures EXCEPT ![e] = @ + 1]
    BY <2>4, <2>5 DEF Failures
  <2> QED
    BY <1>1, <2>1, <2>2, <2>6 DEF Failures, Has, Promise!Next, Promise!FailTry
<1>4. CASE /\ place[e] # "nowhere"
           /\ Acknowledged(e)
           /\ got' = [got EXCEPT ![e] = @ + 1]
  <2>1. fate[e] = "pending" /\ Failures[e] = try[e] - 1
    BY <1>4, Count DEF Failures, DInv, Linked
  <2>2. fate' = [fate EXCEPT ![e] = "acknowledged"] /\ fate'[e] = "acknowledged"
    BY <1>4 DEF Acknowledged, DInv, Types
  <2>3. FailedTries(e)' = Failures[e]
    BY <2>1, <2>2 DEF Outcome, FailedTries
  <2>4. \A f \in Events \ {e} : FailedTries(f)' = FailedTries(f)
    BY <1>4 DEF Outcome, Acknowledged, FailedTries, DInv, Types
  <2>5. Failures' = Failures
    BY <2>3, <2>4 DEF Failures
  <2>6. e \in Has'
    <3>1. got[e] \in Nat /\ got'[e] = got[e] + 1
      BY <1>4 DEF DInv, Types
    <3> QED
      BY <3>1 DEF Has
  <2> QED
    BY <1>1, <2>1, <2>2, <2>5, <2>6 DEF Failures, Has, Promise!Next, Promise!Acknowledge
<1> QED
  BY <1>2, <1>3, <1>4 DEF Outcome

LEMMA RestStep ==
    ASSUME UNCHANGED <<fate, try, place, got>>
    PROVE  UNCHANGED Promise!vars
BY DEF Promise!vars, FailedTries

(* Through the shim, the relay, its retries and every stop of Home         *)
(* Assistant, the device is told an event is delivered only once the       *)
(* vendor has it, and gives it up only after its last try.                 *)
THEOREM DeliversAtLeastOnce == Spec => Promise!Init /\ [][Promise!Next]_(Promise!vars)
<1>1. Init => Promise!Init
  BY DEF Init, Promise!Init, FailedTries
<1>2. DInv /\ [Next]_vars => [Promise!Next]_(Promise!vars)
  BY SendsStep, StepOutcome, OutcomeStep, RestOutcome, RestStep DEF Next
<1> QED
  BY <1>1, <1>2, InitInv, StepInv, PTL DEF Spec

-----------------------------------------------------------------------------
(* A request that went on to the vendor was recorded here first, or its    *)
(* try met Home Assistant away; and while Home Assistant is away, so did   *)
(* every try it has not dropped yet.                                       *)
Heard(e) ==
    /\ recorded[e] \in Nat
    /\ place[e] = "vendor" \/ fate[e] = "acknowledged"
         => <<e, try[e]>> \in outages \/ recorded[e] >= 1
    /\ ha = "down" /\ place[e] = "integration" => <<e, try[e]>> \in outages

HInv ==
    /\ DInv
    /\ DOMAIN recorded = Events
    /\ \A e \in Events : Heard(e)

LEMMA SameHeard ==
    ASSUME NEW e \in Events, Heard(e), outages \subseteq outages',
           ha' = ha \/ ha' = "up",
           fate'[e] = fate[e], place'[e] = place[e], try'[e] = try[e],
           recorded'[e] = recorded[e]
    PROVE  Heard(e)'
BY DEF Heard

(* A step leaves all other events as they are.                             *)
LEMMA OthersHeard ==
    ASSUME HInv, NEW e \in Events, Outcome(e) \/ DeviceSends(e), ha' = ha,
           outages \subseteq outages',
           recorded' = recorded \/ recorded' = [recorded EXCEPT ![e] = @ + 1]
    PROVE  /\ DOMAIN recorded' = Events
           /\ \A f \in Events \ {e} : Heard(f)'
<1>1. \A f \in Events \ {e} : /\ fate'[f] = fate[f] /\ place'[f] = place[f]
                              /\ try'[f] = try[f] /\ recorded'[f] = recorded[f]
  BY DEF Outcome, DeviceSends, TryFails, Acknowledged, HInv, DInv, Types
<1>2. DOMAIN recorded' = Events
  BY DEF HInv
<1> QED
  BY <1>1, <1>2, SameHeard DEF HInv

LEMMA AnswersHeard ==
    ASSUME HInv, NEW e \in Events, NEW t \in 1 .. Tries, NEW status \in Statuses,
           Answers(e, t, status), UNCHANGED <<try, ha, outages>>
    PROVE  Heard(e)'
<1>1. recorded'[e] = recorded[e] + 1 /\ recorded[e] \in Nat
  BY DEF Answers, HInv, Heard
<1>2. ha = "down" /\ place'[e] = "integration" => place[e] = "integration"
  BY DEF Answers, HomeAssistantFailed, TryFails, Acknowledged, HInv, DInv, Types
<1>3. recorded'[e] \in Nat /\ recorded'[e] >= 1
  BY <1>1
<1>4. ha = "down" /\ place[e] = "integration" => <<e, try[e]>> \in outages
  BY DEF HInv, Heard
<1> QED
  BY <1>2, <1>3, <1>4 DEF Heard

LEMMA StepHeard ==
    ASSUME HInv, NEW e \in Events,
           \/ DeviceGivesUp(e) \/ Refused(e) \/ Arrives(e)
           \/ VendorAnswersShim(e) \/ VendorFailsShim(e)
           \/ \E t \in 1 .. Tries : RelaySteps(e, t) \/ Crashes(e, t)
    PROVE  /\ Heard(e)'
           /\ ha' = ha /\ outages \subseteq outages'
           /\ recorded' = recorded \/ recorded' = [recorded EXCEPT ![e] = @ + 1]
<1> USE DEF HInv, DInv, Types, history, device
<1>0. Heard(e)
  OBVIOUS
<1>1. CASE DeviceGivesUp(e)
  BY <1>0, <1>1 DEF DeviceGivesUp, TryFails, Heard, Linked
<1>2. CASE Refused(e)
  BY <1>0, <1>2 DEF Refused, HomeAssistantFailed, TryFails, Heard, Linked
<1>3. CASE Arrives(e)
  BY <1>0, <1>3 DEF Arrives, Heard, Linked
<1>4. CASE VendorAnswersShim(e)
  BY <1>0, <1>4 DEF VendorAnswersShim, Acknowledged, Heard
<1>5. CASE VendorFailsShim(e)
  BY <1>0, <1>5 DEF VendorFailsShim, TryFails, Heard, Linked
<1>6. ASSUME NEW t \in 1 .. Tries, RelaySteps(e, t) PROVE
        /\ Heard(e)'
        /\ ha' = ha /\ outages \subseteq outages'
        /\ recorded' = recorded \/ recorded' = [recorded EXCEPT ![e] = @ + 1]
  <2>1. CASE LookupAnswers(e, t) \/ LookupFallsBack(e, t) \/ VendorHangsUp(e, t)
    BY <1>0, <2>1 DEF LookupAnswers, LookupFallsBack, VendorHangsUp, Heard
  <2>2. CASE LookupFails(e, t) \/ VendorFails(e, t) \/ VendorAnswers(e, t)
    <3>1. /\ \E status \in Statuses : Answers(e, t, status)
          /\ UNCHANGED <<try, ha, outages>>
      BY <2>2 DEF LookupFails, VendorFails, VendorAnswers, Statuses
    <3> QED
      BY <3>1, AnswersHeard DEF Answers
  <2> QED
    BY <1>6, <2>1, <2>2 DEF RelaySteps
<1>7. ASSUME NEW t \in 1 .. Tries, Crashes(e, t) PROVE
        /\ Heard(e)'
        /\ ha' = ha /\ outages \subseteq outages'
        /\ recorded' = recorded \/ recorded' = [recorded EXCEPT ![e] = @ + 1]
  BY <1>0, <1>7 DEF Crashes, HomeAssistantFailed, TryFails, Heard, Linked
<1> QED
  BY <1>1, <1>2, <1>3, <1>4, <1>5, <1>6, <1>7

LEMMA StepHInv == HInv /\ [Next]_vars => HInv'
<1> SUFFICES ASSUME HInv, [Next]_vars PROVE HInv'
  OBVIOUS
<1>1. DInv'
  BY StepInv DEF HInv
<1>2. ASSUME NEW e \in Events, DeviceSends(e) PROVE HInv'
  <2>1. Heard(e)'
    BY <1>2 DEF DeviceSends, history, HInv, DInv, Types, Heard
  <2>2. ha' = ha /\ outages' = outages /\ recorded' = recorded
    BY <1>2 DEF DeviceSends, history
  <2> QED
    BY <1>1, <1>2, <2>1, <2>2, OthersHeard DEF HInv
<1>3. ASSUME NEW e \in Events,
             \/ DeviceGivesUp(e) \/ Refused(e) \/ Arrives(e)
             \/ VendorAnswersShim(e) \/ VendorFailsShim(e)
             \/ \E t \in 1 .. Tries : RelaySteps(e, t) \/ Crashes(e, t)
      PROVE  HInv'
  <2>1. Outcome(e)
    BY <1>3, StepOutcome DEF HInv
  <2> QED
    BY <1>1, <1>3, <2>1, StepHeard, OthersHeard DEF HInv
<1>4. CASE Stops
  <2>1. /\ UNCHANGED <<fate, try, place, recorded>> /\ outages \subseteq outages'
        /\ \A e \in Events : place[e] # "nowhere" => <<e, try[e]>> \in outages'
    BY <1>4 DEF Stops, device
  <2> QED
    BY <1>1, <2>1 DEF HInv, Heard
<1>5. CASE AddressExpires \/ Starts \/ Tick \/ UNCHANGED vars
  <2>1. /\ UNCHANGED <<fate, try, place, recorded, outages>>
        /\ ha' = ha \/ ha' = "up"
    BY <1>5 DEF AddressExpires, Starts, Tick, vars, device, history
  <2> QED
    BY <1>1, <2>1 DEF HInv, Heard
<1> QED
  BY <1>2, <1>3, <1>4, <1>5 DEF Next

LEMMA InitHInv == Init => HInv
BY InitInv DEF Init, HInv, Heard

(* Failing open never bypasses Home Assistant: whatever gets an event      *)
(* through, it was recorded here, unless Home Assistant was away.          *)
THEOREM AlwaysHeardAtHome == Spec => []HeardAtHome
<1>1. HInv => HeardAtHome
  BY DEF HInv, Heard, HeardAtHome
<1> QED
  BY <1>1, InitHInv, StepHInv, PTL DEF Spec

-----------------------------------------------------------------------------
(* Time.  A handler has spent no longer than its lookup and its requests   *)
(* may take, and one that waited for the vendor longer than a healthy      *)
(* vendor takes has a fault to show for it.                                *)
Faulty(e, t) == \E kind \in {"dropped", "failed"} : <<e, t, kind>> \in faults

Before(r) == IF relay[r].looked THEN LookupTimeout ELSE 0

Timed(r) ==
    /\ relay[r] \in [stage : {"none", "lookup", "first", "second"}, spent : Nat,
                     age : Nat, looked : BOOLEAN]
    /\ relay[r].stage = "none" => relay[r] = NoRelay
    /\ relay[r].stage = "lookup" => /\ relay[r].looked
                                    /\ relay[r].age = relay[r].spent
                                    /\ relay[r].spent <= LookupTimeout
    /\ relay[r].stage = "first" => /\ relay[r].age <= Before(r) + relay[r].spent
                                   /\ relay[r].spent <= VendorTimeout
    /\ relay[r].stage = "second" =>
         /\ <<r[1], r[2], "dropped">> \in faults
         /\ relay[r].age <= Before(r) + VendorTimeout + relay[r].spent
         /\ relay[r].spent <= VendorTimeout
    /\ relay[r].stage \in {"first", "second"} /\ relay[r].spent > AnswerTime
         => Faulty(r[1], r[2])

TInv ==
    /\ DInv
    /\ \A r \in Handlers : Timed(r)

LEMMA TimesNat ==
    /\ LookupTimeout \in Nat /\ VendorTimeout \in Nat /\ AnswerTime \in Nat
    /\ Patience \in Nat
    /\ LookupTimeout + 2 * AnswerTime < Patience
    /\ 2 * VendorTimeout < Patience
    /\ LookupTimeout + VendorTimeout < Patience
BY BudgetAssumption

LEMMA SameTimed ==
    ASSUME NEW r \in Handlers, Timed(r), relay'[r] = relay[r], faults \subseteq faults'
    PROVE  Timed(r)'
BY DEF Timed, Before, Faulty

LEMMA NoneTimed ==
    ASSUME NEW r \in Handlers, relay'[r] = NoRelay
    PROVE  Timed(r)'
<1>1. /\ relay'[r].stage = "none"
      /\ relay'[r] \in [stage : {"none", "lookup", "first", "second"}, spent : Nat,
                        age : Nat, looked : BOOLEAN]
  BY DEF NoRelay
<1> QED
  BY <1>1 DEF Timed

(* The next stage starts at once, with the time spent so far.              *)
LEMMA StageTimed ==
    ASSUME TInv, NEW e \in Events, NEW t \in 1 .. Tries, NEW next \in {"first", "second"},
           Stage(e, t, next), faults \subseteq faults',
           \/ next = "first" /\ relay[<<e, t>>].stage = "lookup"
           \/ /\ next = "second" /\ relay[<<e, t>>].stage = "first"
              /\ <<e, t, "dropped">> \in faults'
    PROVE  /\ \A r \in Handlers : Timed(r)'
           /\ relay'[<<e, t>>].age = relay[<<e, t>>].age
           /\ relay'[<<e, t>>] # NoRelay
           /\ \A r \in Handlers \ {<<e, t>>} : relay'[r] = relay[r]
<1> DEFINE h == <<e, t>>
<1>1. h \in Handlers /\ h[1] = e /\ h[2] = t
  BY DEF Handlers
<1>2. relay'[h] = [stage |-> next, spent |-> 0, age |-> relay[h].age,
                   looked |-> relay[h].looked]
  <2>1. relay[h] \in [stage : {"none", "lookup", "first", "second"}, spent : Nat,
                      age : Nat, looked : BOOLEAN]
    BY <1>1 DEF TInv, Timed
  <2>2. relay'[h] = [relay[h] EXCEPT !.stage = next, !.spent = 0]
    BY <1>1 DEF Stage, TInv, DInv, Types
  <2> QED
    BY <2>1, <2>2
<1>3. \A r \in Handlers \ {h} : relay'[r] = relay[r]
  BY <1>1 DEF Stage, TInv, DInv, Types
<1>4. Timed(h)
  BY <1>1 DEF TInv
<1>5. relay[h].age \in Nat /\ relay[h].spent \in Nat /\ relay[h].looked \in BOOLEAN
  BY <1>4 DEF Timed
<1>6. next = "first" => relay[h].looked /\ relay[h].age <= LookupTimeout
  BY <1>4, TimesNat DEF Timed
<1>7. next = "second" => relay[h].age <= Before(h) + VendorTimeout
  BY <1>4, <1>5, TimesNat DEF Timed, Before
<1>8. Before(h)' = Before(h) /\ Before(h) \in Nat
  BY <1>2, <1>5, TimesNat DEF Before
<1>9. Timed(h)'
  <2>1. relay'[h] \in [stage : {"none", "lookup", "first", "second"}, spent : Nat,
                       age : Nat, looked : BOOLEAN]
    BY <1>2, <1>5
  <2>2. relay'[h].spent = 0 /\ relay'[h].stage = next /\ relay'[h].age = relay[h].age
    BY <1>2
  <2>3. next = "first" => relay'[h].age <= Before(h)' + relay'[h].spent
    BY <1>5, <1>6, <1>8, <2>2, TimesNat DEF Before
  <2>4. next = "second" => relay'[h].age <= Before(h)' + VendorTimeout + relay'[h].spent
    BY <1>5, <1>7, <1>8, <2>2, TimesNat
  <2>5. next = "second" => <<h[1], h[2], "dropped">> \in faults'
    BY <1>1
  <2>6. 0 <= VendorTimeout /\ ~(0 > AnswerTime)
    BY TimesNat
  <2> QED
    BY <2>1, <2>2, <2>3, <2>4, <2>5, <2>6 DEF Timed
<1> QED
  BY <1>2, <1>3, <1>9, SameTimed DEF TInv, NoRelay

(* A second passes for every handler.                                      *)
LEMMA TickTimed ==
    ASSUME TInv, Tick, NEW r \in Handlers
    PROVE  Timed(r)'
<1>1. Timed(r) /\ faults \subseteq faults'
  BY DEF TInv, Tick
<1>2. CASE relay[r] = NoRelay
  <2>1. relay'[r] = NoRelay
    BY <1>2 DEF Tick, TInv, DInv, Types
  <2> QED
    BY <2>1, NoneTimed
<1>3. CASE relay[r] # NoRelay
  <2>1. relay[r].stage \in {"lookup", "first", "second"}
    BY <1>1, <1>3 DEF Timed
  <2>2. relay[r].spent \in Nat /\ relay[r].age \in Nat /\ relay[r].looked \in BOOLEAN
    BY <1>1 DEF Timed
  <2>3. relay'[r] = [stage |-> relay[r].stage, spent |-> relay[r].spent + 1,
                     age |-> relay[r].age + 1, looked |-> relay[r].looked]
    <3>1. relay'[r] = [relay[r] EXCEPT !.spent = @ + 1, !.age = @ + 1]
      BY <1>3 DEF Tick, TInv, DInv, Types
    <3> QED
      BY <1>1, <3>1 DEF Timed
  <2>4. relay[r].spent < Limit(relay[r].stage)
    BY <2>1 DEF Tick, TInv, DInv, Types
  <2>5. /\ relay[r].stage = "lookup" => relay[r].spent < LookupTimeout
        /\ relay[r].stage \in {"first", "second"} => relay[r].spent < VendorTimeout
    BY <2>1, <2>4 DEF Limit
  <2>6. Before(r)' = Before(r) /\ Before(r) \in Nat
    BY <2>2, <2>3, TimesNat DEF Before
  <2>7. relay[r].stage \in {"first", "second"} /\ relay[r].spent + 1 > AnswerTime
          => Faulty(r[1], r[2])'
    <3>1. SUFFICES ASSUME relay[r].stage \in {"first", "second"},
                          relay[r].spent + 1 > AnswerTime
                   PROVE  Faulty(r[1], r[2])'
      OBVIOUS
    <3>2. relay[r].spent >= AnswerTime
      BY <2>2, <3>1, TimesNat
    <3>3. <<r[1], r[2], "failed">> \in faults'
      BY <3>1, <3>2 DEF Tick, TInv, DInv, Types
    <3> QED
      BY <3>3 DEF Faulty
  <2>8. CASE relay[r].stage = "lookup"
    BY <1>1, <2>2, <2>3, <2>5, <2>8, TimesNat DEF Timed
  <2>9. CASE relay[r].stage = "first"
    <3>1. relay[r].age + 1 <= Before(r) + (relay[r].spent + 1)
      BY <1>1, <2>2, <2>6, <2>9 DEF Timed
    <3>2. relay[r].spent + 1 <= VendorTimeout
      BY <2>2, <2>5, <2>9, TimesNat
    <3> QED
      BY <2>2, <2>3, <2>6, <2>7, <2>9, <3>1, <3>2 DEF Timed
  <2>10. CASE relay[r].stage = "second"
    <3>1. relay[r].age + 1 <= Before(r) + VendorTimeout + (relay[r].spent + 1)
      BY <1>1, <2>2, <2>6, <2>10, TimesNat DEF Timed
    <3>2. relay[r].spent + 1 <= VendorTimeout
      BY <2>2, <2>5, <2>10, TimesNat
    <3>3. <<r[1], r[2], "dropped">> \in faults'
      BY <1>1, <2>10 DEF Timed
    <3> QED
      BY <2>2, <2>3, <2>6, <2>7, <2>10, <3>1, <3>2, <3>3 DEF Timed
  <2> QED
    BY <2>1, <2>8, <2>9, <2>10
<1> QED
  BY <1>2, <1>3

(* The relay's own steps.                                                  *)
LEMMA RelayTimed ==
    ASSUME TInv, NEW e \in Events, NEW t \in 1 .. Tries,
           RelaySteps(e, t) \/ Crashes(e, t)
    PROVE  \A r \in Handlers : Timed(r)'
<1>1. CASE LookupAnswers(e, t) \/ LookupFallsBack(e, t)
  <2>1. /\ Stage(e, t, "first") /\ relay[<<e, t>>].stage = "lookup"
        /\ faults \subseteq faults'
    BY <1>1 DEF LookupAnswers, LookupFallsBack, history
  <2> QED
    BY <2>1, StageTimed
<1>2. CASE VendorHangsUp(e, t)
  <2>1. /\ Stage(e, t, "second") /\ relay[<<e, t>>].stage = "first"
        /\ faults \subseteq faults' /\ <<e, t, "dropped">> \in faults'
    BY <1>2 DEF VendorHangsUp
  <2> QED
    BY <2>1, StageTimed
<1>3. CASE \/ LookupFails(e, t) \/ VendorAnswers(e, t)
           \/ VendorFails(e, t) \/ Crashes(e, t)
  <2>1. /\ relay' = [relay EXCEPT ![<<e, t>>] = NoRelay]
        /\ faults \subseteq faults'
    BY <1>3 DEF LookupFails, VendorAnswers, VendorFails, Crashes, Answers
  <2>2. \A r \in Handlers : relay'[r] = relay[r] \/ relay'[r] = NoRelay
    BY <2>1 DEF TInv, DInv, Types
  <2> QED
    BY <2>1, <2>2, SameTimed, NoneTimed DEF TInv
<1> QED
  BY <1>1, <1>2, <1>3 DEF RelaySteps

LEMMA ArrivesTimed ==
    ASSUME TInv, NEW e \in Events, Arrives(e)
    PROVE  \A r \in Handlers : Timed(r)'
<1> DEFINE new == [stage |-> IF address = "fresh" THEN "first" ELSE "lookup",
                   spent |-> 0, age |-> 0, looked |-> address # "fresh"]
<1>1. relay' = [relay EXCEPT ![<<e, try[e]>>] = new] /\ faults' = faults
  BY DEF Arrives, history
<1>2. ASSUME NEW r \in Handlers, relay'[r] = new PROVE Timed(r)'
  <2>1. /\ relay'[r].spent = 0 /\ relay'[r].age = 0
        /\ relay'[r].looked = (address # "fresh")
        /\ relay'[r].stage = IF address = "fresh" THEN "first" ELSE "lookup"
    BY <1>2
  <2>2. relay'[r] \in [stage : {"none", "lookup", "first", "second"}, spent : Nat,
                       age : Nat, looked : BOOLEAN]
    BY <1>2
  <2>3. Before(r)' \in Nat
    BY <2>1, TimesNat DEF Before
  <2>4. /\ relay'[r].age <= Before(r)' + relay'[r].spent
        /\ relay'[r].spent <= LookupTimeout /\ relay'[r].spent <= VendorTimeout
        /\ ~(relay'[r].spent > AnswerTime)
    BY <2>1, <2>3, TimesNat
  <2> QED
    BY <2>1, <2>2, <2>4 DEF Timed
<1>3. \A r \in Handlers : relay'[r] = relay[r] \/ relay'[r] = new
  BY <1>1 DEF TInv, DInv, Types
<1> QED
  BY <1>1, <1>2, <1>3, SameTimed DEF TInv

LEMMA StepTInv == TInv /\ [Next]_vars => TInv'
<1> SUFFICES ASSUME TInv, [Next]_vars PROVE TInv'
  OBVIOUS
<1>1. DInv'
  BY StepInv DEF TInv
<1>2. CASE \E e \in Events : Arrives(e)
  BY <1>1, <1>2, ArrivesTimed DEF TInv
<1>3. CASE \E e \in Events, t \in 1 .. Tries : RelaySteps(e, t) \/ Crashes(e, t)
  BY <1>1, <1>3, RelayTimed DEF TInv
<1>4. CASE Tick
  BY <1>1, <1>4, TickTimed DEF TInv
<1>5. CASE \/ \E e \in Events : \/ DeviceSends(e) \/ DeviceGivesUp(e) \/ Refused(e)
                                \/ VendorAnswersShim(e) \/ VendorFailsShim(e)
           \/ AddressExpires \/ Stops \/ Starts \/ UNCHANGED vars
  <2>1. relay' = relay /\ faults \subseteq faults'
    BY <1>5 DEF DeviceSends, DeviceGivesUp, Refused, VendorAnswersShim, vars,
         VendorFailsShim, AddressExpires, Stops, Starts, history
  <2> QED
    BY <1>1, <2>1, SameTimed DEF TInv
<1> QED
  BY <1>2, <1>3, <1>4, <1>5 DEF Next

LEMMA InitTInv == Init => TInv
<1> SUFFICES ASSUME Init PROVE TInv
  OBVIOUS
<1>1. \A r \in Handlers : relay[r] = NoRelay
  BY DEF Init, Handlers
<1>2. /\ NoRelay.stage = "none"
      /\ NoRelay \in [stage : {"none", "lookup", "first", "second"}, spent : Nat,
                      age : Nat, looked : BOOLEAN]
  BY DEF NoRelay
<1> QED
  BY <1>1, <1>2, InitInv DEF TInv, Timed

(* How long a handler can have run at all.                                 *)
LEMMA InTime ==
    ASSUME NEW r \in Handlers, Timed(r), relay[r].age >= Patience
    PROVE  relay[r].looked /\ <<r[1], r[2], "dropped">> \in faults
<1>1. relay[r].spent \in Nat /\ relay[r].age \in Nat /\ relay[r].looked \in BOOLEAN
  BY DEF Timed
<1>2. relay[r].stage # "none"
  <2>1. NoRelay.age = 0
    BY DEF NoRelay
  <2>2. relay[r].stage = "none" => relay[r].age = 0
    BY <2>1 DEF Timed
  <2> QED
    BY <2>2, TimesNat
<1>3. relay[r].stage # "lookup"
  BY <1>1, TimesNat DEF Timed
<1>4. relay[r].stage # "first"
  <2>1. relay[r].stage = "first" => relay[r].age <= LookupTimeout + VendorTimeout
    BY <1>1, TimesNat DEF Timed, Before
  <2> QED
    BY <1>1, <2>1, TimesNat
<1>5. relay[r].stage = "second"
  BY <1>2, <1>3, <1>4 DEF Timed
<1>6. ~relay[r].looked => relay[r].age <= 2 * VendorTimeout
  BY <1>1, <1>5, TimesNat DEF Timed, Before
<1>7. relay[r].looked
  BY <1>1, <1>6, TimesNat
<1> QED
  BY <1>5, <1>7 DEF Timed

(* The budget of the timeouts holds in every state: a relay that outlasts  *)
(* the device's patience looked the vendor up and was disconnected once.   *)
THEOREM AlwaysBudgetHolds == Spec => []BudgetHolds
<1>1. TInv => BudgetHolds
  <2> SUFFICES ASSUME TInv, NEW e \in Events, NEW t \in 1 .. Tries,
                      relay[<<e, t>>].age >= Patience
               PROVE  relay[<<e, t>>].looked /\ <<e, t, "dropped">> \in faults
    BY DEF BudgetHolds
  <2>1. <<e, t>> \in Handlers /\ <<e, t>>[1] = e /\ <<e, t>>[2] = t
    BY DEF Handlers
  <2> QED
    BY <2>1, InTime DEF TInv
<1> QED
  BY <1>1, InitTInv, StepTInv, PTL DEF Spec

-----------------------------------------------------------------------------
(* Failing open.  The device's wait and the age of the handler it waits    *)
(* for are one clock; a request the shim took to the vendor without the    *)
(* vendor having failed it did so in time to be answered; every try that   *)
(* is over the vendor has failed.                                          *)
Waits(e) ==
    /\ fate[e] = "lost" => try[e] = Tries
    /\ place[e] = "sent" => waited[e] = 0
    /\ place[e] = "integration" => /\ relay[<<e, try[e]>>] # NoRelay
                                   /\ relay[<<e, try[e]>>].age = waited[e]
    /\ place[e] = "vendor" =>
         \/ Faulty(e, try[e])
         \/ /\ shimmed[e].spent <= AnswerTime
            /\ waited[e] <= LookupTimeout + AnswerTime + shimmed[e].spent
    /\ shim => \A t \in 1 .. FailedTries(e) : Faulty(e, t)

FInv ==
    /\ TInv
    /\ waited \in [Events -> Nat]
    /\ shimmed \in [Events -> [server : Nat, spent : Nat]]
    /\ \A e \in Events : Waits(e)

LEMMA SameWaits ==
    ASSUME NEW e \in Events, Waits(e), shim' = shim, faults \subseteq faults',
           fate'[e] = fate[e], try'[e] = try[e], place'[e] = place[e],
           waited'[e] = waited[e], shimmed'[e] = shimmed[e],
           place[e] = "integration" =>
               relay'[<<e, try[e]>>] # NoRelay
               /\ relay'[<<e, try[e]>>].age = relay[<<e, try[e]>>].age
    PROVE  Waits(e)'
<1>1. FailedTries(e)' = FailedTries(e)
  BY DEF FailedTries
<1>2. \A t : Faulty(e, t) => Faulty(e, t)'
  BY DEF Faulty
<1> QED
  BY <1>1, <1>2 DEF Waits

(* While a request is somewhere, the tries before it have failed.          *)
LEMMA Underway ==
    ASSUME FInv, NEW e \in Events, place[e] # "nowhere"
    PROVE  /\ fate[e] = "pending" /\ try[e] \in 1 .. Tries
           /\ FailedTries(e) = try[e] - 1
BY DEF FInv, TInv, DInv, Linked, FailedTries

(* A try that ends without an answer: the vendor has to have failed it.    *)
LEMMA FailsWaits ==
    ASSUME FInv, NEW e \in Events, place[e] # "nowhere", TryFails(e), try' = try,
           shim' = shim, faults \subseteq faults', shim => Faulty(e, try[e])'
    PROVE  Waits(e)'
<1>1. fate[e] = "pending" /\ try[e] \in 1 .. Tries /\ FailedTries(e) = try[e] - 1
  BY Underway
<1>2. /\ place'[e] = "nowhere"
      /\ fate'[e] = IF try[e] = Tries THEN "lost" ELSE "pending"
  BY <1>1 DEF TryFails, FInv, TInv, DInv, Types
<1>3. FailedTries(e)' = try[e]
  BY <1>2 DEF FailedTries
<1>4. ASSUME shim', NEW t \in 1 .. try[e] PROVE Faulty(e, t)'
  <2>1. CASE t = try[e]
    BY <1>4, <2>1
  <2>2. CASE t # try[e]
    <3>1. t \in 1 .. FailedTries(e)
      BY <1>1, <1>4, <2>2, TriesNat
    <3> QED
      BY <1>4, <3>1 DEF FInv, Waits, Faulty
  <2> QED
    BY <2>1, <2>2
<1> QED
  BY <1>2, <1>3, <1>4 DEF Waits

LEMMA AckWaits ==
    ASSUME FInv, NEW e \in Events, place[e] # "nowhere", Acknowledged(e), try' = try,
           shim' = shim, faults \subseteq faults'
    PROVE  Waits(e)'
<1>1. FailedTries(e) = try[e] - 1
  BY Underway
<1>2. place'[e] = "nowhere" /\ fate'[e] = "acknowledged"
  BY DEF Acknowledged, FInv, TInv, DInv, Types
<1>3. FailedTries(e)' = FailedTries(e)
  BY <1>1, <1>2 DEF FailedTries
<1> QED
  BY <1>2, <1>3 DEF Waits, FInv, Faulty

(* Home Assistant is done with it, in time or because the vendor failed.   *)
LEMMA ReplayWaits ==
    ASSUME FInv, NEW e \in Events, NEW why \in {"error", "502"}, place[e] # "nowhere",
           HomeAssistantFailed(e, why), try' = try, waited' = waited,
           shim' = shim, faults \subseteq faults',
           Faulty(e, try[e])' \/ waited[e] <= LookupTimeout + AnswerTime
    PROVE  /\ Waits(e)'
           /\ shimmed' \in [Events -> [server : Nat, spent : Nat]]
           /\ \A f \in Events \ {e} : shimmed'[f] = shimmed[f]
<1>1. CASE shim
  <2>1. /\ place' = [place EXCEPT ![e] = "vendor"] /\ fate' = fate
        /\ shimmed' = [shimmed EXCEPT ![e] = [server |-> 1, spent |-> 0]]
    BY <1>1 DEF HomeAssistantFailed, Replays
  <2>2. place'[e] = "vendor" /\ shimmed'[e].spent = 0
    BY <2>1 DEF FInv, TInv, DInv, Types
  <2>3. FailedTries(e)' = FailedTries(e)
    BY <2>1, <2>2, Underway DEF FailedTries
  <2>4. /\ 0 <= AnswerTime
        /\ waited[e] <= LookupTimeout + AnswerTime =>
             waited[e] <= LookupTimeout + AnswerTime + 0
    BY TimesNat DEF FInv
  <2>5. Waits(e)'
    <3>1. fate'[e] = "pending"
      BY <2>1, Underway
    <3>2. \A t : Faulty(e, t) => Faulty(e, t)'
      BY DEF Faulty
    <3>3. shim => \A t \in 1 .. FailedTries(e) : Faulty(e, t)'
      BY <3>2 DEF FInv, Waits
    <3> QED
      BY <2>2, <2>3, <2>4, <3>1, <3>3 DEF Waits
  <2>6. shimmed' \in [Events -> [server : Nat, spent : Nat]]
    BY <2>1 DEF FInv
  <2>7. \A f \in Events \ {e} : shimmed'[f] = shimmed[f]
    BY <2>1 DEF FInv
  <2> QED
    BY <2>5, <2>6, <2>7
<1>2. CASE ~shim
  <2>1. TryFails(e) /\ shimmed' = shimmed
    BY <1>2 DEF HomeAssistantFailed, Replays
  <2> QED
    BY <1>2, <2>1, FailsWaits DEF FInv
<1> QED
  BY <1>1, <1>2

(* The handler of the try the device waits for: how far it may have come   *)
(* before the vendor has failed.                                           *)
LEMMA Prompt ==
    ASSUME FInv, NEW e \in Events, place[e] = "integration", ~Faulty(e, try[e])
    PROVE  waited[e] <= LookupTimeout + AnswerTime
<1> DEFINE h == <<e, try[e]>>
<1>1. h \in Handlers /\ h[1] = e /\ h[2] = try[e]
  BY Underway DEF Handlers
<1>2. Timed(h) /\ relay[h] # NoRelay /\ relay[h].age = waited[e]
  BY <1>1 DEF FInv, TInv, Waits
<1>3. relay[h].spent \in Nat /\ relay[h].age \in Nat
  BY <1>2 DEF Timed
<1>4. relay[h].stage \in {"lookup", "first"}
  BY <1>1, <1>2 DEF Timed, Faulty
<1>5. CASE relay[h].stage = "lookup"
  <2>1. relay[h].age <= LookupTimeout
    BY <1>2, <1>5 DEF Timed
  <2> QED
    BY <1>2, <1>3, <2>1, TimesNat
<1>6. CASE relay[h].stage = "first"
  <2>1. ~(relay[h].spent > AnswerTime)
    BY <1>1, <1>2, <1>6 DEF Timed
  <2>2. relay[h].age <= LookupTimeout + relay[h].spent
    BY <1>2, <1>3, <1>6, TimesNat DEF Timed, Before
  <2> QED
    BY <1>2, <1>3, <2>1, <2>2, TimesNat
<1> QED
  BY <1>4, <1>5, <1>6

(* The device gives up only after the vendor failed.                       *)
LEMMA GivesUpLate ==
    ASSUME FInv, NEW e \in Events, DeviceGivesUp(e)
    PROVE  Faulty(e, try[e])
<1>1. waited[e] = Patience /\ place[e] \in {"integration", "vendor"}
  BY DEF DeviceGivesUp
<1>2. CASE place[e] = "integration"
  <2>1. ~(waited[e] <= LookupTimeout + AnswerTime)
    BY <1>1, TimesNat
  <2> QED
    BY <1>2, <2>1, Prompt
<1>3. CASE place[e] = "vendor"
  <2>1. shimmed[e].spent \in Nat
    BY DEF FInv
  <2>2. ~(/\ shimmed[e].spent <= AnswerTime
          /\ waited[e] <= LookupTimeout + AnswerTime + shimmed[e].spent)
    BY <1>1, <2>1, TimesNat
  <2> QED
    BY <1>3, <2>2 DEF FInv, Waits
<1> QED
  BY <1>1, <1>2, <1>3

(* What every step of one event leaves of the others.                      *)
Apart(e) ==
    /\ shim' = shim /\ faults \subseteq faults'
    /\ waited' \in [Events -> Nat]
    /\ shimmed' \in [Events -> [server : Nat, spent : Nat]]
    /\ \A f \in Events \ {e} :
         /\ waited'[f] = waited[f] /\ shimmed'[f] = shimmed[f]
         /\ \A t \in 1 .. Tries : relay'[<<f, t>>] = relay[<<f, t>>]

LEMMA OthersWait ==
    ASSUME FInv, NEW e \in Events, Outcome(e) \/ DeviceSends(e), Apart(e)
    PROVE  \A f \in Events \ {e} : Waits(f)'
<1> TAKE f \in Events \ {e}
<1>1. fate'[f] = fate[f] /\ place'[f] = place[f] /\ try'[f] = try[f]
  BY DEF Outcome, DeviceSends, TryFails, Acknowledged, FInv, TInv, DInv, Types
<1>2. place[f] = "integration" =>
        /\ relay'[<<f, try[f]>>] = relay[<<f, try[f]>>]
        /\ relay[<<f, try[f]>>] # NoRelay
  BY Underway DEF Apart, FInv, Waits
<1>3. NoRelay' = NoRelay
  BY DEF NoRelay
<1> QED
  BY <1>1, <1>2, <1>3, SameWaits DEF FInv, Apart

(* The integration's steps change only the one handler.                    *)
LEMMA RelayApart ==
    ASSUME FInv, NEW e \in Events, NEW t \in 1 .. Tries,
           RelaySteps(e, t) \/ Crashes(e, t)
    PROVE  /\ \A f \in Events \ {e}, u \in 1 .. Tries :
                relay'[<<f, u>>] = relay[<<f, u>>]
           /\ \A u \in 1 .. Tries : u # t => relay'[<<e, u>>] = relay[<<e, u>>]
           /\ shim' = shim /\ faults \subseteq faults'
           /\ waited' = waited /\ try' = try
<1>1. \A r \in Handlers : r # <<e, t>> => relay'[r] = relay[r]
  BY DEF RelaySteps, LookupAnswers, LookupFallsBack, LookupFails, VendorAnswers,
         VendorHangsUp, VendorFails, Crashes, Answers, Stage, FInv, TInv, DInv, Types
<1>2. shim' = shim /\ faults \subseteq faults' /\ waited' = waited /\ try' = try
  BY DEF RelaySteps, LookupAnswers, LookupFallsBack, LookupFails, VendorAnswers,
         VendorHangsUp, VendorFails, Crashes, device, history
<1> QED
  BY <1>1, <1>2 DEF Handlers

LEMMA RelayWaits ==
    ASSUME FInv, NEW e \in Events, NEW t \in 1 .. Tries,
           RelaySteps(e, t) \/ Crashes(e, t)
    PROVE  Waits(e)' /\ Apart(e)
<1>1. /\ \A u \in 1 .. Tries : u # t => relay'[<<e, u>>] = relay[<<e, u>>]
      /\ shim' = shim /\ faults \subseteq faults' /\ waited' = waited /\ try' = try
  BY RelayApart
<1>2. place[e] = "integration" => /\ try[e] \in 1 .. Tries
                                  /\ relay[<<e, try[e]>>] # NoRelay
  BY Underway DEF FInv, Waits
<1>3. NoRelay' = NoRelay
  BY DEF NoRelay
<1>4. CASE LookupAnswers(e, t) \/ LookupFallsBack(e, t) \/ VendorHangsUp(e, t)
  <2>1. UNCHANGED <<fate, place, shimmed>>
    BY <1>4 DEF LookupAnswers, LookupFallsBack, VendorHangsUp, device
  <2>2. relay'[<<e, t>>].age = relay[<<e, t>>].age /\ relay'[<<e, t>>] # NoRelay
    <3>1. \/ Stage(e, t, "first") /\ relay[<<e, t>>].stage = "lookup"
          \/ /\ Stage(e, t, "second") /\ relay[<<e, t>>].stage = "first"
             /\ <<e, t, "dropped">> \in faults'
      BY <1>4 DEF LookupAnswers, LookupFallsBack, VendorHangsUp
    <3> QED
      BY <1>1, <3>1, StageTimed DEF FInv
  <2>3. Waits(e)'
    BY <1>1, <1>2, <1>3, <2>1, <2>2, SameWaits DEF FInv
  <2> QED
    BY <1>1, <2>1, <2>3, RelayApart DEF Apart, FInv
<1>5. ASSUME UNCHANGED <<fate, place, shimmed>>, place[e] # "integration" \/ try[e] # t
      PROVE  Waits(e)' /\ Apart(e)
  <2>1. Waits(e)'
    BY <1>1, <1>2, <1>3, <1>5, SameWaits DEF FInv
  <2> QED
    BY <1>1, <1>5, <2>1, RelayApart DEF Apart, FInv
<1>6. ASSUME NEW why \in {"error", "502"}, place[e] = "integration",
             HomeAssistantFailed(e, why)
      PROVE  Waits(e)' /\ Apart(e)
  <2>1. Faulty(e, try[e])' \/ waited[e] <= LookupTimeout + AnswerTime
    BY <1>1, <1>6, Prompt DEF Faulty
  <2> QED
    BY <1>1, <1>6, <2>1, ReplayWaits, RelayApart DEF Apart, FInv
<1>7. ASSUME place[e] = "integration", Acknowledged(e), UNCHANGED shimmed
      PROVE  Waits(e)' /\ Apart(e)
  <2>1. Waits(e)'
    BY <1>1, <1>7, AckWaits
  <2> QED
    BY <1>1, <1>7, <2>1, RelayApart DEF Apart, FInv
<1>8. ASSUME place[e] = "integration", try[e] = t, VendorFails(e, t),
             HomeAssistantFailed(e, "500")
      PROVE  Waits(e)' /\ Apart(e)
  <2>1. TryFails(e) /\ shimmed' = shimmed
    BY <1>8 DEF HomeAssistantFailed, Replays
  <2>2. Faulty(e, try[e])'
    BY <1>1, <1>8 DEF VendorFails, Faulty
  <2>3. Waits(e)'
    BY <1>1, <1>8, <2>1, <2>2, FailsWaits
  <2> QED
    BY <1>1, <1>8, <2>1, <2>3, RelayApart DEF Apart, FInv
<1>9. CASE LookupFails(e, t) \/ VendorAnswers(e, t) \/ VendorFails(e, t)
  <2>1. \/ Answers(e, t, "200") \/ Answers(e, t, "502")
        \/ Answers(e, t, "500") /\ VendorFails(e, t)
    BY <1>9 DEF LookupFails, VendorAnswers, VendorFails
  <2> QED
    BY <1>5, <1>6, <1>7, <1>8, <2>1 DEF Answers
<1>10. CASE Crashes(e, t)
  BY <1>5, <1>6, <1>10 DEF Crashes
<1> QED
  BY <1>4, <1>9, <1>10 DEF RelaySteps

LEMMA ArrivesWaits ==
    ASSUME FInv, NEW e \in Events, Arrives(e)
    PROVE  Waits(e)' /\ Apart(e)
<1>1. /\ place[e] = "sent" /\ waited[e] = 0
      /\ fate[e] = "pending" /\ try[e] \in 1 .. Tries
      /\ FailedTries(e) = try[e] - 1
  BY Underway DEF Arrives, FInv, Waits
<1>2. /\ place'[e] = "integration"
      /\ UNCHANGED <<shim, fate, try, waited, shimmed, faults>>
  BY DEF Arrives, history, FInv, TInv, DInv, Types
<1>3. <<e, try[e]>> \in Handlers
  BY <1>1 DEF Handlers
<1>4. relay'[<<e, try[e]>>] = [stage |-> IF address = "fresh" THEN "first" ELSE "lookup",
                               spent |-> 0, age |-> 0, looked |-> address # "fresh"]
  BY <1>3 DEF Arrives, FInv, TInv, DInv, Types
<1>5. relay'[<<e, try[e]>>].age = 0 /\ relay'[<<e, try[e]>>].stage # "none"
  BY <1>4
<1>6. NoRelay.stage = "none" /\ NoRelay' = NoRelay
  BY DEF NoRelay
<1>7. FailedTries(e)' = FailedTries(e)
  BY <1>1, <1>2 DEF FailedTries
<1>8. Waits(e)'
  BY <1>1, <1>2, <1>5, <1>6, <1>7 DEF Waits, FInv, Faulty
<1>9. \A f \in Events \ {e}, t \in 1 .. Tries : relay'[<<f, t>>] = relay[<<f, t>>]
  BY DEF Arrives, FInv, TInv, DInv, Types, Handlers
<1> QED
  BY <1>2, <1>8, <1>9 DEF Apart, FInv

LEMMA OutsideWaits ==
    ASSUME FInv, NEW e \in Events,
           \/ DeviceGivesUp(e) \/ Refused(e)
           \/ VendorAnswersShim(e) \/ VendorFailsShim(e)
    PROVE  Waits(e)' /\ Apart(e)
<1>1. /\ UNCHANGED <<shim, try, waited, relay>> /\ faults \subseteq faults'
      /\ place[e] # "nowhere"
  BY DEF DeviceGivesUp, Refused, VendorAnswersShim, VendorFailsShim
<1>2. NoRequest \in [server : Nat, spent : Nat]
  BY DEF NoRequest
<1>3. CASE DeviceGivesUp(e)
  <2>1. Faulty(e, try[e])'
    BY <1>1, <1>3, GivesUpLate DEF Faulty
  <2>2. Waits(e)'
    BY <1>1, <1>3, <2>1, FailsWaits DEF DeviceGivesUp
  <2> QED
    BY <1>1, <1>2, <1>3, <2>2 DEF DeviceGivesUp, Apart, FInv
<1>4. CASE Refused(e)
  <2>1. waited[e] <= LookupTimeout + AnswerTime
    <3>1. waited[e] = 0
      BY <1>4 DEF Refused, FInv, Waits
    <3> QED
      BY <3>1, TimesNat
  <2> QED
    BY <1>1, <1>4, <2>1, ReplayWaits DEF Refused, Apart, FInv
<1>5. CASE VendorAnswersShim(e)
  <2>1. Waits(e)'
    BY <1>1, <1>5, AckWaits DEF VendorAnswersShim
  <2> QED
    BY <1>1, <1>2, <1>5, <2>1 DEF VendorAnswersShim, Apart, FInv
<1>6. CASE VendorFailsShim(e)
  <2>1. Faulty(e, try[e])'
    BY <1>6 DEF VendorFailsShim, Faulty
  <2>2. CASE /\ shimmed' = [shimmed EXCEPT ![e] = [server |-> @.server + 1, spent |-> 0]]
             /\ UNCHANGED <<fate, place>>
    <3>1. /\ shimmed' = [shimmed EXCEPT ![e] = [server |-> @.server + 1, spent |-> 0]]
          /\ fate' = fate /\ place' = place /\ place[e] = "vendor"
      BY <1>6, <2>2 DEF VendorFailsShim
    <3>2. FailedTries(e)' = FailedTries(e)
      BY <1>1, <3>1 DEF FailedTries
    <3>3. fate[e] = "pending"
      BY <1>1, Underway
    <3>4. Waits(e)'
      BY <1>1, <2>1, <3>1, <3>2, <3>3 DEF Waits, FInv, Faulty
    <3>5. [server |-> shimmed[e].server + 1, spent |-> 0] \in [server : Nat, spent : Nat]
      BY DEF FInv
    <3>6. shimmed' \in [Events -> [server : Nat, spent : Nat]]
      BY <3>1, <3>5 DEF FInv
    <3> QED
      BY <1>1, <3>1, <3>4, <3>6 DEF Apart, FInv
  <2>3. CASE TryFails(e) /\ shimmed' = [shimmed EXCEPT ![e] = NoRequest]
    <3>1. Waits(e)'
      BY <1>1, <2>1, <2>3, FailsWaits
    <3> QED
      BY <1>1, <1>2, <2>3, <3>1 DEF Apart, FInv
  <2> QED
    BY <1>6, <2>2, <2>3 DEF VendorFailsShim
<1> QED
  BY <1>3, <1>4, <1>5, <1>6

LEMMA SendsWaits ==
    ASSUME FInv, NEW e \in Events, DeviceSends(e)
    PROVE  Waits(e)' /\ Apart(e)
<1>1. /\ try[e] \in 0 .. Tries
      /\ fate[e] = "unmade" => try[e] = 0
      /\ fate[e] \in {"unmade", "pending"} /\ place[e] = "nowhere"
  BY DEF DeviceSends, FInv, TInv, DInv, Types, Linked
<1>2. /\ fate'[e] = "pending" /\ place'[e] = "sent" /\ try'[e] = try[e] + 1
      /\ waited'[e] = 0 /\ UNCHANGED <<shim, shimmed, relay, faults>>
      /\ waited' = [waited EXCEPT ![e] = 0]
  BY DEF DeviceSends, history, FInv, TInv, DInv, Types
<1>3. FailedTries(e) = try[e]
  BY <1>1 DEF FailedTries
<1>4. FailedTries(e)' = try[e]
  <2>1. FailedTries(e)' = (try[e] + 1) - 1
    BY <1>2 DEF FailedTries
  <2> QED
    BY <1>1, <2>1, TriesNat
<1>5. Waits(e)'
  BY <1>2, <1>3, <1>4 DEF Waits, FInv, Faulty
<1> QED
  BY <1>2, <1>5 DEF Apart, FInv

LEMMA TickWaits ==
    ASSUME FInv, Tick
    PROVE  /\ waited' \in [Events -> Nat]
           /\ shimmed' \in [Events -> [server : Nat, spent : Nat]]
           /\ \A e \in Events : Waits(e)'
<1>1. UNCHANGED <<shim, fate, try, place>> /\ faults \subseteq faults'
  BY DEF Tick
<1>2. waited' \in [Events -> Nat]
  <2>1. ASSUME NEW e \in Events
        PROVE  (IF place[e] = "nowhere" THEN waited[e] ELSE waited[e] + 1) \in Nat
    <3>1. waited[e] \in Nat
      BY DEF FInv
    <3> QED
      BY <3>1
  <2> QED
    BY <2>1 DEF Tick
<1>3. ASSUME NEW e \in Events
      PROVE  /\ shimmed'[e] \in [server : Nat, spent : Nat]
             /\ place[e] = "vendor" => shimmed'[e].spent = shimmed[e].spent + 1
  <2>1. shimmed[e] \in [server : Nat, spent : Nat] /\ shimmed[e].spent + 1 \in Nat
    BY DEF FInv
  <2>2. shimmed'[e] = IF place[e] = "vendor"
                      THEN [shimmed[e] EXCEPT !.spent = @ + 1]
                      ELSE shimmed[e]
    BY DEF Tick
  <2> QED
    BY <2>1, <2>2
<1>4. shimmed' \in [Events -> [server : Nat, spent : Nat]]
  BY <1>3 DEF Tick
<1>5. ASSUME NEW e \in Events PROVE Waits(e)'
  <2>1. FailedTries(e)' = FailedTries(e)
    BY <1>1 DEF FailedTries
  <2>2. Waits(e) /\ \A t : Faulty(e, t) => Faulty(e, t)'
    BY <1>1 DEF FInv, Faulty
  <2>3. place[e] # "sent" /\ (place[e] # "nowhere" => waited'[e] = waited[e] + 1)
    BY DEF Tick
  <2>4. place[e] = "integration" =>
          relay'[<<e, try[e]>>] # NoRelay /\ relay'[<<e, try[e]>>].age = waited'[e]
    <3>1. SUFFICES ASSUME place[e] = "integration"
                   PROVE  /\ relay'[<<e, try[e]>>] # NoRelay
                          /\ relay'[<<e, try[e]>>].age = waited'[e]
      OBVIOUS
    <3> DEFINE h == <<e, try[e]>>
    <3>2. h \in Handlers
      BY <3>1, Underway DEF Handlers
    <3>3. Timed(h) /\ relay[h] # NoRelay /\ relay[h].age = waited[e]
      BY <2>2, <3>1, <3>2 DEF FInv, TInv, Waits
    <3>4. relay'[h] = [relay[h] EXCEPT !.spent = @ + 1, !.age = @ + 1]
      BY <3>2, <3>3 DEF Tick, FInv, TInv, DInv, Types
    <3>5. relay'[h].age = relay[h].age + 1 /\ relay'[h].stage = relay[h].stage
      BY <3>3, <3>4 DEF Timed
    <3>6. relay[h].stage # "none" /\ NoRelay.stage = "none"
      BY <3>3 DEF Timed, NoRelay
    <3> QED
      BY <2>3, <3>1, <3>3, <3>5, <3>6
  <2>5. place[e] = "vendor" =>
          \/ Faulty(e, try[e])'
          \/ /\ shimmed'[e].spent <= AnswerTime
             /\ waited'[e] <= LookupTimeout + AnswerTime + shimmed'[e].spent
    <3>1. SUFFICES ASSUME place[e] = "vendor", ~Faulty(e, try[e])'
                   PROVE  /\ shimmed'[e].spent <= AnswerTime
                          /\ waited'[e] <= LookupTimeout + AnswerTime + shimmed'[e].spent
      OBVIOUS
    <3>2. /\ shimmed[e].spent \in Nat /\ waited[e] \in Nat
          /\ waited[e] <= LookupTimeout + AnswerTime + shimmed[e].spent
      <4>1. ~Faulty(e, try[e])
        BY <1>1, <3>1 DEF Faulty
      <4> QED
        BY <2>2, <3>1, <4>1 DEF FInv, Waits
    <3>3. ~(shimmed[e].spent >= AnswerTime)
      <4>1. shimmed[e].spent >= AnswerTime => <<e, try[e], "failed">> \in faults'
        BY <3>1 DEF Tick
      <4> QED
        BY <1>1, <3>1, <4>1 DEF Faulty
    <3>4. shimmed'[e].spent = shimmed[e].spent + 1 /\ waited'[e] = waited[e] + 1
      BY <1>3, <2>3, <3>1
    <3> QED
      BY <3>2, <3>3, <3>4, TimesNat
  <2>6. NoRelay' = NoRelay
    BY DEF NoRelay
  <2> QED
    BY <1>1, <2>1, <2>2, <2>3, <2>4, <2>5, <2>6 DEF Waits
<1> QED
  BY <1>2, <1>4, <1>5

LEMMA StepFInv == FInv /\ [Next]_vars => FInv'
<1> SUFFICES ASSUME FInv, [Next]_vars PROVE FInv'
  OBVIOUS
<1>1. TInv'
  BY StepTInv DEF FInv
<1>2. ASSUME NEW e \in Events,
             \/ DeviceSends(e) \/ DeviceGivesUp(e) \/ Refused(e) \/ Arrives(e)
             \/ VendorAnswersShim(e) \/ VendorFailsShim(e)
             \/ \E t \in 1 .. Tries : RelaySteps(e, t) \/ Crashes(e, t)
      PROVE  FInv'
  <2>1. Waits(e)' /\ Apart(e)
    BY <1>2, SendsWaits, OutsideWaits, ArrivesWaits, RelayWaits
  <2>2. Outcome(e) \/ DeviceSends(e)
    BY <1>2, StepOutcome DEF FInv, TInv
  <2>3. \A f \in Events \ {e} : Waits(f)'
    BY <2>1, <2>2, OthersWait
  <2> QED
    BY <1>1, <2>1, <2>3 DEF FInv, Apart
<1>3. CASE Tick
  BY <1>1, <1>3, TickWaits DEF FInv
<1>4. CASE AddressExpires \/ Stops \/ Starts \/ UNCHANGED vars
  <2>1. /\ UNCHANGED <<shim, fate, try, place, waited, shimmed, relay, faults>>
        /\ NoRelay' = NoRelay
    BY <1>4 DEF AddressExpires, Stops, Starts, vars, device, history, NoRelay
  <2>2. \A e \in Events : Waits(e)'
    BY <2>1, SameWaits DEF FInv, Waits
  <2> QED
    BY <1>1, <2>1, <2>2 DEF FInv
<1> QED
  BY <1>2, <1>3, <1>4 DEF Next

LEMMA InitFInv == Init => FInv
<1> SUFFICES ASSUME Init PROVE FInv
  OBVIOUS
<1>1. \A e \in Events : fate[e] = "unmade" /\ place[e] = "nowhere" /\ FailedTries(e) = 0
  BY DEF Init, FailedTries
<1>2. 1 .. 0 = {}
  OBVIOUS
<1>3. \A e \in Events : Waits(e)
  BY <1>1, <1>2 DEF Waits
<1> QED
  BY <1>3, InitTInv DEF Init, FInv, NoRequest

(* The shim fails open: with it the device loses an event only if the      *)
(* vendor failed every try, whatever Home Assistant, the lookups and the   *)
(* timeouts of every layer do, as long as the timeouts keep their budget.  *)
THEOREM AlwaysFailsOpen == Spec => []FailOpen
<1>1. FInv => FailOpen
  <2> SUFFICES ASSUME FInv, NEW e \in Events, shim, fate[e] = "lost", NEW t \in 1 .. Tries
               PROVE  Faulty(e, t)
    BY DEF FailOpen, Faulty
  <2>1. place[e] = "nowhere" /\ try[e] = Tries
    BY DEF FInv, TInv, DInv, Types, Linked, Waits
  <2>2. FailedTries(e) = Tries
    BY <2>1 DEF FailedTries
  <2> QED
    BY <2>2 DEF FInv, Waits
<1> QED
  BY <1>1, InitFInv, StepFInv, PTL DEF Spec

-----------------------------------------------------------------------------
(* Nothing twice.  While nothing has gone wrong for an event, there is one *)
(* try, one handler at most, and it is the one the device waits for; what  *)
(* the vendor and this side have counted follows from where the request is.*)
Healthy(e) ==
    shim /\ \A t \in 1 .. Tries : ~Faulty(e, t) /\ <<e, t>> \notin outages

Once(e) ==
    Healthy(e) =>
      /\ \A t \in 1 .. Tries :
           relay[<<e, t>>] # NoRelay => place[e] = "integration" /\ try[e] = t
      /\ fate[e] = "pending" => place[e] # "nowhere"
      /\ fate[e] # "lost"
      /\ got[e] = IF fate[e] = "acknowledged" THEN 1 ELSE 0
      /\ recorded[e] = IF fate[e] = "acknowledged" \/ place[e] = "vendor" THEN 1 ELSE 0

OInv ==
    /\ FInv /\ HInv
    /\ \A e \in Events : Once(e)

LEMMA SickStays ==
    ASSUME NEW e \in Events, Healthy(e)', shim' = shim, faults \subseteq faults',
           outages \subseteq outages'
    PROVE  Healthy(e)
BY DEF Healthy, Faulty

LEMMA SameOnce ==
    ASSUME NEW e \in Events, Once(e), shim' = shim, faults \subseteq faults',
           outages \subseteq outages',
           fate'[e] = fate[e], try'[e] = try[e], place'[e] = place[e],
           got'[e] = got[e], recorded'[e] = recorded[e],
           \A t \in 1 .. Tries : relay'[<<e, t>>] # NoRelay => relay[<<e, t>>] # NoRelay
    PROVE  Once(e)'
<1>1. NoRelay' = NoRelay
  BY DEF NoRelay
<1> QED
  BY <1>1, SickStays DEF Once

(* The counters of the others are not touched either.                      *)
LEMMA OthersOnce ==
    ASSUME OInv, NEW e \in Events, Outcome(e) \/ DeviceSends(e), Apart(e),
           outages \subseteq outages',
           recorded' = recorded \/ recorded' = [recorded EXCEPT ![e] = @ + 1]
    PROVE  \A f \in Events \ {e} : Once(f)'
<1> TAKE f \in Events \ {e}
<1>1. fate'[f] = fate[f] /\ place'[f] = place[f] /\ try'[f] = try[f] /\ got'[f] = got[f]
  BY DEF Outcome, DeviceSends, TryFails, Acknowledged, history, OInv, HInv, DInv, Types
<1>2. recorded'[f] = recorded[f]
  BY DEF OInv, HInv
<1> QED
  BY <1>1, <1>2, SameOnce DEF Apart, OInv

(* A handler that answers in health is the only one there is.              *)
LEMMA AnswersOnce ==
    ASSUME OInv, NEW e \in Events, NEW t \in 1 .. Tries, Healthy(e),
           relay[<<e, t>>] # NoRelay, try' = try,
           \/ Answers(e, t, "200") /\ got' = [got EXCEPT ![e] = @ + 1]
           \/ Answers(e, t, "502") /\ got' = got
    PROVE  Once(e)'
<1> USE DEF OInv, HInv, DInv, Types
<1>1. /\ place[e] = "integration" /\ try[e] = t /\ fate[e] = "pending"
      /\ \A u \in 1 .. Tries : u # t => relay[<<e, u>>] = NoRelay
      /\ got[e] = 0 /\ recorded[e] = 0
  BY DEF Once, Linked
<1>2. \A u \in 1 .. Tries : relay'[<<e, u>>] = NoRelay /\ <<e, u>> \in Handlers
  BY <1>1 DEF Answers, Handlers
<1>3. recorded'[e] = 1
  BY <1>1 DEF Answers
<1>4. NoRelay' = NoRelay
  BY DEF NoRelay
<1>5. CASE Answers(e, t, "200") /\ got' = [got EXCEPT ![e] = @ + 1]
  <2>1. fate'[e] = "acknowledged" /\ place'[e] = "nowhere" /\ got'[e] = 1
    BY <1>1, <1>5 DEF Answers, Acknowledged
  <2> QED
    BY <1>2, <1>3, <1>4, <2>1 DEF Once
<1>6. CASE Answers(e, t, "502") /\ got' = got
  <2>1. fate'[e] = "pending" /\ place'[e] = "vendor" /\ got'[e] = 0
    BY <1>1, <1>6 DEF Answers, HomeAssistantFailed, Replays, Healthy
  <2> QED
    BY <1>2, <1>3, <1>4, <2>1 DEF Once
<1> QED
  BY <1>5, <1>6

LEMMA RelayOnce ==
    ASSUME OInv, NEW e \in Events, NEW t \in 1 .. Tries,
           RelaySteps(e, t) \/ Crashes(e, t)
    PROVE  Once(e)'
<1> SUFFICES ASSUME Healthy(e)' PROVE Once(e)'
  BY DEF Once
<1> USE DEF OInv, HInv, DInv, Types
<1>1. shim' = shim /\ faults \subseteq faults' /\ outages \subseteq outages' /\ try' = try
  BY DEF RelaySteps, LookupAnswers, LookupFallsBack, LookupFails, VendorAnswers,
         VendorHangsUp, VendorFails, Crashes, device, history
<1>2. Healthy(e)
  BY <1>1, SickStays
<1>3. NoRelay' = NoRelay /\ NoRelay.stage = "none"
  BY DEF NoRelay
<1>4. relay[<<e, t>>] # NoRelay
  BY <1>3 DEF RelaySteps, LookupAnswers, LookupFallsBack, LookupFails, VendorAnswers,
              VendorHangsUp, VendorFails, Crashes
<1>5. place[e] = "integration" /\ try[e] = t
  BY <1>2, <1>4 DEF Once
<1>6. CASE LookupAnswers(e, t) \/ LookupFallsBack(e, t)
  <2>1. /\ UNCHANGED <<fate, place, got, recorded>>
        /\ Stage(e, t, "first")
    BY <1>6 DEF LookupAnswers, LookupFallsBack, device, history
  <2>2. \A u \in 1 .. Tries : u # t => relay'[<<e, u>>] = relay[<<e, u>>]
    BY <2>1 DEF Stage, Handlers
  <2>3. \A u \in 1 .. Tries : relay'[<<e, u>>] # NoRelay => relay[<<e, u>>] # NoRelay
    BY <1>4, <2>2
  <2> QED
    BY <1>1, <2>1, <2>3, SameOnce
<1>7. CASE VendorHangsUp(e, t) \/ VendorFails(e, t)
  <2>1. <<e, t, "dropped">> \in faults' \/ <<e, t, "failed">> \in faults'
    BY <1>7 DEF VendorHangsUp, VendorFails
  <2> QED
    BY <2>1 DEF Healthy, Faulty
<1>8. CASE LookupFails(e, t) \/ VendorAnswers(e, t)
  BY <1>1, <1>2, <1>4, <1>8, AnswersOnce DEF LookupFails, VendorAnswers
<1>9. CASE Crashes(e, t)
  <2>1. <<e, t>> \in outages
    BY <1>5, <1>9 DEF Crashes, Heard
  <2> QED
    BY <1>2, <2>1 DEF Healthy
<1> QED
  BY <1>6, <1>7, <1>8, <1>9 DEF RelaySteps

LEMMA OutsideOnce ==
    ASSUME OInv, NEW e \in Events,
           \/ DeviceSends(e) \/ DeviceGivesUp(e) \/ Refused(e) \/ Arrives(e)
           \/ VendorAnswersShim(e) \/ VendorFailsShim(e)
    PROVE  Once(e)'
<1> SUFFICES ASSUME Healthy(e)' PROVE Once(e)'
  BY DEF Once
<1> USE DEF OInv, HInv, DInv, Types, history
<1>1. shim' = shim /\ faults \subseteq faults' /\ outages \subseteq outages'
  BY DEF DeviceSends, DeviceGivesUp, Refused, Arrives, VendorAnswersShim, VendorFailsShim
<1>2. Healthy(e) /\ Once(e)
  BY <1>1, SickStays
<1>3. NoRelay' = NoRelay
  BY DEF NoRelay
<1>4. place[e] # "nowhere" => try[e] \in 1 .. Tries /\ fate[e] = "pending"
  BY DEF Linked
<1>5. CASE DeviceSends(e)
  <2>1. fate[e] = "unmade" /\ got[e] = 0 /\ recorded[e] = 0 /\ place[e] = "nowhere"
    BY <1>2, <1>5 DEF DeviceSends, Once
  <2>2. fate'[e] = "pending" /\ place'[e] = "sent" /\ UNCHANGED <<got, recorded, relay>>
    BY <1>5 DEF DeviceSends
  <2>3. \A u \in 1 .. Tries : relay[<<e, u>>] = NoRelay
    BY <1>2, <2>1 DEF Once
  <2> QED
    BY <1>3, <2>1, <2>2, <2>3 DEF Once
<1>6. CASE DeviceGivesUp(e)
  <2>1. Faulty(e, try[e]) /\ try[e] \in 1 .. Tries
    BY <1>4, <1>6, GivesUpLate DEF DeviceGivesUp
  <2> QED
    BY <1>2, <2>1 DEF Healthy
<1>7. CASE Refused(e)
  <2>1. <<e, try[e]>> \in outages' /\ try[e] \in 1 .. Tries
    BY <1>4, <1>7 DEF Refused
  <2> QED
    BY <2>1 DEF Healthy
<1>8. CASE Arrives(e)
  <2>1. /\ place[e] = "sent" /\ fate[e] = "pending" /\ got[e] = 0 /\ recorded[e] = 0
        /\ \A u \in 1 .. Tries : relay[<<e, u>>] = NoRelay
    BY <1>2, <1>4, <1>8 DEF Arrives, Once
  <2>2. /\ place'[e] = "integration" /\ UNCHANGED <<fate, try, got, recorded>>
        /\ \A r \in Handlers : r # <<e, try[e]>> => relay'[r] = relay[r]
    BY <1>8 DEF Arrives
  <2>3. \A u \in 1 .. Tries : relay'[<<e, u>>] # NoRelay => try[e] = u
    BY <2>1, <2>2 DEF Handlers
  <2> QED
    BY <1>3, <2>1, <2>2, <2>3 DEF Once
<1>9. CASE VendorAnswersShim(e)
  <2>1. /\ place[e] = "vendor" /\ fate[e] = "pending" /\ got[e] = 0 /\ recorded[e] = 1
        /\ \A u \in 1 .. Tries : relay[<<e, u>>] = NoRelay
    BY <1>2, <1>4, <1>9 DEF VendorAnswersShim, Once
  <2>2. /\ place'[e] = "nowhere" /\ fate'[e] = "acknowledged" /\ got'[e] = 1
        /\ UNCHANGED <<recorded, relay>>
    BY <1>9, <2>1 DEF VendorAnswersShim, Acknowledged
  <2> QED
    BY <1>3, <2>1, <2>2 DEF Once
<1>10. CASE VendorFailsShim(e)
  <2>1. <<e, try[e], "failed">> \in faults' /\ try[e] \in 1 .. Tries
    BY <1>4, <1>10 DEF VendorFailsShim
  <2> QED
    BY <2>1 DEF Healthy, Faulty
<1> QED
  BY <1>5, <1>6, <1>7, <1>8, <1>9, <1>10

LEMMA StepOInv == OInv /\ [Next]_vars => OInv'
<1> SUFFICES ASSUME OInv, [Next]_vars PROVE OInv'
  OBVIOUS
<1>1. FInv' /\ HInv'
  BY StepFInv, StepHInv DEF OInv
<1>2. ASSUME NEW e \in Events,
             \/ DeviceSends(e) \/ DeviceGivesUp(e) \/ Refused(e) \/ Arrives(e)
             \/ VendorAnswersShim(e) \/ VendorFailsShim(e)
             \/ \E t \in 1 .. Tries : RelaySteps(e, t) \/ Crashes(e, t)
      PROVE  OInv'
  <2>1. Once(e)'
    BY <1>2, OutsideOnce, RelayOnce
  <2>2. Apart(e)
    BY <1>2, SendsWaits, OutsideWaits, ArrivesWaits, RelayWaits DEF OInv
  <2>3. Outcome(e) \/ DeviceSends(e)
    BY <1>2, StepOutcome DEF OInv, HInv
  <2>4. /\ outages \subseteq outages'
        /\ recorded' = recorded \/ recorded' = [recorded EXCEPT ![e] = @ + 1]
    BY <1>2, StepHeard DEF OInv, DeviceSends, history
  <2>5. \A f \in Events \ {e} : Once(f)'
    BY <2>2, <2>3, <2>4, OthersOnce
  <2> QED
    BY <1>1, <2>1, <2>5 DEF OInv
<1>3. CASE AddressExpires \/ Stops \/ Starts \/ Tick \/ UNCHANGED vars
  <2>1. /\ UNCHANGED <<shim, fate, try, place, got, recorded>>
        /\ faults \subseteq faults' /\ outages \subseteq outages'
    BY <1>3 DEF AddressExpires, Stops, Starts, Tick, vars, device, history
  <2>2. \A e \in Events, t \in 1 .. Tries :
          relay'[<<e, t>>] # NoRelay => relay[<<e, t>>] # NoRelay
    <3>1. CASE relay' = relay
      BY <3>1
    <3>2. CASE Tick
      BY <3>2 DEF Tick, OInv, HInv, DInv, Types, Handlers
    <3> QED
      BY <1>3, <3>1, <3>2 DEF AddressExpires, Stops, Starts, vars
  <2>3. \A e \in Events : Once(e)'
    BY <2>1, <2>2, SameOnce DEF OInv
  <2> QED
    BY <1>1, <2>3 DEF OInv
<1> QED
  BY <1>2, <1>3 DEF Next

LEMMA InitOInv == Init => OInv
<1> SUFFICES ASSUME Init PROVE OInv
  OBVIOUS
<1>1. FInv /\ HInv
  BY InitFInv, InitHInv
<1>2. ASSUME NEW e \in Events PROVE Once(e)
  <2>1. /\ fate[e] = "unmade" /\ place[e] = "nowhere" /\ got[e] = 0 /\ recorded[e] = 0
        /\ \A t \in 1 .. Tries : relay[<<e, t>>] = NoRelay
    BY DEF Init
  <2> QED
    BY <2>1 DEF Once
<1> QED
  BY <1>1, <1>2 DEF OInv

(* The retries of the layers duplicate nothing by themselves, however many *)
(* tries and servers there are: what got through in health did so once, at *)
(* the vendor and here, even when the lookup failed and the shim stepped   *)
(* in.  It rests on the budget: in health the device never hangs up early. *)
THEOREM AlwaysOnceInHealth == Spec => []ExactlyOnceInHealth
<1>1. OInv => ExactlyOnceInHealth
  <2> SUFFICES ASSUME OInv, NEW e \in Events, Healthy(e)
               PROVE  /\ got[e] <= 1 /\ recorded[e] <= 1
                      /\ fate[e] = "acknowledged" => got[e] = 1 /\ recorded[e] = 1
    BY DEF ExactlyOnceInHealth, Healthy, Faulty
  <2>1. Once(e)
    BY DEF OInv
  <2> QED
    BY <2>1 DEF Once
<1> QED
  BY <1>1, InitOInv, StepOInv, PTL DEF Spec

-----------------------------------------------------------------------------
(* Counting.  Each handler that is left may give the vendor one copy and   *)
(* _record one call, and so may, by way of the shim, the request that the  *)
(* device waits for; what has been counted and what may come yet is never  *)
(* more than the tries so far allow.  The counts alone are not inductive.  *)
Alive(e) == {t \in 1 .. Tries : relay[<<e, t>>] # NoRelay}

CopiesDue(e)  == IF place[e] = "nowhere" THEN 0 ELSE IF place[e] = "sent" THEN 2 ELSE 1
RecordsDue(e) == IF place[e] = "sent" THEN 1 ELSE 0

Counted(e) ==
    /\ got[e] + Cardinality(Alive(e)) + CopiesDue(e) <= 2 * try[e]
    /\ recorded[e] + Cardinality(Alive(e)) + RecordsDue(e) <= try[e]
    /\ place[e] = "sent" => relay[<<e, try[e]>>] = NoRelay
    /\ \A t \in Alive(e) : t <= try[e]

LEMMA AliveFinite ==
    ASSUME NEW e \in Events
    PROVE  IsFiniteSet(Alive(e)) /\ Cardinality(Alive(e)) \in Nat
<1>1. IsFiniteSet(1 .. Tries)
  BY TriesNat, FS_Interval
<1>2. Alive(e) \in SUBSET (1 .. Tries)
  BY DEF Alive
<1>3. IsFiniteSet(Alive(e))
  BY <1>1, <1>2, FS_Subset
<1> QED
  BY <1>3, FS_CardinalityType

LEMMA SameAlive ==
    ASSUME NEW e \in Events,
           \A t \in 1 .. Tries : relay'[<<e, t>>] # NoRelay <=> relay[<<e, t>>] # NoRelay
    PROVE  Alive(e)' = Alive(e)
<1>1. NoRelay' = NoRelay
  BY DEF NoRelay
<1> QED
  BY <1>1 DEF Alive

(* As many handlers or one fewer, and no more due.                         *)
LEMMA FewerCounted ==
    ASSUME DInv, NEW e \in Events, Counted(e), recorded[e] \in Nat, try' = try,
           NEW n \in {0, 1},
           \/ n = 0 /\ Alive(e)' = Alive(e)
           \/ n = 1 /\ \E t \in Alive(e) : Alive(e)' = Alive(e) \ {t},
           place'[e] # "sent",
           \/ got'[e] <= got[e] + n /\ CopiesDue(e)' <= CopiesDue(e)
           \/ n = 0 /\ got'[e] = got[e] + 1 /\ CopiesDue(e)' + 1 <= CopiesDue(e),
           got'[e] \in Nat,
           recorded'[e] \in Nat, recorded'[e] <= recorded[e] + n
    PROVE  Counted(e)'
<1>1. /\ got[e] \in Nat /\ try[e] \in Nat
      /\ CopiesDue(e) \in Nat /\ CopiesDue(e)' \in Nat
      /\ RecordsDue(e) \in Nat /\ RecordsDue(e)' = 0
  BY TriesNat DEF DInv, Types, CopiesDue, RecordsDue
<1>2. /\ Cardinality(Alive(e)) \in Nat
      /\ Cardinality(Alive(e))' = Cardinality(Alive(e)) - n
      /\ Alive(e)' \subseteq Alive(e)
  BY AliveFinite, FS_RemoveElement
<1>3. got'[e] + Cardinality(Alive(e))' + CopiesDue(e)' <= 2 * try[e]
  BY <1>1, <1>2 DEF Counted
<1>4. recorded'[e] + Cardinality(Alive(e))' + RecordsDue(e)' <= try[e]
  BY <1>1, <1>2 DEF Counted
<1> QED
  BY <1>2, <1>3, <1>4 DEF Counted

LEMMA SameCounted ==
    ASSUME NEW e \in Events, Counted(e), Alive(e)' = Alive(e),
           place'[e] = place[e], try'[e] = try[e],
           got'[e] = got[e], recorded'[e] = recorded[e],
           place[e] = "sent" => relay'[<<e, try[e]>>] = relay[<<e, try[e]>>]
    PROVE  Counted(e)'
BY DEF Counted, CopiesDue, RecordsDue, NoRelay

LEMMA SendsCounted ==
    ASSUME OInv, NEW e \in Events, Counted(e), DeviceSends(e)
    PROVE  Counted(e)'
<1>1. /\ got[e] \in Nat /\ recorded[e] \in Nat /\ try[e] \in 0 .. Tries /\ try[e] \in Nat
      /\ Cardinality(Alive(e)) \in Nat
  <2>1. got[e] \in Nat /\ try[e] \in 0 .. Tries
    BY DEF OInv, HInv, DInv, Types
  <2>2. recorded[e] \in Nat
    BY DEF OInv, HInv, Heard
  <2> QED
    BY <2>1, <2>2, TriesNat, AliveFinite
<1>2. /\ place[e] = "nowhere" /\ place'[e] = "sent" /\ try'[e] = try[e] + 1
      /\ UNCHANGED <<got, recorded, relay>>
  BY DEF DeviceSends, history, OInv, HInv, DInv, Types
<1>3. try[e] + 1 \in 1 .. Tries
  <2>1. try[e] < Tries
    BY TriesNat DEF DeviceSends, OInv, HInv, DInv, Linked
  <2> QED
    BY <1>1, <2>1, TriesNat
<1>4. Alive(e)' = Alive(e)
  BY <1>2, SameAlive
<1>5. /\ CopiesDue(e) = 0 /\ CopiesDue(e)' = 2
      /\ RecordsDue(e) = 0 /\ RecordsDue(e)' = 1
  BY <1>2 DEF CopiesDue, RecordsDue
<1>6. /\ got'[e] + Cardinality(Alive(e))' + CopiesDue(e)' <= 2 * try'[e]
      /\ recorded'[e] + Cardinality(Alive(e))' + RecordsDue(e)' <= try'[e]
  BY <1>1, <1>2, <1>4, <1>5 DEF Counted
<1>7. \A t \in Alive(e) : t <= try[e] /\ t \in Nat
  BY DEF Counted, Alive
<1>8. relay'[<<e, try'[e]>>] = NoRelay'
  <2>1. ~(try[e] + 1 <= try[e])
    BY <1>1
  <2>2. try[e] + 1 \notin Alive(e)
    BY <1>7, <2>1
  <2>3. NoRelay' = NoRelay
    BY DEF NoRelay
  <2> QED
    BY <1>2, <1>3, <2>2, <2>3 DEF Alive
<1>9. \A t \in Alive(e)' : t <= try'[e]
  BY <1>1, <1>2, <1>4, <1>7
<1> QED
  BY <1>6, <1>8, <1>9 DEF Counted

LEMMA ArrivesCounted ==
    ASSUME OInv, NEW e \in Events, Counted(e), Arrives(e)
    PROVE  Counted(e)'
<1>1. /\ got[e] \in Nat /\ recorded[e] \in Nat /\ try[e] \in 1 .. Tries /\ try[e] \in Nat
      /\ place[e] = "sent" /\ relay[<<e, try[e]>>] = NoRelay
  BY DEF Arrives, OInv, HInv, Heard, DInv, Types, Linked, Counted
<1>2. /\ place'[e] = "integration" /\ UNCHANGED <<try, got, recorded>>
      /\ relay'[<<e, try[e]>>].stage # "none"
      /\ \A t \in 1 .. Tries : t # try[e] => relay'[<<e, t>>] = relay[<<e, t>>]
  <2>1. <<e, try[e]>> \in DOMAIN relay
    BY <1>1 DEF OInv, HInv, DInv, Types, Handlers
  <2> QED
    BY <1>1, <2>1 DEF Arrives, history, OInv, HInv, DInv, Types, Handlers
<1>3. Alive(e)' = Alive(e) \cup {try[e]} /\ try[e] \notin Alive(e)
  BY <1>1, <1>2 DEF Alive, NoRelay
<1>4. /\ Cardinality(Alive(e)) \in Nat
      /\ Cardinality(Alive(e))' = Cardinality(Alive(e)) + 1
  BY <1>3, AliveFinite, FS_AddElement
<1>5. /\ CopiesDue(e) = 2 /\ CopiesDue(e)' = 1
      /\ RecordsDue(e) = 1 /\ RecordsDue(e)' = 0
  BY <1>1, <1>2 DEF CopiesDue, RecordsDue
<1>6. /\ got'[e] + Cardinality(Alive(e))' + CopiesDue(e)' <= 2 * try'[e]
      /\ recorded'[e] + Cardinality(Alive(e))' + RecordsDue(e)' <= try'[e]
  BY <1>1, <1>2, <1>4, <1>5 DEF Counted
<1> QED
  BY <1>1, <1>2, <1>3, <1>6 DEF Counted

LEMMA OutsideCounted ==
    ASSUME OInv, OInv', NEW e \in Events, Counted(e),
           \/ DeviceGivesUp(e) \/ Refused(e)
           \/ VendorAnswersShim(e) \/ VendorFailsShim(e)
    PROVE  Counted(e)'
<1> USE DEF OInv, HInv, DInv, Types
<1>1. /\ UNCHANGED <<try, relay, recorded>>
      /\ recorded[e] \in Nat /\ got[e] \in Nat /\ got'[e] \in Nat
  BY DEF DeviceGivesUp, Refused, VendorAnswersShim, VendorFailsShim, Heard
<1>2. Alive(e)' = Alive(e)
  BY <1>1, SameAlive
<1>3. place'[e] # "sent"
  BY DEF DeviceGivesUp, Refused, VendorAnswersShim, VendorFailsShim,
         HomeAssistantFailed, TryFails, Acknowledged
<1>4. \/ got'[e] <= got[e] /\ CopiesDue(e)' <= CopiesDue(e)
      \/ got'[e] = got[e] + 1 /\ CopiesDue(e)' + 1 <= CopiesDue(e)
  BY <1>1 DEF DeviceGivesUp, Refused, VendorAnswersShim, VendorFailsShim,
         HomeAssistantFailed, TryFails, Acknowledged, CopiesDue
<1> QED
  BY <1>1, <1>2, <1>3, <1>4, FewerCounted

LEMMA RelayCounted ==
    ASSUME OInv, OInv', NEW e \in Events, NEW t \in 1 .. Tries, Counted(e),
           RelaySteps(e, t) \/ Crashes(e, t)
    PROVE  Counted(e)'
<1> USE DEF OInv, HInv, DInv, Types
<1>1. /\ try' = try /\ recorded[e] \in Nat /\ got[e] \in Nat /\ got'[e] \in Nat
      /\ \A u \in 1 .. Tries : u # t => relay'[<<e, u>>] = relay[<<e, u>>]
  BY RelayApart DEF Heard
<1>2. NoRelay' = NoRelay /\ NoRelay.stage = "none" /\ <<e, t>> \in Handlers
  BY DEF NoRelay, Handlers
<1>3. t \in Alive(e)
  BY <1>2 DEF Alive, RelaySteps, LookupAnswers, LookupFallsBack, LookupFails,
              VendorAnswers, VendorHangsUp, VendorFails, Crashes
<1>4. CASE LookupAnswers(e, t) \/ LookupFallsBack(e, t) \/ VendorHangsUp(e, t)
  <2>1. UNCHANGED <<fate, place, got, recorded>>
    BY <1>4 DEF LookupAnswers, LookupFallsBack, VendorHangsUp, device, history
  <2>2. Stage(e, t, "first") \/ Stage(e, t, "second")
    BY <1>4 DEF LookupAnswers, LookupFallsBack, VendorHangsUp
  <2>3. relay'[<<e, t>>] # NoRelay
    <3>1. \/ relay'[<<e, t>>] = [relay[<<e, t>>] EXCEPT !.stage = "first", !.spent = 0]
          \/ relay'[<<e, t>>] = [relay[<<e, t>>] EXCEPT !.stage = "second", !.spent = 0]
      BY <1>2, <2>2 DEF Stage
    <3>2. Timed(<<e, t>>)
      BY <1>2 DEF FInv, TInv
    <3>3. relay'[<<e, t>>].stage \in {"first", "second"}
      BY <3>1, <3>2 DEF Timed
    <3> QED
      BY <1>2, <3>3
  <2>4. Alive(e)' = Alive(e)
    BY <1>1, <1>3, <2>3, SameAlive DEF Alive
  <2>5. place[e] = "sent" => relay'[<<e, try[e]>>] = relay[<<e, try[e]>>]
    <3>1. SUFFICES ASSUME place[e] = "sent" PROVE try[e] \in 1 .. Tries /\ try[e] # t
      BY <1>1
    <3>2. try[e] \in 1 .. Tries
      BY <3>1 DEF Linked
    <3> QED
      BY <1>3, <3>1, <3>2 DEF Counted, Alive
  <2> QED
    BY <1>1, <2>1, <2>4, <2>5, SameCounted
<1>5. CASE LookupFails(e, t) \/ VendorAnswers(e, t) \/ VendorFails(e, t) \/ Crashes(e, t)
  <2>1. relay' = [relay EXCEPT ![<<e, t>>] = NoRelay]
    BY <1>5 DEF LookupFails, VendorAnswers, VendorFails, Crashes, Answers
  <2>2. Alive(e)' = Alive(e) \ {t}
    BY <1>1, <1>2, <2>1 DEF Alive
  <2>3. recorded'[e] <= recorded[e] + 1 /\ recorded'[e] \in Nat
    BY <1>1, <1>5 DEF LookupFails, VendorAnswers, VendorFails, Crashes, Answers
  <2>4. got'[e] <= got[e] + 1
    <3>1. got' = got \/ got' = [got EXCEPT ![e] = @ + 1]
      BY <1>5 DEF LookupFails, VendorAnswers, VendorFails, Crashes
    <3> QED
      BY <1>1, <3>1
  <2>5. place'[e] = place[e] \/ (place[e] = "integration" /\ place'[e] \in {"nowhere", "vendor"})
    BY <1>5 DEF LookupFails, VendorAnswers, VendorFails, Crashes, Answers,
                HomeAssistantFailed, TryFails, Acknowledged
  <2>6. CopiesDue(e)' <= CopiesDue(e)
    BY <2>5 DEF CopiesDue
  <2>7. CASE place[e] # "sent"
    <3>1. place'[e] # "sent"
      BY <2>5, <2>7
    <3> QED
      BY <1>1, <1>3, <2>2, <2>3, <2>4, <2>6, <3>1, FewerCounted
  <2>8. CASE place[e] = "sent"
    <3>1. try[e] # t /\ try[e] \in 1 .. Tries
      BY <1>3, <2>8 DEF Counted, Alive, Linked
    <3>2. relay'[<<e, try[e]>>] = NoRelay' /\ place'[e] = "sent"
      BY <1>1, <1>2, <2>5, <2>8, <3>1 DEF Counted
    <3>3. /\ Cardinality(Alive(e)) \in Nat
          /\ Cardinality(Alive(e))' = Cardinality(Alive(e)) - 1
      BY <1>3, <2>2, AliveFinite, FS_RemoveElement
    <3>4. CopiesDue(e) = 2 /\ CopiesDue(e)' = 2 /\ RecordsDue(e) = 1 /\ RecordsDue(e)' = 1
      BY <2>8, <3>2 DEF CopiesDue, RecordsDue
    <3>5. try[e] \in Nat
      BY <3>1
    <3>6. /\ got'[e] + Cardinality(Alive(e))' + CopiesDue(e)' <= 2 * try[e]
          /\ recorded'[e] + Cardinality(Alive(e))' + RecordsDue(e)' <= try[e]
      BY <1>1, <2>3, <2>4, <3>3, <3>4, <3>5 DEF Counted
    <3> QED
      BY <1>1, <2>2, <3>2, <3>6 DEF Counted
  <2> QED
    BY <2>7, <2>8
<1> QED
  BY <1>4, <1>5 DEF RelaySteps

(* The shim's servers and the device's wait.                               *)
Clocked(e) ==
    /\ waited[e] <= Patience
    /\ shimmed[e].server <= VendorServers
    /\ shimmed[e].spent <= Patience
    /\ place[e] = "vendor" => shimmed[e].spent <= waited[e]

LEMMA StepClocked ==
    ASSUME OInv, NEW e \in Events, Clocked(e),
           \/ DeviceSends(e) \/ DeviceGivesUp(e) \/ Refused(e) \/ Arrives(e)
           \/ VendorAnswersShim(e) \/ VendorFailsShim(e)
           \/ \E t \in 1 .. Tries : RelaySteps(e, t) \/ Crashes(e, t)
    PROVE  Clocked(e)'
<1> USE DEF OInv, FInv, HInv, DInv, Types, device, history
<1>1. /\ waited[e] \in Nat /\ shimmed[e] \in [server : Nat, spent : Nat]
      /\ Patience \in Nat /\ 0 <= Patience
      /\ VendorServers \in Nat /\ 1 <= VendorServers
  BY BudgetAssumption
<1>2. ASSUME shimmed' = [shimmed EXCEPT ![e] = NoRequest], place'[e] # "vendor",
             waited' = waited
      PROVE  Clocked(e)'
  BY <1>1, <1>2 DEF Clocked, NoRequest
<1>3. ASSUME UNCHANGED <<waited, shimmed>>, place'[e] = place[e] \/ place'[e] # "vendor"
      PROVE  Clocked(e)'
  BY <1>3 DEF Clocked
<1>4. ASSUME NEW why, HomeAssistantFailed(e, why), waited' = waited PROVE Clocked(e)'
  <2>1. CASE Replays(e, why)
    <3>1. shimmed'[e] = [server |-> 1, spent |-> 0] /\ place'[e] = "vendor"
      BY <1>4, <2>1 DEF HomeAssistantFailed
    <3> QED
      BY <1>1, <1>4, <3>1 DEF Clocked
  <2>2. CASE ~Replays(e, why)
    <3>1. shimmed' = shimmed /\ place'[e] = "nowhere"
      BY <1>4, <2>2 DEF HomeAssistantFailed, TryFails
    <3> QED
      BY <1>3, <1>4, <3>1
  <2> QED
    BY <2>1, <2>2
<1>5. CASE DeviceSends(e)
  <2>1. waited'[e] = 0 /\ place'[e] = "sent" /\ shimmed' = shimmed
    BY <1>5 DEF DeviceSends
  <2> QED
    BY <1>1, <2>1 DEF Clocked
<1>6. CASE DeviceGivesUp(e)
  BY <1>2, <1>6 DEF DeviceGivesUp, TryFails
<1>7. CASE Refused(e)
  BY <1>4, <1>7 DEF Refused
<1>8. CASE Arrives(e)
  BY <1>3, <1>8 DEF Arrives
<1>9. CASE VendorAnswersShim(e)
  BY <1>2, <1>9 DEF VendorAnswersShim, Acknowledged
<1>10. CASE VendorFailsShim(e)
  <2>1. CASE /\ shimmed[e].server < VendorServers
             /\ shimmed' = [shimmed EXCEPT ![e] = [server |-> @.server + 1, spent |-> 0]]
             /\ UNCHANGED place
    <3>1. /\ shimmed'[e] = [server |-> shimmed[e].server + 1, spent |-> 0]
          /\ waited' = waited /\ place' = place
      BY <1>10, <2>1 DEF VendorFailsShim
    <3> QED
      BY <1>1, <2>1, <3>1 DEF Clocked
  <2>2. CASE TryFails(e) /\ shimmed' = [shimmed EXCEPT ![e] = NoRequest]
    BY <1>2, <1>10, <2>2 DEF VendorFailsShim, TryFails
  <2> QED
    BY <1>10, <2>1, <2>2 DEF VendorFailsShim
<1>11. ASSUME NEW t \in 1 .. Tries, RelaySteps(e, t) \/ Crashes(e, t) PROVE Clocked(e)'
  <2>1. waited' = waited
    BY <1>11, RelayApart
  <2>2. CASE LookupAnswers(e, t) \/ LookupFallsBack(e, t) \/ VendorHangsUp(e, t)
    BY <1>3, <2>2 DEF LookupAnswers, LookupFallsBack, VendorHangsUp
  <2>3. CASE LookupFails(e, t) \/ VendorAnswers(e, t) \/ VendorFails(e, t)
    <3>1. \E status : Answers(e, t, status)
      BY <2>3 DEF LookupFails, VendorAnswers, VendorFails
    <3>2. \/ UNCHANGED <<place, shimmed>>
          \/ Acknowledged(e) /\ UNCHANGED shimmed
          \/ \E why : HomeAssistantFailed(e, why)
      BY <3>1 DEF Answers
    <3> QED
      BY <1>3, <1>4, <2>1, <3>2 DEF Acknowledged
  <2>4. CASE Crashes(e, t)
    BY <1>3, <1>4, <2>1, <2>4 DEF Crashes
  <2> QED
    BY <1>11, <2>2, <2>3, <2>4 DEF RelaySteps
<1> QED
  BY <1>5, <1>6, <1>7, <1>8, <1>9, <1>10, <1>11

LEMMA TickClocked ==
    ASSUME OInv, Tick, NEW e \in Events, Clocked(e)
    PROVE  Clocked(e)'
<1>1. /\ waited[e] \in Nat /\ shimmed[e] \in [server : Nat, spent : Nat]
      /\ Patience \in Nat
  BY TimesNat DEF OInv, FInv
<1>2. /\ place' = place
      /\ place[e] # "nowhere" => waited[e] < Patience
      /\ waited'[e] = IF place[e] = "nowhere" THEN waited[e] ELSE waited[e] + 1
      /\ shimmed'[e] = IF place[e] = "vendor" THEN [shimmed[e] EXCEPT !.spent = @ + 1]
                                              ELSE shimmed[e]
  BY DEF Tick
<1>3. shimmed'[e].server = shimmed[e].server
  BY <1>1, <1>2
<1>4. shimmed'[e].spent = IF place[e] = "vendor" THEN shimmed[e].spent + 1
                                                 ELSE shimmed[e].spent
  BY <1>1, <1>2
<1> QED
  BY <1>1, <1>2, <1>3, <1>4 DEF Clocked

(* The rest of the variables.                                              *)
Noted ==
    /\ shim \in BOOLEAN
    /\ address \in {"none", "known", "fresh"}
    /\ ha \in {"up", "down"}
    /\ faults \subseteq Events \X (1 .. Tries) \X {"dropped", "failed"}
    /\ outages \subseteq Events \X (1 .. Tries)
    /\ stops \in 0 .. MaxStops

LEMMA StepNoted ==
    ASSUME DInv, Noted, [Next]_vars
    PROVE  Noted'
<1> USE DEF device, history
<1>1. \A e \in Events : place[e] # "nowhere" => try[e] \in 1 .. Tries
  BY DEF DInv, Linked
<1>2. ASSUME NEW e \in Events, NEW t \in 1 .. Tries, RelaySteps(e, t) \/ Crashes(e, t)
      PROVE  Noted'
  <2>1. \/ faults' = faults
        \/ faults' = faults \cup {<<e, t, "dropped">>}
        \/ faults' = faults \cup {<<e, t, "failed">>}
    BY <1>2 DEF RelaySteps, LookupAnswers, LookupFallsBack, LookupFails, VendorAnswers,
                VendorHangsUp, VendorFails, Crashes
  <2>2. UNCHANGED <<shim, ha, outages, stops>> /\ address' \in {address, "fresh"}
    BY <1>2 DEF RelaySteps, LookupAnswers, LookupFallsBack, LookupFails, VendorAnswers,
                VendorHangsUp, VendorFails, Crashes
  <2> QED
    BY <2>1, <2>2 DEF Noted
<1>3. ASSUME NEW e \in Events,
             \/ DeviceSends(e) \/ DeviceGivesUp(e) \/ Refused(e) \/ Arrives(e)
             \/ VendorAnswersShim(e) \/ VendorFailsShim(e)
      PROVE  Noted'
  <2>1. UNCHANGED <<shim, address, ha, stops>>
    BY <1>3 DEF DeviceSends, DeviceGivesUp, Refused, Arrives, VendorAnswersShim,
                VendorFailsShim
  <2>2. \/ faults' = faults
        \/ place[e] # "nowhere" /\ faults' = faults \cup {<<e, try[e], "failed">>}
    BY <1>3 DEF DeviceSends, DeviceGivesUp, Refused, Arrives, VendorAnswersShim,
                VendorFailsShim
  <2>3. \/ outages' = outages
        \/ place[e] # "nowhere" /\ outages' = outages \cup {<<e, try[e]>>}
    BY <1>3 DEF DeviceSends, DeviceGivesUp, Refused, Arrives, VendorAnswersShim,
                VendorFailsShim
  <2> QED
    BY <1>1, <2>1, <2>2, <2>3 DEF Noted
<1>4. CASE Tick
  <2> DEFINE Late == {r \in DOMAIN relay : /\ relay[r].stage \in {"first", "second"}
                                           /\ relay[r].spent >= AnswerTime}
             Slow == {e \in Events : place[e] = "vendor" /\ shimmed[e].spent >= AnswerTime}
  <2>1. /\ faults' = faults \cup {<<r[1], r[2], "failed">> : r \in Late}
                            \cup {<<e, try[e], "failed">> : e \in Slow}
        /\ UNCHANGED <<shim, address, ha, outages, stops>>
    BY <1>4 DEF Tick
  <2>2. Late \subseteq Events \X (1 .. Tries)
    BY DEF DInv, Types, Handlers
  <2>3. \A e \in Slow : e \in Events /\ try[e] \in 1 .. Tries
    BY <1>1
  <2> HIDE DEF Late, Slow
  <2>4. {<<r[1], r[2], "failed">> : r \in Late} \subseteq Events \X (1 .. Tries) \X {"dropped", "failed"}
    BY <2>2
  <2>5. {<<e, try[e], "failed">> : e \in Slow} \subseteq Events \X (1 .. Tries) \X {"dropped", "failed"}
    BY <2>3
  <2> QED
    BY <2>1, <2>4, <2>5 DEF Noted
<1>5. CASE Stops
  <2>1. /\ outages' = outages \cup {<<e, try[e]>> : e \in {e \in Events : place[e] # "nowhere"}}
        /\ stops' = stops + 1 /\ stops < MaxStops /\ ha' = "down"
        /\ UNCHANGED <<shim, address, faults>>
    BY <1>5 DEF Stops
  <2>2. outages' \subseteq Events \X (1 .. Tries)
    BY <1>1, <2>1 DEF Noted
  <2>3. stops' \in 0 .. MaxStops
    BY <2>1, BudgetAssumption DEF Noted
  <2> QED
    BY <2>1, <2>2, <2>3 DEF Noted
<1>6. CASE AddressExpires \/ Starts \/ UNCHANGED vars
  BY <1>6 DEF AddressExpires, Starts, vars, Noted
<1> QED
  BY <1>2, <1>3, <1>4, <1>5, <1>6 DEF Next

KInv ==
    /\ OInv /\ Noted
    /\ recorded \in [Events -> Nat]
    /\ \A e \in Events : Counted(e) /\ Clocked(e)

LEMMA OthersCounted ==
    ASSUME KInv, NEW e \in Events, Outcome(e) \/ DeviceSends(e), Apart(e),
           recorded' = recorded \/ recorded' = [recorded EXCEPT ![e] = @ + 1]
    PROVE  \A f \in Events \ {e} : Counted(f)' /\ Clocked(f)'
<1> TAKE f \in Events \ {e}
<1>1. fate'[f] = fate[f] /\ place'[f] = place[f] /\ try'[f] = try[f] /\ got'[f] = got[f]
  BY DEF Outcome, DeviceSends, TryFails, Acknowledged, history, KInv, OInv, HInv, DInv, Types
<1>2. recorded'[f] = recorded[f]
  BY DEF KInv, OInv, HInv
<1>3. Alive(f)' = Alive(f)
  BY SameAlive DEF Apart
<1>4. place[f] = "sent" => relay'[<<f, try[f]>>] = relay[<<f, try[f]>>]
  BY DEF Apart, KInv, OInv, HInv, DInv, Linked
<1>5. Counted(f)'
  BY <1>1, <1>2, <1>3, <1>4, SameCounted DEF KInv
<1> QED
  BY <1>1, <1>5 DEF Apart, KInv, Clocked

LEMMA StepKInv == KInv /\ [Next]_vars => KInv'
<1> SUFFICES ASSUME KInv, [Next]_vars PROVE KInv'
  OBVIOUS
<1>1. OInv' /\ Noted'
  BY StepOInv, StepNoted DEF KInv, OInv, HInv
<1>2. ASSUME NEW e \in Events,
             \/ DeviceSends(e) \/ DeviceGivesUp(e) \/ Refused(e) \/ Arrives(e)
             \/ VendorAnswersShim(e) \/ VendorFailsShim(e)
             \/ \E t \in 1 .. Tries : RelaySteps(e, t) \/ Crashes(e, t)
      PROVE  KInv'
  <2>1. Counted(e)'
    BY <1>1, <1>2, SendsCounted, ArrivesCounted, OutsideCounted, RelayCounted DEF KInv
  <2>2. Clocked(e)'
    BY <1>2, StepClocked DEF KInv
  <2>3. Apart(e)
    BY <1>2, SendsWaits, OutsideWaits, ArrivesWaits, RelayWaits DEF KInv, OInv
  <2>4. Outcome(e) \/ DeviceSends(e)
    BY <1>2, StepOutcome DEF KInv, OInv, HInv
  <2>5. recorded' = recorded \/ recorded' = [recorded EXCEPT ![e] = @ + 1]
    BY <1>2, StepHeard DEF KInv, OInv, DeviceSends, history
  <2>6. \A f \in Events \ {e} : Counted(f)' /\ Clocked(f)'
    BY <2>3, <2>4, <2>5, OthersCounted
  <2>7. recorded' \in [Events -> Nat]
    <3>1. recorded[e] + 1 \in Nat
      BY DEF KInv
    <3> QED
      BY <2>5, <3>1 DEF KInv
  <2> QED
    BY <1>1, <2>1, <2>2, <2>6, <2>7 DEF KInv
<1>3. CASE AddressExpires \/ Stops \/ Starts \/ Tick \/ UNCHANGED vars
  <2>1. UNCHANGED <<try, place, got, recorded>>
    BY <1>3 DEF AddressExpires, Stops, Starts, Tick, vars, device, history
  <2>2. \A r \in Handlers : relay'[r] # NoRelay <=> relay[r] # NoRelay
    <3>1. CASE relay' = relay
      BY <3>1
    <3>2. CASE Tick
      <4> TAKE r \in Handlers
      <4>1. Timed(r)
        BY DEF KInv, OInv, FInv, TInv
      <4>2. relay'[r] = IF relay[r] = NoRelay THEN NoRelay
                        ELSE [relay[r] EXCEPT !.spent = @ + 1, !.age = @ + 1]
        BY <3>2 DEF Tick, KInv, OInv, HInv, DInv, Types
      <4>3. relay[r] # NoRelay => relay'[r].stage # "none"
        BY <4>1, <4>2 DEF Timed
      <4>4. NoRelay.stage = "none"
        BY DEF NoRelay
      <4> QED
        BY <4>2, <4>3, <4>4
    <3> QED
      BY <1>3, <3>1, <3>2 DEF AddressExpires, Stops, Starts, vars
  <2>3. Tick => \A e \in Events : place[e] # "sent"
    BY DEF Tick
  <2>4. ~Tick => UNCHANGED <<waited, shimmed, relay>>
    BY <1>3 DEF AddressExpires, Stops, Starts, vars, device
  <2>5. ASSUME NEW e \in Events PROVE Counted(e)' /\ Clocked(e)'
    <3>1. Alive(e)' = Alive(e)
      BY <2>2, SameAlive DEF Handlers
    <3>2. Counted(e)'
      BY <2>1, <2>3, <2>4, <3>1, SameCounted DEF KInv
    <3>3. Clocked(e)'
      <4>1. CASE Tick
        BY <4>1, TickClocked DEF KInv
      <4>2. CASE ~Tick
        BY <2>1, <2>4, <4>2 DEF KInv, Clocked
      <4> QED
        BY <4>1, <4>2
    <3> QED
      BY <3>2, <3>3
  <2> QED
    BY <1>1, <2>1, <2>5 DEF KInv
<1> QED
  BY <1>2, <1>3 DEF Next

LEMMA InitKInv == Init => KInv
<1> SUFFICES ASSUME Init PROVE KInv
  OBVIOUS
<1>1. OInv
  BY InitOInv
<1>2. Noted
  <2>1. 0 \in 0 .. MaxStops
    BY BudgetAssumption
  <2> QED
    BY <2>1 DEF Init, Noted
<1>3. ASSUME NEW e \in Events PROVE Counted(e) /\ Clocked(e)
  <2>1. /\ got[e] = 0 /\ recorded[e] = 0 /\ try[e] = 0 /\ place[e] = "nowhere"
        /\ waited[e] = 0 /\ shimmed[e] = [server |-> 0, spent |-> 0]
    BY DEF Init, NoRequest
  <2>2. Alive(e) = {}
    BY DEF Init, Alive
  <2>3. Cardinality(Alive(e)) = 0
    BY <2>2, FS_EmptySet
  <2>4. 0 <= Patience /\ 0 <= VendorServers
    BY BudgetAssumption
  <2>5. Counted(e)
    BY <2>1, <2>2, <2>3 DEF Counted, CopiesDue, RecordsDue
  <2> QED
    BY <2>1, <2>4, <2>5 DEF Clocked
<1>4. recorded \in [Events -> Nat]
  BY DEF Init
<1> QED
  BY <1>1, <1>2, <1>3, <1>4 DEF KInv

(* Every variable has its type, in which a try reaches the vendor at most  *)
(* twice (the relay's copy and the shim's) and is recorded at most once,   *)
(* and no wait exceeds its timeout.                                        *)
THEOREM TypeCorrect == Spec => []TypeOK
<1>1. KInv => TypeOK
  <2> SUFFICES ASSUME KInv PROVE TypeOK
    OBVIOUS
  <2>1. /\ FInv /\ TInv /\ DInv /\ Types /\ Noted
        /\ \A r \in Handlers : Timed(r)
    BY DEF KInv, OInv, FInv, TInv, DInv, HInv
  <2>2. ASSUME NEW e \in Events
        PROVE  /\ waited[e] \in 0 .. Patience
               /\ shimmed[e] \in [server : 0 .. VendorServers, spent : 0 .. Patience]
               /\ got[e] \in Copies /\ recorded[e] \in 0 .. Tries
    <3>1. Clocked(e) /\ Counted(e)
      BY DEF KInv
    <3>2. waited[e] \in Nat /\ shimmed[e] \in [server : Nat, spent : Nat]
      BY <2>1 DEF FInv
    <3>3. /\ waited[e] \in 0 .. Patience
          /\ shimmed[e].server \in 0 .. VendorServers
          /\ shimmed[e].spent \in 0 .. Patience
      BY <3>1, <3>2, BudgetAssumption DEF Clocked
    <3>4. shimmed[e] \in [server : 0 .. VendorServers, spent : 0 .. Patience]
      BY <3>2, <3>3
    <3>5. /\ got[e] \in Nat /\ recorded[e] \in Nat /\ try[e] \in 0 .. Tries
          /\ Cardinality(Alive(e)) \in Nat
          /\ CopiesDue(e) \in Nat /\ RecordsDue(e) \in Nat
      <4>1. got[e] \in Nat /\ try[e] \in 0 .. Tries
        BY <2>1 DEF Types
      <4>2. recorded[e] \in Nat
        BY DEF KInv, OInv, HInv, Heard
      <4> QED
        BY <4>1, <4>2, AliveFinite DEF CopiesDue, RecordsDue
    <3>6. got[e] <= 2 * try[e] /\ recorded[e] <= try[e] /\ try[e] \in Nat /\ try[e] <= Tries
      BY <3>1, <3>5, TriesNat DEF Counted
    <3>7. got[e] <= 2 * Tries /\ recorded[e] <= Tries
      BY <3>5, <3>6, TriesNat
    <3> QED
      BY <3>3, <3>4, <3>5, <3>7, TriesNat DEF Copies
  <2>3. ASSUME NEW r \in Handlers
        PROVE  relay[r] \in [stage  : {"none", "lookup", "first", "second"},
                             spent  : 0 .. Limit(relay[r].stage),
                             age    : 0 .. LookupTimeout + 2 * VendorTimeout,
                             looked : BOOLEAN]
    <3>1. Timed(r) /\ relay[r].spent \in Nat /\ relay[r].age \in Nat
          /\ relay[r].stage \in {"none", "lookup", "first", "second"}
          /\ relay[r].looked \in BOOLEAN
      BY <2>1 DEF Timed
    <3>2. Before(r) \in Nat /\ Before(r) <= LookupTimeout
      BY <3>1, TimesNat DEF Before
    <3>3. NoRelay.spent = 0 /\ NoRelay.age = 0
      BY DEF NoRelay
    <3>4. relay[r].spent <= Limit(relay[r].stage) /\ Limit(relay[r].stage) \in Nat
      BY <3>1, <3>3, TimesNat DEF Timed, Limit
    <3>5. relay[r].age <= LookupTimeout + 2 * VendorTimeout
      BY <3>1, <3>2, <3>3, TimesNat DEF Timed
    <3>6. /\ relay[r].spent \in 0 .. Limit(relay[r].stage)
          /\ relay[r].age \in 0 .. LookupTimeout + 2 * VendorTimeout
      BY <3>1, <3>4, <3>5, TimesNat
    <3> QED
      BY <3>1, <3>6 DEF Timed
  <2>4. recorded \in [Events -> 0 .. Tries]
    BY <2>2 DEF KInv
  <2>5. /\ waited \in [Events -> 0 .. Patience]
        /\ shimmed \in [Events -> [server : 0 .. VendorServers, spent : 0 .. Patience]]
        /\ got \in [Events -> Copies]
    BY <2>1, <2>2 DEF FInv, Types
  <2> QED
    BY <2>1, <2>3, <2>4, <2>5 DEF TypeOK, Types, Noted, Handlers
<1> QED
  BY <1>1, InitKInv, StepKInv, PTL DEF Spec
=============================================================================
