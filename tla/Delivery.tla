------------------------------ MODULE Delivery ------------------------------
(***************************************************************************)
(* The way of a telemetry event to the vendor: the device and its three    *)
(* tries, the fail-open shim (shim/pumpspy-shim.conf) if there is one, the *)
(* integration's relay (_relay in __init__.py, forward() in                *)
(* core/forward.py, with the lookup before it), and the vendor.            *)
(*                                                                         *)
(* Time runs in seconds.  What matters is which timeout comes first: the   *)
(* lookup's and the vendor's are set against the device's patience.  A     *)
(* handler whose device gave up runs on, beside the one of the next try.   *)
(***************************************************************************)
EXTENDS Naturals

CONSTANTS
    Events,         \* bound: telemetry events the device makes
    Tries,          \* external: how often the device sends one; 3
    Patience,       \* external: how long it waits for an answer; 10
    AnswerTime,     \* external: the longest a healthy vendor takes; 1.3, so 2
    LookupTimeout,  \* UpstreamAddress.lookup_timeout; 3
    VendorTimeout,  \* VENDOR_TIMEOUT_SECONDS; 4
    VendorServers,  \* vendor's servers the shim tries for one request; 2, as
                    \* proxy_next_upstream_tries counts Home Assistant too
    MaxStops        \* bound: stops of Home Assistant

ASSUME BudgetAssumption ==
    /\ {Tries, AnswerTime, LookupTimeout, VendorTimeout, VendorServers, Patience,
        MaxStops} \subseteq Nat
    /\ Tries > 0
    /\ VendorServers > 0
    /\ LookupTimeout + 2 * AnswerTime < Patience
    /\ 2 * VendorTimeout < Patience
    /\ LookupTimeout + VendorTimeout < Patience

VARIABLES
    shim,       \* whether the redirect points at the shim
    fate,       \* device: fate[e]
    try,        \* device: try[e], the try in progress or the last one
    place,      \* place[e]: who has the request of that try
    waited,     \* waited[e]: how long the device has waited for its answer
    shimmed,    \* shimmed[e]: the shim's request to the vendor: which of its
                \* servers has it, and for how long
    relay,      \* relay[<<e, t>>]: the integration's handler of try t
    address,    \* UpstreamAddress: nothing cached, an old answer, a fresh one
    ha,         \* whether Home Assistant's listener is there
    got,        \* history: got[e]: copies of e the vendor has processed
    recorded,   \* history: recorded[e]: times _record was given e
    faults,     \* history: <<e, t, kind>>: the vendor failed try t: it hung up
                \* on the relay, or was late, away or answered with an error
    outages,    \* history: <<e, t>>: Home Assistant was away during try t
    stops

device  == <<fate, try, place, waited>>
history == <<got, recorded, faults, outages>>
vars == <<shim, fate, try, place, waited, shimmed, relay, address, ha, got,
          recorded, faults, outages, stops>>

(* Of each try, one from the relay and one from the shim.                  *)
Copies == 0 .. 2 * Tries

NoRelay == [stage |-> "none", spent |-> 0, age |-> 0, looked |-> FALSE]
NoRequest == [server |-> 0, spent |-> 0]

Init ==
    /\ shim \in BOOLEAN
    /\ fate = [e \in Events |-> "unmade"]
    /\ try = [e \in Events |-> 0]
    /\ place = [e \in Events |-> "nowhere"]
    /\ waited = [e \in Events |-> 0]
    /\ shimmed = [e \in Events |-> NoRequest]
    /\ relay = [r \in Events \X (1 .. Tries) |-> NoRelay]
    /\ address = "none"
    /\ ha = "up"
    /\ got = [e \in Events |-> 0]
    /\ recorded = [e \in Events |-> 0]
    /\ faults = {}
    /\ outages = {}
    /\ stops = 0

-----------------------------------------------------------------------------
(* The device.                                                             *)

(* External: it makes an event, or tries again after a try that failed.    *)
DeviceSends(e) ==
    /\ fate[e] \in {"unmade", "pending"}
    /\ place[e] = "nowhere"
    /\ fate' = [fate EXCEPT ![e] = "pending"]
    /\ try' = [try EXCEPT ![e] = @ + 1]
    /\ place' = [place EXCEPT ![e] = "sent"]
    /\ waited' = [waited EXCEPT ![e] = 0]
    /\ UNCHANGED <<shim, shimmed, relay, address, ha, history, stops>>

(* It is answered: with success or, after which it tries again, with an    *)
(* error.                                                                  *)
Acknowledged(e) ==
    /\ fate' = [fate EXCEPT ![e] = "acknowledged"]
    /\ place' = [place EXCEPT ![e] = "nowhere"]

TryFails(e) ==
    /\ fate' = [fate EXCEPT ![e] = IF try[e] = Tries THEN "lost" ELSE @]
    /\ place' = [place EXCEPT ![e] = "nowhere"]

(* External: it hangs up.  The shim then drops its request to the vendor,  *)
(* who may have processed it; the integration's handler runs on.           *)
DeviceGivesUp(e) ==
    /\ place[e] \in {"integration", "vendor"}
    /\ waited[e] = Patience
    /\ TryFails(e)
    /\ shimmed' = [shimmed EXCEPT ![e] = NoRequest]
    /\ \/ UNCHANGED got
       \/ place[e] = "vendor" /\ got' = [got EXCEPT ![e] = @ + 1]
    /\ UNCHANGED <<shim, try, waited, relay, address, ha, recorded, faults,
                   outages, stops>>

-----------------------------------------------------------------------------
(* The shim.                                                               *)

\* Mutant of Replays: 502 is not in proxy_next_upstream.
ReplaysErrorsOnly(e, why) == shim /\ why = "error"

(* Whether a request that Home Assistant failed goes on to the vendor: on  *)
(* an error or a timeout, and for the telemetry paths also on a 502 or 504,*)
(* whosever it is.                                                         *)
Replays(e, why) == shim /\ why \in {"error", "502"}

(* Home Assistant is done with the request, and not with success: the shim *)
(* takes it to the vendor, or the device gets the news.                    *)
HomeAssistantFailed(e, why) ==
    IF Replays(e, why)
    THEN /\ place' = [place EXCEPT ![e] = "vendor"]
         /\ shimmed' = [shimmed EXCEPT ![e] = [server |-> 1, spent |-> 0]]
         /\ UNCHANGED fate
    ELSE TryFails(e) /\ UNCHANGED shimmed

Refused(e) ==
    /\ place[e] = "sent"
    /\ ha = "down"
    /\ HomeAssistantFailed(e, "error")
    /\ outages' = outages \cup {<<e, try[e]>>}
    /\ UNCHANGED <<shim, try, waited, relay, address, ha, got, recorded, faults,
                   stops>>

(* The vendor answers the shim.                                            *)
VendorAnswersShim(e) ==
    /\ place[e] = "vendor"
    /\ Acknowledged(e)
    /\ got' = [got EXCEPT ![e] = @ + 1]
    /\ shimmed' = [shimmed EXCEPT ![e] = NoRequest]
    /\ UNCHANGED <<shim, try, waited, relay, address, ha, recorded, faults,
                   outages, stops>>

(* It does not, or not with success: on a broken connection or a 502, which*)
(* leave the request unprocessed, the shim asks the vendor's next server;  *)
(* its last word, or any other error, goes to the device, and the vendor   *)
(* may have processed the request.                                         *)
VendorFailsShim(e) ==
    /\ place[e] = "vendor"
    /\ faults' = faults \cup {<<e, try[e], "failed">>}
    /\ \/ /\ shimmed[e].server < VendorServers
          /\ shimmed' = [shimmed EXCEPT ![e] = [server |-> @.server + 1, spent |-> 0]]
          /\ UNCHANGED <<fate, place, got>>
       \/ /\ TryFails(e)
          /\ shimmed' = [shimmed EXCEPT ![e] = NoRequest]
          /\ got' \in {got, [got EXCEPT ![e] = @ + 1]}
    /\ UNCHANGED <<shim, try, waited, relay, address, ha, recorded, outages, stops>>

-----------------------------------------------------------------------------
(* The integration.                                                        *)

\* Mutant of Arrives: after a try that failed the integration is bypassed.
ArrivesFirstOnly(e) ==
    /\ place[e] = "sent"
    /\ ha = "up"
    /\ IF shim /\ try[e] > 1
       THEN /\ HomeAssistantFailed(e, "error")
            /\ UNCHANGED relay
       ELSE /\ relay' = [relay EXCEPT ![<<e, try[e]>>] =
                  [stage |-> IF address = "fresh" THEN "first" ELSE "lookup",
                   spent |-> 0, age |-> 0, looked |-> address # "fresh"]]
            /\ place' = [place EXCEPT ![e] = "integration"]
            /\ UNCHANGED <<fate, shimmed>>
    /\ UNCHANGED <<shim, try, waited, address, ha, history, stops>>

Arrives(e) ==
    /\ place[e] = "sent"
    /\ ha = "up"
    /\ relay' = [relay EXCEPT ![<<e, try[e]>>] =
          [stage |-> IF address = "fresh" THEN "first" ELSE "lookup",
           spent |-> 0, age |-> 0, looked |-> address # "fresh"]]
    /\ place' = [place EXCEPT ![e] = "integration"]
    /\ UNCHANGED <<shim, fate, try, waited, shimmed, address, ha, history, stops>>

Stage(e, t, stage) ==
    relay' = [relay EXCEPT ![<<e, t>>].stage = stage, ![<<e, t>>].spent = 0]

\* Mutant of Answers: the device is told 200 whatever became of the relay.
AnswersOK(e, t, status) ==
    /\ relay' = [relay EXCEPT ![<<e, t>>] = NoRelay]
    /\ recorded' = [recorded EXCEPT ![e] = @ + 1]
    /\ IF place[e] # "integration" \/ try[e] # t
       THEN UNCHANGED <<fate, place, shimmed>>
       ELSE Acknowledged(e) /\ UNCHANGED shimmed

(* The rest of handle(): the message is recorded and then answered, with   *)
(* what the vendor answered or with 502; nobody may be listening.  "502"   *)
(* stands for 504 too, "500" for all other errors.                         *)
Answers(e, t, status) ==
    /\ relay' = [relay EXCEPT ![<<e, t>>] = NoRelay]
    /\ recorded' = [recorded EXCEPT ![e] = @ + 1]
    /\ IF place[e] # "integration" \/ try[e] # t
       THEN UNCHANGED <<fate, place, shimmed>>
       ELSE IF status = "200"
            THEN Acknowledged(e) /\ UNCHANGED shimmed
            ELSE HomeAssistantFailed(e, status)

LookupAnswers(e, t) ==
    /\ relay[<<e, t>>].stage = "lookup"
    /\ address' = "fresh"
    /\ Stage(e, t, "first")
    /\ UNCHANGED <<shim, device, shimmed, ha, history, stops>>

(* It fails or times out and there is an old answer to fall back on ...    *)
LookupFallsBack(e, t) ==
    /\ relay[<<e, t>>].stage = "lookup"
    /\ address # "none"
    /\ Stage(e, t, "first")
    /\ UNCHANGED <<shim, device, shimmed, address, ha, history, stops>>

(* ... or there is not, or the answer was the redirect's: not delivered.   *)
LookupFails(e, t) ==
    /\ relay[<<e, t>>].stage = "lookup"
    /\ Answers(e, t, "502")
    /\ UNCHANGED <<shim, try, waited, address, ha, got, faults, outages, stops>>

VendorAnswers(e, t) ==
    /\ relay[<<e, t>>].stage \in {"first", "second"}
    /\ got' = [got EXCEPT ![e] = @ + 1]
    /\ Answers(e, t, "200")
    /\ UNCHANGED <<shim, try, waited, address, ha, faults, outages, stops>>

\* Mutant of VendorHangsUp: it is sent again for as long as that happens.
VendorHangsUpForever(e, t) ==
    /\ relay[<<e, t>>].stage \in {"first", "second"}
    /\ faults' = faults \cup {<<e, t, "dropped">>}
    /\ Stage(e, t, "second")
    /\ UNCHANGED <<shim, device, shimmed, address, ha, got, recorded, outages,
                   stops>>

(* ServerDisconnectedError: the request was not processed; sent once more. *)
VendorHangsUp(e, t) ==
    /\ relay[<<e, t>>].stage = "first"
    /\ faults' = faults \cup {<<e, t, "dropped">>}
    /\ Stage(e, t, "second")
    /\ UNCHANGED <<shim, device, shimmed, address, ha, got, recorded, outages,
                   stops>>

\* Mutant of VendorFails: a timeout is retried too.
VendorFailsRetried(e, t) ==
    /\ relay[<<e, t>>].stage \in {"first", "second"}
    /\ IF relay[<<e, t>>].stage = "first"
       THEN /\ Stage(e, t, "second")
            /\ UNCHANGED <<fate, place, shimmed, recorded>>
       ELSE Answers(e, t, "502")
    /\ faults' = faults \cup {<<e, t, "failed">>}
    /\ UNCHANGED <<shim, try, waited, address, ha, got, outages, stops>>

(* It hangs up a second time, cannot be reached or times out, or answers   *)
(* with an error, which is passed on; in time or not, it may have processed*)
(* the request.                                                            *)
VendorFails(e, t) ==
    /\ relay[<<e, t>>].stage \in {"first", "second"}
    /\ \E status \in {"502", "500"} : Answers(e, t, status)
    /\ got' \in {got, [got EXCEPT ![e] = @ + 1]}
    /\ faults' = faults \cup {<<e, t, "failed">>}
    /\ UNCHANGED <<shim, try, waited, address, ha, outages, stops>>

(* The answer of the lookup is an hour old.                                *)
AddressExpires ==
    /\ address = "fresh"
    /\ address' = "known"
    /\ UNCHANGED <<shim, device, shimmed, relay, ha, history, stops>>

-----------------------------------------------------------------------------
(* Home Assistant stops listening; a crash takes its handlers with it, in  *)
(* the middle of a request that the vendor may have processed.             *)
Stops ==
    /\ ha = "up"
    /\ stops < MaxStops
    /\ stops' = stops + 1
    /\ ha' = "down"
    /\ outages' = outages \cup {<<e, try[e]>> : e \in {e \in Events : place[e] # "nowhere"}}
    /\ UNCHANGED <<shim, device, shimmed, relay, address, got, recorded, faults>>

Crashes(e, t) ==
    /\ ha = "down"
    /\ relay[<<e, t>>] # NoRelay
    /\ relay' = [relay EXCEPT ![<<e, t>>] = NoRelay]
    /\ IF place[e] = "integration" /\ try[e] = t
       THEN HomeAssistantFailed(e, "error")
       ELSE UNCHANGED <<fate, place, shimmed>>
    /\ \/ UNCHANGED got
       \/ /\ relay[<<e, t>>].stage \in {"first", "second"}
          /\ got' = [got EXCEPT ![e] = @ + 1]
    /\ UNCHANGED <<shim, try, waited, address, ha, recorded, faults, outages,
                   stops>>

(* A setup makes a new UpstreamAddress.                                    *)
Starts ==
    /\ ha = "down"
    /\ \A r \in DOMAIN relay : relay[r] = NoRelay
    /\ ha' = "up"
    /\ address' = "none"
    /\ UNCHANGED <<shim, device, shimmed, relay, history, stops>>

Limit(stage) == CASE stage = "none"   -> 0
                  [] stage = "lookup" -> LookupTimeout
                  [] OTHER            -> VendorTimeout

(* A second passes, unless something is due; a vendor that takes longer    *)
(* than a healthy one ever does has failed the try.                        *)
Tick ==
    /\ \E e \in Events : place[e] # "nowhere" \/ \E t \in 1 .. Tries : relay[<<e, t>>] # NoRelay
    /\ \A e \in Events :
         /\ place[e] # "sent"
         /\ place[e] # "nowhere" => waited[e] < Patience
    /\ \A r \in DOMAIN relay :
         relay[r].stage # "none" => relay[r].spent < Limit(relay[r].stage)
    /\ waited' = [e \in Events |-> IF place[e] = "nowhere" THEN waited[e]
                                                           ELSE waited[e] + 1]
    /\ shimmed' = [e \in Events |-> IF place[e] = "vendor"
                                    THEN [shimmed[e] EXCEPT !.spent = @ + 1]
                                    ELSE shimmed[e]]
    /\ relay' = [r \in DOMAIN relay |->
                   IF relay[r] = NoRelay THEN NoRelay
                   ELSE [relay[r] EXCEPT !.spent = @ + 1, !.age = @ + 1]]
    /\ faults' = faults
         \cup {<<r[1], r[2], "failed">> : r \in
                 {r \in DOMAIN relay : /\ relay[r].stage \in {"first", "second"}
                                       /\ relay[r].spent >= AnswerTime}}
         \cup {<<e, try[e], "failed">> : e \in
                 {e \in Events : place[e] = "vendor" /\ shimmed[e].spent >= AnswerTime}}
    /\ UNCHANGED <<shim, fate, try, place, address, ha, got, recorded, outages,
                   stops>>

RelaySteps(e, t) ==
    \/ LookupAnswers(e, t)
    \/ LookupFallsBack(e, t)
    \/ LookupFails(e, t)
    \/ VendorAnswers(e, t)
    \/ VendorHangsUp(e, t)
    \/ VendorFails(e, t)

Next ==
    \/ \E e \in Events :
         \/ DeviceSends(e)
         \/ DeviceGivesUp(e)
         \/ Refused(e)
         \/ Arrives(e)
         \/ VendorAnswersShim(e)
         \/ VendorFailsShim(e)
         \/ \E t \in 1 .. Tries : RelaySteps(e, t) \/ Crashes(e, t)
    \/ AddressExpires
    \/ Stops
    \/ Starts
    \/ Tick

(* Time passes, what is due happens, and the device tries again.           *)
Fairness ==
    /\ WF_vars(Tick)
    /\ \A e \in Events :
         /\ WF_vars(fate[e] = "pending" /\ DeviceSends(e))
         /\ WF_vars(DeviceGivesUp(e))
         /\ WF_vars(Refused(e) \/ Arrives(e))
         /\ \A t \in 1 .. Tries :
              WF_vars(relay[<<e, t>>].spent = Limit(relay[<<e, t>>].stage) /\ RelaySteps(e, t))

Spec == Init /\ [][Next]_vars

FairSpec == Spec /\ Fairness

-----------------------------------------------------------------------------
(* Correctness.                                                            *)

(* Every variable has its type; the counts of copies stay bounded.         *)
TypeOK ==
    /\ shim \in BOOLEAN
    /\ fate \in [Events -> {"unmade", "pending", "acknowledged", "lost"}]
    /\ try \in [Events -> 0 .. Tries]
    /\ place \in [Events -> {"nowhere", "sent", "integration", "vendor"}]
    /\ waited \in [Events -> 0 .. Patience]
    /\ shimmed \in [Events -> [server : 0 .. VendorServers, spent : 0 .. Patience]]
    /\ DOMAIN relay = Events \X (1 .. Tries)
    /\ \A r \in DOMAIN relay :
         relay[r] \in [stage  : {"none", "lookup", "first", "second"},
                      spent  : 0 .. Limit(relay[r].stage),
                      age    : 0 .. LookupTimeout + 2 * VendorTimeout,
                      looked : BOOLEAN]
    /\ address \in {"none", "known", "fresh"}
    /\ ha \in {"up", "down"}
    /\ got \in [Events -> Copies]
    /\ recorded \in [Events -> 0 .. Tries]
    /\ faults \subseteq Events \X (1 .. Tries) \X {"dropped", "failed"}
    /\ outages \subseteq Events \X (1 .. Tries)
    /\ stops \in 0 .. MaxStops

(* Interception keeps the vendor's alerting whole: with the shim, whatever *)
(* becomes of Home Assistant, of the lookup and of the relay's own         *)
(* timeouts, the device only loses an event that the vendor failed on      *)
(* every try.                                                              *)
FailOpen ==
    \A e \in Events : shim /\ fate[e] = "lost" =>
        \A t \in 1 .. Tries : \E kind \in {"dropped", "failed"} : <<e, t, kind>> \in faults

(* The retries the layers stack up (forward()'s, the shim's, the device's) *)
(* duplicate nothing by themselves: while the vendor answers in time and   *)
(* Home Assistant stays up, an event that got through did so exactly once  *)
(* at the vendor, whatever the lookups do behind the shim.                 *)
ExactlyOnceInHealth ==
    \A e \in Events :
        /\ shim
        /\ ~ \E t \in 1 .. Tries : \/ <<e, t>> \in outages
                                  \/ <<e, t, "dropped">> \in faults
                                  \/ <<e, t, "failed">> \in faults
        => /\ got[e] <= 1
           /\ recorded[e] <= 1
           /\ fate[e] = "acknowledged" => got[e] = 1 /\ recorded[e] = 1

(* Failing open does not blind local monitoring (max_fails=0 in the shim): *)
(* an event the device stops sending was recorded here too, unless Home    *)
(* Assistant was away during the very try that got it through.             *)
HeardAtHome ==
    \A e \in Events :
        fate[e] = "acknowledged" /\ <<e, try[e]>> \notin outages => recorded[e] >= 1

(* The budget VENDOR_TIMEOUT_SECONDS argues for: a relay is over before    *)
(* the device stops listening, unless it had to look the vendor up and the *)
(* vendor hung up on it too.                                               *)
BudgetHolds ==
    \A e \in Events, t \in 1 .. Tries :
        relay[<<e, t>>].age >= Patience =>
            relay[<<e, t>>].looked /\ <<e, t, "dropped">> \in faults

-----------------------------------------------------------------------------
(* Delivery implements what AtLeastOnce promises.                          *)

FailedTries(e) ==
    IF fate[e] = "unmade" THEN 0
    ELSE IF place[e] = "nowhere" /\ fate[e] \in {"pending", "lost"}
    THEN try[e]
    ELSE try[e] - 1

Promise == INSTANCE AtLeastOnce
    WITH failures <- [e \in Events |-> FailedTries(e)],
         has <- {e \in Events : got[e] > 0}

(* Through every layer of retries, an event the device is told is          *)
(* delivered has reached the vendor, one is given up only after the last   *)
(* try, and each comes to one or the other.                                *)
ImplementsAtLeastOnce == Promise!Spec
=============================================================================
