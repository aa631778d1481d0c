------------------------------ MODULE TokenAuth ------------------------------
(***************************************************************************)
(* _handle_auth() in __init__.py with core/auth.py: the device's token     *)
(* request is relayed first, and answered here only when the vendor is     *)
(* judged unreachable.  The device (external) has one token request        *)
(* outstanding at a time; it stops listening after about ten seconds, but  *)
(* the handler it walked away from runs on to the end.  All other traffic  *)
(* (telemetry, firmware polls) matters here through the verdict it feeds.  *)
(***************************************************************************)
EXTENDS Relay

CONSTANTS
    Nobody,         \* model value: the device waits for no handler
    MaxAbandons     \* bound: requests the device walks away from

ASSUME AbandonAssumption == Nobody \notin Handlers /\ MaxAbandons \in Nat

VARIABLES
    serving,    \* serving[h]: what handler h was called for
    issued,     \* local_auth.issued
    shown,      \* what the two service entities last wrote to Home Assistant
    reply,      \* the last answer a token request got
    token,      \* external: who issued the token the device carries
    waiting,    \* external: the handler whose answer the device waits for
    abandons,   \* external: requests walked away from so far
    service,    \* external: how the vendor's API is doing
    unheard,    \* history: the last answer with a token in it reached nobody
    overruled   \* history: rejections answered with a token of our own since
                \* a relay last failed

tokenVars == <<issued, reply, token, unheard, overruled>>
vars == <<was, vendor, said, overtaken, serving, issued, shown, reply, token,
          waiting, abandons, service, unheard, overruled>>

Service == {"up", "errors", "down"}
Answer  == {"vendor token", "local token", "rejection", "bad gateway"}

TypeOK ==
    /\ RelayTypeOK
    /\ serving \in [Handlers -> {"idle", "auth", "other"}]
    /\ \A h \in Handlers : serving[h] = "idle" <=> was[h] = "idle"
    /\ issued \in BOOLEAN
    /\ shown \in [reachable : {"none", "up", "down"}, issued : BOOLEAN]
    /\ reply \in Answer \cup {"none"}
    /\ token \in {"vendor", "local"}
    /\ waiting \in Handlers \cup {Nobody}
    /\ abandons \in 0..MaxAbandons
    /\ service \in Service
    /\ unheard \in BOOLEAN
    /\ overruled \in Nat

(* What VendorReachable and LocallyIssuedToken write when SIGNAL_VENDOR is *)
(* dispatched with the runtime in this state.                              *)
Display(v, i) == [reachable |-> v.reachable, issued |-> i]

Init ==
    /\ RelayInit
    /\ serving = [h \in Handlers |-> "idle"]
    /\ issued = FALSE
    /\ shown = Display(vendor, issued)
    /\ reply = "none"
    /\ token = "vendor"
    /\ waiting = Nobody
    /\ abandons = 0
    /\ service = "up"
    /\ unheard = FALSE
    /\ overruled = 0

-----------------------------------------------------------------------------
\* Mutant of ShouldMint: a request that got no answer is not minted for.
MintOnlyForAnswers(reachable, status) ==
    reachable = "down" /\ status = "rejected"

(* "granted" is status 200, "rejected" any other, "none" not delivered.    *)
ShouldMint(reachable, status) == reachable = "down" /\ status # "granted"

(* LocalAuth: of the record only whether it has a timestamp matters here.  *)
mint  == issued' = TRUE
clear == issued' = FALSE

(* What a token request can come back with; even a healthy vendor hangs up *)
(* on some requests.                                                       *)
Statuses == CASE service = "up"     -> {"granted", "none"}
              [] service = "errors" -> {"rejected", "none"}
              [] service = "down"   -> {"none"}

RequestArrives(h, kind) ==
    /\ RelayBegins(h)
    /\ serving' = [serving EXCEPT ![h] = kind]
    /\ UNCHANGED <<shown, tokenVars, abandons, service>>

TokenRequest(h) ==
    /\ waiting = Nobody
    /\ RequestArrives(h, "auth")
    /\ waiting' = h

OtherRequest(h) ==
    /\ RequestArrives(h, "other")
    /\ UNCHANGED waiting

Relayed(h, kind, outcome) ==
    /\ serving[h] = kind
    /\ RelayEnds(h, outcome)
    /\ serving' = [serving EXCEPT ![h] = "idle"]
    /\ UNCHANGED <<abandons, service>>

(* History: a failed relay begins the count again.                         *)
Overruled(outcome, minted) ==
    overruled' = IF outcome = "failed" THEN 0
                 ELSE IF minted THEN overruled + 1 ELSE overruled

OtherRelayed(h) ==
    /\ \E outcome \in {"answered", "failed"} :
         /\ outcome = "answered" => service # "down"
         /\ Relayed(h, "other", outcome)
         /\ Overruled(outcome, FALSE)
    /\ shown' = Display(vendor', issued)
    /\ UNCHANGED <<issued, reply, token, waiting, unheard>>

(* The answer reaches the device only if it is still waiting for it; then  *)
(* the token in it replaces the one the device carried.                    *)
Respond(h, answer) ==
    /\ reply' = answer
    /\ waiting' = IF waiting = h THEN Nobody ELSE waiting
    /\ token' = CASE waiting = h /\ answer = "vendor token" -> "vendor"
                  [] waiting = h /\ answer = "local token"  -> "local"
                  [] OTHER                                  -> token
    /\ unheard' = IF answer \in {"vendor token", "local token"}
                  THEN waiting # h ELSE unheard

\* Mutant of TokenGranted: no second SIGNAL_VENDOR after clear().
TokenGrantedOneDispatch(h) ==
    /\ "granted" \in Statuses
    /\ Relayed(h, "auth", "answered")
    /\ clear
    /\ shown' = Display(vendor', issued)
    /\ Overruled("answered", FALSE)
    /\ Respond(h, "vendor token")

\* Mutant of TokenGranted: clear() is forgotten.
TokenGrantedNoClear(h) ==
    /\ "granted" \in Statuses
    /\ Relayed(h, "auth", "answered")
    /\ UNCHANGED issued
    /\ shown' = Display(vendor', issued')
    /\ Overruled("answered", FALSE)
    /\ Respond(h, "vendor token")

(* The vendor issued a token: _relay dispatched once with the old `issued',*)
(* the handler clears it and dispatches again.                             *)
TokenGranted(h) ==
    /\ "granted" \in Statuses
    /\ Relayed(h, "auth", "answered")
    /\ clear
    /\ shown' = Display(vendor', issued')
    /\ Overruled("answered", FALSE)
    /\ Respond(h, "vendor token")

NotGranted(h, status, minted) ==
    LET outcome == IF status = "none" THEN "failed" ELSE "answered" IN
    /\ status \in Statuses \ {"granted"}
    /\ Relayed(h, "auth", outcome)
    /\ Overruled(outcome, minted)
    /\ IF minted
       THEN mint /\ Respond(h, "local token")
       ELSE /\ UNCHANGED issued
            /\ Respond(h, IF status = "none" THEN "bad gateway" ELSE "rejection")
    /\ shown' = Display(vendor', issued')

\* Mutant of NoToken: the verdict is read before the relay, as _relay reads it.
NoTokenByOldVerdict(h, status) ==
    NotGranted(h, status, ShouldMint(vendor.reachable, status))

(* No token came back.  should_mint is asked with the verdict as this very *)
(* outcome left it.                                                        *)
NoToken(h, status) ==
    NotGranted(h, status, ShouldMint(vendor'.reachable, status))

-----------------------------------------------------------------------------
(* External: the device stops listening (its ten seconds, or its Wi-Fi).   *)
Abandon ==
    /\ waiting # Nobody
    /\ abandons < MaxAbandons
    /\ waiting' = Nobody
    /\ abandons' = abandons + 1
    /\ UNCHANGED <<relayVars, serving, shown, tokenVars, service>>

(* External: the vendor's day turns.                                       *)
ServiceChanges ==
    /\ service' \in Service \ {service}
    /\ UNCHANGED <<relayVars, serving, shown, tokenVars, waiting, abandons>>

Next ==
    \/ \E h \in Handlers :
         \/ TokenRequest(h)
         \/ OtherRequest(h)
         \/ OtherRelayed(h)
         \/ TokenGranted(h)
         \/ \E status \in {"rejected", "none"} : NoToken(h, status)
    \/ Abandon
    \/ ServiceChanges

(* Every relay ends: forward() and the lookup are both under a timeout.    *)
(* The device keeps asking for tokens (every 4 h, every 11 s without one); *)
(* strong fairness because other traffic may hold the bounded handlers.    *)
(* A healthy vendor does not hang up on every token request for ever.      *)
Fairness ==
    /\ \A h \in Handlers :
         /\ WF_vars(OtherRelayed(h))
         /\ WF_vars(TokenGranted(h) \/ \E s \in {"rejected", "none"} : NoToken(h, s))
    /\ SF_vars(\E h \in Handlers : TokenRequest(h))
    /\ SF_vars(\E h \in Handlers : TokenGranted(h))

Spec == Init /\ [][Next]_vars

FairSpec == Spec /\ Fairness

-----------------------------------------------------------------------------
(* LocalAuth.issued says whether the device carries a token the vendor     *)
(* never issued (core/auth.py:86-89), through any overlap of outages,      *)
(* recoveries and other traffic.  It is wrong only after a late mint() or  *)
(* clear(), of a handler that the device had walked away from: until the   *)
(* device next hears a token, and never if it walks away from none.        *)
IssuedTellsTheTruth ==
    /\ ~unheard => (issued <=> token = "local")
    /\ unheard => abandons > 0

(* "Which keeps an outage apart from an account the vendor is deliberately *)
(* rejecting" (__init__.py:377): while relays reach the vendor its         *)
(* rejections get through to the device.  The verdict lags behind a        *)
(* recovery by the answers it takes (core/auth.py:73), and only so many    *)
(* rejections less one are replaced by a token of our own -- under any     *)
(* interleaving with other traffic, and judged by the verdict after the    *)
(* very relay that brought the rejection.                                  *)
RejectionsGetThrough == overruled < SuccessesToReachable

(* Whatever the order of clear(), mint() and the dispatches around them,   *)
(* the two service entities show the runtime as it is: the comment at      *)
(* __init__.py:373-378 describes the stale display this rules out.         *)
EntitiesCurrent == shown = Display(vendor, issued)

(* "Say so once when the verdict on the vendor flips, not per request"     *)
(* (__init__.py:308): the last line about the vendor gives the verdict,    *)
(* through outages, recoveries and the first verdict of all.  But a relay  *)
(* compares what it read before its await with what it finds after         *)
(* (__init__.py:271), so this holds only until a verdict moves under one.  *)
LogFollowsVerdict ==
    ~overtaken => (said = "unreachable" <=> vendor.reachable = "down")

(* In an outage that lasts, the device ends up with a token and keeps it:  *)
(* it goes on reporting (README.md:28).                                    *)
KeepsReportingInOutage == <>[](service = "down") => <>[](token = "local")

(* Recovery needs no mechanism: once the vendor is back for good the       *)
(* device is, again and again, on the vendor's own token, and the runtime  *)
(* knows it.                                                               *)
RecoversByItself ==
    <>[](service = "up") => []<>(token = "vendor" /\ ~issued)
=============================================================================
