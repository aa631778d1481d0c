-------------------------------- MODULE Relay --------------------------------
(***************************************************************************)
(* _relay() in __init__.py: one attempt to deliver a device request to the *)
(* vendor.  It suspends between its first line, which reads the verdict,   *)
(* and the fold of its outcome, so several may be in progress at once and  *)
(* they finish in any order.                                               *)
(*                                                                         *)
(* This module is a component: a listener module EXTENDS it and uses       *)
(* RelayBegins and RelayEnds as the two halves of each of its handlers.    *)
(***************************************************************************)
EXTENDS VendorHealth

CONSTANT Handlers       \* handler tasks of the listener: the bound on how
                        \* many requests are in progress at once

VARIABLES
    was,        \* was[h]: the verdict handler h read before it suspended,
                \* "idle" when h is not relaying
    vendor,     \* runtime.vendor
    said,       \* the last line _log_vendor_change wrote
    overtaken   \* history: the verdict has moved while a relay was in progress

relayVars == <<was, vendor, said, overtaken>>

Line == {"silent", "unreachable", "reachable again"}

RelayTypeOK ==
    /\ was \in [Handlers -> {"idle", "none", "up", "down"}]
    /\ vendor \in Health
    /\ said \in Line
    /\ overtaken \in BOOLEAN

RelayInit ==
    /\ was = [h \in Handlers |-> "idle"]
    /\ vendor = NeverAsked
    /\ said = "silent"
    /\ overtaken = FALSE

\* Mutant of LogVendorChange: only a vendor that has answered can be lost.
LogVendorChangeIfLost(wasReachable, nowReachable) ==
    CASE nowReachable = "down" /\ wasReachable = "up" -> "unreachable"
      [] nowReachable = "up" /\ wasReachable = "down" -> "reachable again"
      [] OTHER                                        -> "silent"

(* What _log_vendor_change(was_reachable) writes, given the verdict now.   *)
LogVendorChange(wasReachable, nowReachable) ==
    CASE nowReachable = "down" /\ wasReachable # "down" -> "unreachable"
      [] nowReachable = "up" /\ wasReachable = "down"   -> "reachable again"
      [] OTHER                                          -> "silent"

RelayBegins(h) ==
    /\ was[h] = "idle"
    /\ was' = [was EXCEPT ![h] = vendor.reachable]
    /\ UNCHANGED <<vendor, said, overtaken>>

(* The outcome is "answered" (any HTTP status) or "failed"                 *)
(* (UpstreamUnavailable, ClientError and TimeoutError alike).              *)
RelayEnds(h, outcome) ==
    /\ was[h] # "idle"
    /\ vendor' = Fold(vendor, outcome)
    /\ LET line == LogVendorChange(was[h], vendor'.reachable) IN
         said' = IF line = "silent" THEN said ELSE line
    /\ overtaken' = (overtaken \/ was[h] # vendor.reachable)
    /\ was' = [was EXCEPT ![h] = "idle"]
=============================================================================
