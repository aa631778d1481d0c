----------------------------- MODULE AtLeastOnce -----------------------------
(***************************************************************************)
(* What interception owes the vendor's alerting, stated without shim,      *)
(* integration or time: an event the device was told is delivered has      *)
(* reached the vendor, an event is only lost after the device's last try,  *)
(* and every event comes to one or the other.                              *)
(***************************************************************************)
EXTENDS Naturals

CONSTANTS Events, Tries

VARIABLES
    fate,       \* fate[e]: what the device thinks became of e
    failures,   \* failures[e]: tries that failed
    has         \* the events that have reached the vendor

vars == <<fate, failures, has>>

Init ==
    /\ fate = [e \in Events |-> "unmade"]
    /\ failures = [e \in Events |-> 0]
    /\ has = {}

Make(e) ==
    /\ fate[e] = "unmade"
    /\ fate' = [fate EXCEPT ![e] = "pending"]
    /\ UNCHANGED <<failures, has>>

(* Also after the event was given up, or given to the vendor before.       *)
ReachVendor(e) ==
    /\ fate[e] # "unmade"
    /\ has' = has \cup {e}

(* The answer may come in the step in which the vendor gets the event.     *)
Acknowledge(e) ==
    /\ fate[e] = "pending"
    /\ fate' = [fate EXCEPT ![e] = "acknowledged"]
    /\ e \in has'
    /\ has' \in {has, has \cup {e}}
    /\ UNCHANGED failures

FailTry(e) ==
    /\ fate[e] = "pending"
    /\ failures' = [failures EXCEPT ![e] = @ + 1]
    /\ fate' = [fate EXCEPT ![e] = IF failures[e] + 1 = Tries
                                   THEN "lost" ELSE "pending"]
    /\ has' \in {has, has \cup {e}}

Next ==
    \E e \in Events :
      \/ Make(e)
      \/ ReachVendor(e) /\ UNCHANGED <<fate, failures>>
      \/ Acknowledge(e)
      \/ FailTry(e)

Spec ==
    /\ Init
    /\ [][Next]_vars
    /\ \A e \in Events :
         fate[e] = "pending" ~> fate[e] \in {"acknowledged", "lost"}
=============================================================================
