---------------------------- MODULE VendorVerdict ----------------------------
(***************************************************************************)
(* The verdict of core/vendor.py driven by any sequence of relay outcomes, *)
(* beside the whole history of those outcomes.  The code keeps two         *)
(* counters; the verdict it owes its readers is a statement about the      *)
(* history, and the invariant below relates the two.                       *)
(***************************************************************************)
EXTENDS VendorHealth, Sequences

CONSTANT MaxOutcomes    \* bound: outcomes recorded in one behaviour

ASSUME MaxOutcomesAssumption == MaxOutcomes \in Nat

VARIABLES
    vendor,     \* the VendorHealth instance of the runtime
    outcomes    \* history: every outcome recorded, oldest first

vars == <<vendor, outcomes>>

Outcome == {"answered", "failed"}

Init ==
    /\ vendor = NeverAsked
    /\ outcomes = << >>

Answered ==
    /\ Len(outcomes) < MaxOutcomes
    /\ vendor' = RecordSuccess(vendor)
    /\ outcomes' = Append(outcomes, "answered")

Failed ==
    /\ Len(outcomes) < MaxOutcomes
    /\ vendor' = RecordFailure(vendor)
    /\ outcomes' = Append(outcomes, "failed")

Next == Answered \/ Failed

Spec == Init /\ [][Next]_vars

-----------------------------------------------------------------------------
(* What the proof of the verdict rests on; it says nothing by itself.      *)
TypeOK ==
    /\ vendor \in Health
    /\ outcomes \in Seq(Outcome)

(* The k outcomes of h that end at position i are all o.                   *)
RunEndsAt(h, i, k, o) ==
    /\ k <= i
    /\ \A j \in (i - k + 1)..i : h[j] = o

(* Position i of the history is evidence the vendor is gone: the last of   *)
(* FailuresToUnreachable failures in a row.                                *)
DownAt(h, i) == RunEndsAt(h, i, FailuresToUnreachable, "failed")

(* Position i is evidence the vendor is there: the last of                 *)
(* SuccessesToReachable answers in a row, or the first answer ever, with   *)
(* no outage declared before it to flap against.                           *)
UpAt(h, i) ==
    \/ RunEndsAt(h, i, SuccessesToReachable, "answered")
    \/ /\ h[i] = "answered"
       /\ \A j \in 1..(i - 1) : h[j] # "answered" /\ ~DownAt(h, j)

(* The vendor is called down exactly when the latest evidence in the whole *)
(* history is an outage: four failures in a row that two answers in a row  *)
(* have not followed since.  Neither a single flap nor any interleaving of *)
(* short streaks may leave the two counters of core/vendor.py:49-67        *)
(* disagreeing with that.                                                  *)
DownMeansOutage ==
    vendor.reachable = "down" <=>
        \E i \in 1..Len(outcomes) :
            /\ DownAt(outcomes, i)
            /\ \A j \in (i + 1)..Len(outcomes) : ~UpAt(outcomes, j)

(* "up" is likewise the latest evidence, so "none" is left to a history    *)
(* with no evidence at all: never asked is neither verdict.                *)
UpMeansAnswering ==
    vendor.reachable = "up" <=>
        \E i \in 1..Len(outcomes) :
            /\ UpAt(outcomes, i)
            /\ \A j \in (i + 1)..Len(outcomes) : ~DownAt(outcomes, j)

(* The two counters give exactly the verdict the whole history calls for.  *)
VerdictFollowsHistory == DownMeansOutage /\ UpMeansAnswering
=============================================================================
