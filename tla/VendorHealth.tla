---------------------------- MODULE VendorHealth ----------------------------
(***************************************************************************)
(* core/vendor.py: the running verdict on the vendor, as a record that     *)
(* every relay outcome is folded into.                                     *)
(*                                                                         *)
(* `reachable' is the code's bool | None: a set-membership test on "none", *)
(* "up", "down" is easier to read than three kinds of truth.  last_delivery*)
(* and last_error are display data no decision reads and are left out.     *)
(***************************************************************************)
EXTENDS Naturals

CONSTANTS
    FailuresToUnreachable,  \* failures in a row before "down"; 4 in the code
    SuccessesToReachable,   \* answers in a row before "up" again; 2
    StreakCap               \* bound: where a streak counter stops counting.
                            \* The code's counters are unbounded, but are
                            \* only ever compared with the two thresholds.

ASSUME ThresholdAssumption ==
    /\ FailuresToUnreachable \in Nat \ {0}
    /\ SuccessesToReachable \in Nat \ {0}
    /\ StreakCap \in Nat
    /\ StreakCap >= FailuresToUnreachable
    /\ StreakCap >= SuccessesToReachable

Health == [reachable : {"none", "up", "down"},
           failures  : 0..StreakCap,
           successes : 0..StreakCap]

NeverAsked == [reachable |-> "none", failures |-> 0, successes |-> 0]

Longer(streak) == IF streak < StreakCap THEN streak + 1 ELSE StreakCap

\* Mutant of RecordSuccess: the failure streak survives an answer.
SuccessKeepsFailures(v) ==
    LET streak == Longer(v.successes) IN
    [reachable |-> IF streak >= SuccessesToReachable \/ v.reachable = "none"
                   THEN "up" ELSE v.reachable,
     failures  |-> v.failures,
     successes |-> streak]

(* A request reached the vendor and was answered, whatever the status.     *)
RecordSuccess(v) ==
    LET streak == Longer(v.successes) IN
    [reachable |-> IF streak >= SuccessesToReachable \/ v.reachable = "none"
                   THEN "up" ELSE v.reachable,
     failures  |-> 0,
     successes |-> streak]

\* Mutant of RecordFailure: the success streak survives a failure.
FailureKeepsSuccesses(v) ==
    LET streak == Longer(v.failures) IN
    [reachable |-> IF streak >= FailuresToUnreachable
                   THEN "down" ELSE v.reachable,
     failures  |-> streak,
     successes |-> v.successes]

(* A request could not be delivered.                                       *)
RecordFailure(v) ==
    LET streak == Longer(v.failures) IN
    [reachable |-> IF streak >= FailuresToUnreachable
                   THEN "down" ELSE v.reachable,
     failures  |-> streak,
     successes |-> 0]

Fold(v, outcome) ==
    IF outcome = "answered" THEN RecordSuccess(v) ELSE RecordFailure(v)
=============================================================================
