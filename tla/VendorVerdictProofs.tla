------------------------- MODULE VendorVerdictProofs -------------------------
(***************************************************************************)
(* Proofs about core/vendor.py: for every pair of thresholds and every     *)
(* history of outcomes, the two counters keep the verdict equal to what    *)
(* the history says it should be.                                          *)
(***************************************************************************)
EXTENDS VendorVerdict, TLAPS

-----------------------------------------------------------------------------
(* What the code does not write down: a streak counter is the length of    *)
(* the longest run of its outcome at the end of the history, up to the cap.*)
CountsTail(h, streak, o) ==
    /\ RunEndsAt(h, Len(h), streak, o)
    /\ streak < StreakCap => streak = Len(h) \/ h[Len(h) - streak] # o

(* "none" is a history with no answer and no outage.                       *)
NoneMeansNoEvidence ==
    vendor.reachable = "none" <=>
        \A i \in 1..Len(outcomes) :
            outcomes[i] # "answered" /\ ~DownAt(outcomes, i)

(* The inductive invariant.                                                *)
IInv ==
    /\ TypeOK
    /\ CountsTail(outcomes, vendor.failures, "failed")
    /\ CountsTail(outcomes, vendor.successes, "answered")
    /\ NoneMeansNoEvidence
    /\ DownMeansOutage
    /\ UpMeansAnswering

-----------------------------------------------------------------------------
LEMMA TypeCorrectStep == TypeOK /\ [Next]_vars => TypeOK'
<1> SUFFICES ASSUME TypeOK, [Next]_vars PROVE TypeOK'
  OBVIOUS
<1>1. CASE Answered
  BY <1>1, ThresholdAssumption
     DEF Answered, TypeOK, RecordSuccess, Longer, Health, Outcome
<1>2. CASE Failed
  BY <1>2, ThresholdAssumption
     DEF Failed, TypeOK, RecordFailure, Longer, Health, Outcome
<1>3. CASE UNCHANGED vars
  BY <1>3 DEF vars, TypeOK
<1> QED
  BY <1>1, <1>2, <1>3 DEF Next

-----------------------------------------------------------------------------
(* Appending an outcome changes nothing about earlier positions.           *)
LEMMA AppendKeepsRuns ==
    ASSUME NEW h \in Seq(Outcome), NEW o \in Outcome, NEW p \in Outcome,
           NEW i \in 1..Len(h), NEW k \in Nat
    PROVE  RunEndsAt(Append(h, o), i, k, p) <=> RunEndsAt(h, i, k, p)
<1>1. \A j \in 1..Len(h) : Append(h, o)[j] = h[j]
  OBVIOUS
<1>2. ASSUME k <= i PROVE (i - k + 1)..i \subseteq 1..Len(h)
  BY <1>2
<1> QED
  BY <1>1, <1>2 DEF RunEndsAt

LEMMA AppendKeepsEvidence ==
    ASSUME NEW h \in Seq(Outcome), NEW o \in Outcome, NEW i \in 1..Len(h)
    PROVE  /\ DownAt(Append(h, o), i) <=> DownAt(h, i)
           /\ UpAt(Append(h, o), i) <=> UpAt(h, i)
<1>1. \A j \in 1..Len(h) :
        /\ Append(h, o)[j] = h[j]
        /\ DownAt(Append(h, o), j) <=> DownAt(h, j)
        /\ RunEndsAt(Append(h, o), j, SuccessesToReachable, "answered")
             <=> RunEndsAt(h, j, SuccessesToReachable, "answered")
  BY AppendKeepsRuns, ThresholdAssumption DEF DownAt, Outcome
<1> QED
  BY <1>1 DEF UpAt

(* A counter that counts the tail reaches a threshold exactly when the new *)
(* history ends in a run that long.                                        *)
LEMMA StreakReachesThreshold ==
    ASSUME NEW h \in Seq(Outcome), NEW o \in Outcome,
           NEW streak \in 0..StreakCap, CountsTail(h, streak, o),
           NEW T \in Nat \ {0}, T <= StreakCap
    PROVE  /\ CountsTail(Append(h, o), Longer(streak), o)
           /\ Longer(streak) >= T
                <=> RunEndsAt(Append(h, o), Len(h) + 1, T, o)
<1> DEFINE g == Append(h, o)
           n == Len(h)
<1>1. /\ n \in Nat
      /\ Len(g) = n + 1
      /\ g[n + 1] = o
      /\ \A j \in 1..n : g[j] = h[j]
  OBVIOUS
<1>2. streak <= n /\ \A j \in (n - streak + 1)..n : h[j] = o
  BY DEF CountsTail, RunEndsAt
<1>3. \A j \in (n - streak + 1)..(n + 1) : g[j] = o
  BY <1>1, <1>2
<1>4. RunEndsAt(g, n + 1, Longer(streak), o)
  BY <1>1, <1>2, <1>3, ThresholdAssumption DEF RunEndsAt, Longer
<1>5. ASSUME Longer(streak) < StreakCap
      PROVE  /\ Longer(streak) = streak + 1
             /\ streak = n \/ (n - streak \in 1..n /\ g[n - streak] # o)
  BY <1>1, <1>2, <1>5, ThresholdAssumption DEF Longer, CountsTail
<1>6. CountsTail(g, Longer(streak), o)
  BY <1>1, <1>2, <1>4, <1>5, ThresholdAssumption DEF CountsTail
<1>7. ASSUME Longer(streak) >= T PROVE RunEndsAt(g, n + 1, T, o)
  BY <1>1, <1>4, <1>7, ThresholdAssumption DEF RunEndsAt, Longer
<1>8. ASSUME RunEndsAt(g, n + 1, T, o), Longer(streak) < T PROVE FALSE
  <2>1. Longer(streak) = streak + 1
    BY <1>5, <1>8, ThresholdAssumption DEF Longer
  <2>2. T <= n + 1 /\ streak + 1 < T
    BY <1>8, <2>1 DEF RunEndsAt
  <2>3. n - streak \in (n + 1 - T + 1)..(n + 1) /\ n - streak \in 1..n
    BY <1>1, <1>2, <2>2
  <2>4. Longer(streak) < StreakCap
    BY <1>8, <2>1, ThresholdAssumption
  <2>5. streak # n
    BY <1>1, <2>3
  <2>6. g[n - streak] # o
    BY <1>5, <2>4, <2>5
  <2> QED
    BY <1>8, <2>3, <2>6 DEF RunEndsAt
<1> QED
  BY <1>6, <1>7, <1>8, ThresholdAssumption DEF Longer

(* The other counter is reset, which is right: its run has just ended.     *)
LEMMA OtherStreakResets ==
    ASSUME NEW h \in Seq(Outcome), NEW o \in Outcome, NEW p \in Outcome, p # o
    PROVE  /\ CountsTail(Append(h, o), 0, p)
           /\ \A T \in Nat \ {0} : ~RunEndsAt(Append(h, o), Len(h) + 1, T, p)
<1>1. Len(Append(h, o)) = Len(h) + 1 /\ Append(h, o)[Len(h) + 1] = o /\ Len(h) \in Nat
  OBVIOUS
<1>2. CountsTail(Append(h, o), 0, p)
  BY <1>1 DEF CountsTail, RunEndsAt
<1>3. ASSUME NEW T \in Nat \ {0} PROVE ~RunEndsAt(Append(h, o), Len(h) + 1, T, p)
  <2>1. Len(h) + 1 \in (Len(h) + 1 - T + 1)..(Len(h) + 1)
    BY <1>1
  <2> QED
    BY <1>1, <2>1 DEF RunEndsAt
<1> QED
  BY <1>2, <1>3

-----------------------------------------------------------------------------
(* The two counters after a step, and what they say of the new position.   *)
LEMMA AnsweredEvidence ==
    ASSUME IInv, Answered
    PROVE  LET n == Len(outcomes) IN
           /\ CountsTail(outcomes', vendor'.failures, "failed")
           /\ CountsTail(outcomes', vendor'.successes, "answered")
           /\ ~DownAt(outcomes', n + 1)
           /\ UpAt(outcomes', n + 1) <=>
                \/ vendor'.successes >= SuccessesToReachable
                \/ vendor.reachable = "none"
<1> DEFINE n == Len(outcomes)
<1>1. /\ outcomes \in Seq(Outcome) /\ n \in Nat
      /\ vendor.successes \in 0..StreakCap
      /\ outcomes' = Append(outcomes, "answered")
      /\ vendor'.failures = 0
      /\ vendor'.successes = Longer(vendor.successes)
      /\ "answered" \in Outcome /\ "failed" \in Outcome
  BY DEF IInv, TypeOK, Health, Answered, RecordSuccess, Outcome
<1>2. CountsTail(outcomes, vendor.successes, "answered")
  BY DEF IInv
<1>3. /\ CountsTail(outcomes', vendor'.successes, "answered")
      /\ vendor'.successes >= SuccessesToReachable
           <=> RunEndsAt(outcomes', n + 1, SuccessesToReachable, "answered")
  BY <1>1, <1>2, StreakReachesThreshold, ThresholdAssumption
<1>4. /\ CountsTail(outcomes', vendor'.failures, "failed")
      /\ ~DownAt(outcomes', n + 1)
  BY <1>1, OtherStreakResets, ThresholdAssumption DEF DownAt
<1>5. /\ outcomes'[n + 1] = "answered"
      /\ \A j \in 1..n : /\ outcomes'[j] = outcomes[j]
                         /\ DownAt(outcomes', j) <=> DownAt(outcomes, j)
  BY <1>1, AppendKeepsEvidence
<1>6. vendor.reachable = "none" <=>
        \A j \in 1..n : outcomes'[j] # "answered" /\ ~DownAt(outcomes', j)
  BY <1>5 DEF IInv, NoneMeansNoEvidence
<1>7. 1..((n + 1) - 1) = 1..n
  BY <1>1
<1> QED
  BY <1>3, <1>4, <1>5, <1>6, <1>7 DEF UpAt

LEMMA FailedEvidence ==
    ASSUME IInv, Failed
    PROVE  LET n == Len(outcomes) IN
           /\ CountsTail(outcomes', vendor'.failures, "failed")
           /\ CountsTail(outcomes', vendor'.successes, "answered")
           /\ ~UpAt(outcomes', n + 1)
           /\ DownAt(outcomes', n + 1) <=>
                vendor'.failures >= FailuresToUnreachable
<1> DEFINE n == Len(outcomes)
<1>1. /\ outcomes \in Seq(Outcome) /\ n \in Nat
      /\ vendor.failures \in 0..StreakCap
      /\ outcomes' = Append(outcomes, "failed")
      /\ vendor'.successes = 0
      /\ vendor'.failures = Longer(vendor.failures)
      /\ "answered" \in Outcome /\ "failed" \in Outcome
  BY DEF IInv, TypeOK, Health, Failed, RecordFailure, Outcome
<1>2. CountsTail(outcomes, vendor.failures, "failed")
  BY DEF IInv
<1>3. /\ CountsTail(outcomes', vendor'.failures, "failed")
      /\ vendor'.failures >= FailuresToUnreachable <=> DownAt(outcomes', n + 1)
  BY <1>1, <1>2, StreakReachesThreshold, ThresholdAssumption DEF DownAt
<1>4. /\ CountsTail(outcomes', vendor'.successes, "answered")
      /\ ~RunEndsAt(outcomes', n + 1, SuccessesToReachable, "answered")
  BY <1>1, OtherStreakResets, ThresholdAssumption
<1>5. outcomes'[n + 1] # "answered"
  BY <1>1
<1> QED
  BY <1>3, <1>4, <1>5 DEF UpAt

(* The verdict is the latest evidence, by cases on what the new position   *)
(* is evidence of.                                                         *)
LEMMA VerdictStep ==
    ASSUME IInv, Answered \/ Failed
    PROVE  /\ NoneMeansNoEvidence'
           /\ DownMeansOutage'
           /\ UpMeansAnswering'
<1> DEFINE n == Len(outcomes)
           h == outcomes
           g == outcomes'
<1>1. /\ n \in Nat /\ Len(g) = n + 1
      /\ g[n + 1] = "answered" <=> Answered
      /\ \A i \in 1..n : /\ g[i] = h[i]
                         /\ DownAt(g, i) <=> DownAt(h, i)
                         /\ UpAt(g, i) <=> UpAt(h, i)
  <2>1. h \in Seq(Outcome) /\ {"answered", "failed"} \subseteq Outcome
    BY DEF IInv, TypeOK, Outcome
  <2>2. CASE Answered
    <3>1. g = Append(h, "answered")
      BY <2>2 DEF Answered
    <3> QED
      BY <2>1, <2>2, <3>1, AppendKeepsEvidence
  <2>3. CASE Failed
    <3>1. g = Append(h, "failed") /\ ~Answered
      BY <2>3, <2>1 DEF Failed, Answered
    <3> QED
      BY <2>1, <2>3, <3>1, AppendKeepsEvidence
  <2> QED
    BY <2>2, <2>3
<1>2. /\ vendor.reachable \in {"none", "up", "down"}
      /\ vendor'.reachable \in {"none", "up", "down"}
  <2>1. TypeOK'
    BY TypeCorrectStep DEF IInv, Next
  <2> QED
    BY <2>1 DEF IInv, TypeOK, Health
<1>3. ~(DownAt(g, n + 1) /\ UpAt(g, n + 1))
  BY AnsweredEvidence, FailedEvidence
<1>4. vendor'.reachable = IF DownAt(g, n + 1) THEN "down"
                          ELSE IF UpAt(g, n + 1) THEN "up" ELSE vendor.reachable
  <2>1. CASE Answered
    BY <2>1, AnsweredEvidence DEF Answered, RecordSuccess
  <2>2. CASE Failed
    BY <2>2, FailedEvidence DEF Failed, RecordFailure
  <2> QED
    BY <2>1, <2>2
<1>5. (\A i \in 1..(n + 1) : g[i] # "answered" /\ ~DownAt(g, i)) <=>
        /\ vendor.reachable = "none"
        /\ ~Answered /\ ~DownAt(g, n + 1)
  BY <1>1 DEF IInv, NoneMeansNoEvidence
<1>6. vendor.reachable = "none" /\ Answered => UpAt(g, n + 1)
  BY AnsweredEvidence
<1>7. NoneMeansNoEvidence'
  <2>1. UpAt(g, n + 1) => Answered
    BY FailedEvidence
  <2> QED
    BY <1>1, <1>4, <1>5, <1>6, <2>1 DEF NoneMeansNoEvidence
<1>8. DownMeansOutage'
  <2>1. CASE DownAt(g, n + 1)
    BY <1>1, <1>4, <2>1 DEF DownMeansOutage
  <2>2. CASE UpAt(g, n + 1)
    BY <1>1, <1>3, <1>4, <2>2 DEF DownMeansOutage
  <2>3. CASE ~DownAt(g, n + 1) /\ ~UpAt(g, n + 1)
    BY <1>1, <1>4, <2>3 DEF DownMeansOutage, IInv
  <2> QED
    BY <2>1, <2>2, <2>3
<1>9. UpMeansAnswering'
  <2>1. CASE UpAt(g, n + 1)
    BY <1>1, <1>3, <1>4, <2>1 DEF UpMeansAnswering
  <2>2. CASE DownAt(g, n + 1)
    BY <1>1, <1>3, <1>4, <2>2 DEF UpMeansAnswering
  <2>3. CASE ~DownAt(g, n + 1) /\ ~UpAt(g, n + 1)
    BY <1>1, <1>4, <2>3 DEF UpMeansAnswering, IInv
  <2> QED
    BY <2>1, <2>2, <2>3
<1> QED
  BY <1>7, <1>8, <1>9

(* The verdict of core/vendor.py is, after any number of outcomes in any   *)
(* order, the latest evidence in their history.                            *)
THEOREM VerdictCorrect == Spec => []VerdictFollowsHistory
<1>1. Init => IInv
  <2> SUFFICES ASSUME Init PROVE IInv
    OBVIOUS
  <2>1. TypeOK
    BY ThresholdAssumption DEF Init, TypeOK, NeverAsked, Health
  <2>2. /\ CountsTail(outcomes, vendor.failures, "failed")
        /\ CountsTail(outcomes, vendor.successes, "answered")
    BY DEF Init, NeverAsked, CountsTail, RunEndsAt
  <2>3. NoneMeansNoEvidence /\ DownMeansOutage /\ UpMeansAnswering
    BY DEF Init, NeverAsked, NoneMeansNoEvidence, DownMeansOutage, UpMeansAnswering
  <2> QED
    BY <2>1, <2>2, <2>3 DEF IInv
<1>2. IInv /\ [Next]_vars => IInv'
  <2> SUFFICES ASSUME IInv, [Next]_vars PROVE IInv'
    OBVIOUS
  <2>1. TypeOK'
    BY TypeCorrectStep DEF IInv
  <2>2. CASE Answered
    BY <2>1, <2>2, AnsweredEvidence, VerdictStep DEF IInv
  <2>3. CASE Failed
    BY <2>1, <2>3, FailedEvidence, VerdictStep DEF IInv
  <2>4. CASE UNCHANGED vars
    BY <2>1, <2>4 DEF vars, IInv, CountsTail, RunEndsAt, NoneMeansNoEvidence,
       DownMeansOutage, UpMeansAnswering, DownAt, UpAt
  <2> QED
    BY <2>2, <2>3, <2>4 DEF Next
<1>3. IInv => VerdictFollowsHistory
  BY DEF IInv, VerdictFollowsHistory
<1> QED
  BY <1>1, <1>2, <1>3, PTL DEF Spec
=============================================================================
