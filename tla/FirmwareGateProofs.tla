------------------------- MODULE FirmwareGateProofs -------------------------
(***************************************************************************)
(* Proofs about the firmware check: for any set of handlers, any set of    *)
(* vendor replies and any number of restarts.                              *)
(***************************************************************************)
EXTENDS FirmwareGate, TLAPS

-----------------------------------------------------------------------------
(* A reply is judged one way, and is none of the made-up ones.             *)
LEMMA RepliesAreJudgedOnce ==
    /\ Updates \cap Baseline = {}
    /\ Updates \subseteq Replies /\ Baseline \subseteq Replies
    /\ NoReply \notin Updates \cup Baseline
    /\ BadGateway \notin Updates \cup Baseline \cup {NoReply}
BY ReplyAssumption DEF Updates, Baseline

(* The checker's fields after record_upstream, by verdict.                 *)
LEMMA RecordedFields ==
    ASSUME NEW c, NEW r
    PROVE  /\ Recorded(c, r).cached =
                IF classify(r) = "NO_UPDATE" THEN r ELSE c.cached
           /\ Recorded(c, r).held = IF Holds(c, r) THEN r ELSE c.held
           /\ Recorded(c, r).last_checked = "fresh"
           /\ classify(r) = "UPDATE_OFFERED" => Recorded(c, r).update_offered = TRUE
           /\ classify(r) = "NO_UPDATE" => Recorded(c, r).update_offered = FALSE
           /\ classify(r) \notin {"NO_UPDATE", "UPDATE_OFFERED"} =>
                Recorded(c, r).update_offered = c.update_offered
BY DEF Recorded

LEMMA RecordedType ==
    ASSUME TypeOK, NEW r \in Replies
    PROVE  Recorded(checker, r) \in [cached : Baseline \cup {NoReply},
                                     held : Updates \cup {NoReply},
                                     last_checked : Checked,
                                     update_offered : BOOLEAN]
<1>1. classify(r) = "NO_UPDATE" => r \in Baseline
  BY DEF Baseline
<1>2. Holds(checker, r) => r \in Updates
  BY DEF Holds, Updates
<1>3. (CASE classify(r) = "NO_UPDATE"      -> FALSE
         [] classify(r) = "UPDATE_OFFERED" -> TRUE
         [] OTHER                          -> checker.update_offered) \in BOOLEAN
  BY DEF TypeOK
<1> QED
  BY <1>1, <1>2, <1>3 DEF Recorded, TypeOK, Checked

LEMMA ReturnedType ==
    ASSUME TypeOK, NEW r \in Replies
    PROVE  Returned(checker, r) \in Replies
BY RepliesAreJudgedOnce DEF TypeOK, Returned, Holds

LEMMA ApprovedFields ==
    ASSUME TypeOK
    PROVE  /\ approve(checker) \in [cached : Baseline \cup {NoReply},
                                    held : Updates \cup {NoReply},
                                    last_checked : Checked,
                                    update_offered : BOOLEAN]
           /\ approve(checker).held = NoReply
           /\ approve(checker).cached = checker.cached
           /\ approve(checker).last_checked = "never"
           /\ approve(checker).update_offered = checker.update_offered
BY DEF TypeOK, approve, Checked

LEMMA DisplayType ==
    ASSUME NEW c, c.update_offered \in BOOLEAN
    PROVE  Display(c) \in [on : BOOLEAN, held : BOOLEAN]
BY DEF Display

LEMMA StepType == TypeOK /\ [Next]_vars => TypeOK'
<1> SUFFICES ASSUME TypeOK, [Next]_vars PROVE TypeOK'
  OBVIOUS
<1>1. CASE PollFromCache
  BY <1>1, RepliesAreJudgedOnce DEF PollFromCache, TypeOK
<1>2. ASSUME NEW h \in Handlers, PollAsks(h) PROVE TypeOK'
  BY <1>2 DEF PollAsks, TypeOK
<1>3. ASSUME NEW h \in Handlers, RelayFailed(h) PROVE TypeOK'
  BY <1>3, RepliesAreJudgedOnce DEF RelayFailed, TypeOK
<1>4. ASSUME NEW h \in Handlers, RelayAnswered(h) PROVE TypeOK'
  <2>1. /\ checker' = Recorded(checker, vendor)
        /\ served' = Returned(checker, vendor)
        /\ vendor \in Replies
    BY <1>4 DEF RelayAnswered, TypeOK
  <2>2. checker' \in [cached : Baseline \cup {NoReply},
                      held : Updates \cup {NoReply},
                      last_checked : Checked,
                      update_offered : BOOLEAN]
    BY <2>1, RecordedType
  <2>3. served' \in Replies
    BY <2>1, ReturnedType
  <2>4. shown' \in [on : BOOLEAN, held : BOOLEAN] \cup {NotAdded}
    BY <1>4, <2>2, DisplayType DEF RelayAnswered, Dispatch, TypeOK
  <2>5. withheld' \subseteq Updates
    BY <1>4, <2>1 DEF RelayAnswered, TypeOK, Holds, Updates
  <2> QED
    BY <1>4, <2>2, <2>3, <2>4, <2>5 DEF RelayAnswered, TypeOK
<1>5. CASE EntityAdded
  BY <1>5, DisplayType DEF EntityAdded, TypeOK
<1>6. CASE Approve
  <2>1. checker' = approve(checker)
    BY <1>6 DEF Approve
  <2>2. shown' \in [on : BOOLEAN, held : BOOLEAN] \cup {NotAdded}
    BY <1>6, <2>1, ApprovedFields, DisplayType DEF Approve, Dispatch, TypeOK
  <2>3. approved' \subseteq Updates /\ withheld' \subseteq Updates
    BY <1>6 DEF Approve, TypeOK
  <2> QED
    BY <1>6, <2>1, <2>2, <2>3, ApprovedFields DEF Approve, TypeOK
<1>7. CASE IntervalPasses
  BY <1>7 DEF IntervalPasses, TypeOK, Checked
<1>8. CASE VendorChanges
  BY <1>8 DEF VendorChanges, TypeOK
<1>9. CASE Restart
  BY <1>9, RestartAssumption DEF Restart, TypeOK, FreshChecker, Checked
<1>10. CASE UNCHANGED vars
  BY <1>10 DEF vars, TypeOK
<1> QED
  BY <1>1, <1>2, <1>3, <1>4, <1>5, <1>6, <1>7, <1>8, <1>9, <1>10 DEF Next

(* Only "no update" replies are cached and only updates are held, for      *)
(* every set of replies the vendor may give.                               *)
THEOREM TypeCorrect == Spec => []TypeOK
<1>1. Init => TypeOK
  BY RestartAssumption DEF Init, TypeOK, FreshChecker, Checked
<1> QED
  BY <1>1, StepType, PTL DEF Spec

-----------------------------------------------------------------------------
(* The strengthening: what is held has a baseline to hide behind, and, in  *)
(* one run of the integration, so has everything withheld so far.          *)
HeldHasBaseline == checker.held # NoReply => checker.cached # NoReply

WithheldHasBaseline ==
    withheld # {} => /\ quarantine
                     /\ restarts = 0 => checker.cached # NoReply

GateInv ==
    /\ HeldHasBaseline
    /\ WithheldHasBaseline
    /\ HeldStaysBack

LEMMA GateStep == TypeOK /\ GateInv /\ [Next]_vars => GateInv'
<1> SUFFICES ASSUME TypeOK, GateInv, [Next]_vars PROVE GateInv'
  OBVIOUS
<1> USE DEF GateInv, HeldHasBaseline, WithheldHasBaseline, HeldStaysBack
<1>1. CASE PollFromCache
  BY <1>1, RepliesAreJudgedOnce DEF PollFromCache, TypeOK
<1>2. ASSUME NEW h \in Handlers, PollAsks(h) PROVE GateInv'
  BY <1>2 DEF PollAsks
<1>3. ASSUME NEW h \in Handlers, RelayFailed(h) PROVE GateInv'
  BY <1>3, RepliesAreJudgedOnce DEF RelayFailed, TypeOK
<1>4. ASSUME NEW h \in Handlers, RelayAnswered(h) PROVE GateInv'
  <2>1. /\ checker' = Recorded(checker, vendor)
        /\ served' = Returned(checker, vendor)
        /\ vendor \in Replies
        /\ UNCHANGED <<quarantine, restarts>>
    BY <1>4 DEF RelayAnswered, TypeOK
  <2>2. checker.cached # NoReply => checker'.cached # NoReply
    BY <2>1, RecordedFields, ReplyAssumption
  <2>3. HeldHasBaseline'
    BY <2>1, <2>2, RecordedFields DEF Holds
  <2>4. CASE Holds(checker, vendor)
    <3>1. served' \in Baseline /\ checker.cached # NoReply /\ quarantine
      BY <2>1, <2>4 DEF Returned, Holds, TypeOK
    <3>2. withheld' \subseteq Updates
      BY <1>4, StepType DEF Next, TypeOK
    <3> QED
      BY <2>1, <2>2, <2>3, <3>1, <3>2, RepliesAreJudgedOnce
  <2>5. CASE ~Holds(checker, vendor)
    <3>1. withheld' = withheld /\ served' = vendor
      BY <1>4, <2>1, <2>5 DEF RelayAnswered, Returned
    <3>2. restarts = 0 => vendor \notin withheld
      BY <2>5 DEF Holds, TypeOK, Updates
    <3> QED
      BY <2>1, <2>2, <2>3, <3>1, <3>2
  <2> QED
    BY <2>4, <2>5
<1>5. CASE EntityAdded
  BY <1>5 DEF EntityAdded
<1>6. CASE Approve
  BY <1>6, ApprovedFields DEF Approve
<1>7. CASE IntervalPasses
  BY <1>7 DEF IntervalPasses, TypeOK
<1>8. CASE VendorChanges
  BY <1>8 DEF VendorChanges
<1>9. CASE Restart
  BY <1>9 DEF Restart, FreshChecker, TypeOK
<1>10. CASE UNCHANGED vars
  BY <1>10 DEF vars
<1> QED
  BY <1>1, <1>2, <1>3, <1>4, <1>5, <1>6, <1>7, <1>8, <1>9, <1>10 DEF Next

LEMMA GateInit == Init => GateInv
BY RepliesAreJudgedOnce
   DEF Init, GateInv, HeldHasBaseline, WithheldHasBaseline, HeldStaysBack,
       FreshChecker

(* A poll answered without asking upstream always has a "no update" reply  *)
(* to send: the handler never dereferences None, and never sends an update *)
(* from the cache.                                                         *)
THEOREM CacheAlwaysAnswers == Spec => []CacheAnswerIsSafe
<1>1. TypeOK /\ GateInv => CacheAnswerIsSafe
  BY DEF TypeOK, GateInv, HeldHasBaseline, CacheAnswerIsSafe,
     should_query_upstream
<1> QED
  BY <1>1, GateInit, GateStep, TypeCorrect, PTL DEF Spec

(* Until the first restart a held update stays back until it is approved,  *)
(* for any number of overlapping polls and any sequence of vendor answers. *)
THEOREM HeldStaysBackAlways == Spec => []HeldStaysBack
<1>1. GateInv => HeldStaysBack
  BY DEF GateInv
<1> QED
  BY <1>1, GateInit, GateStep, TypeCorrect, PTL DEF Spec

-----------------------------------------------------------------------------
(* The entity lights for every offer and its held_for_approval attribute   *)
(* is exact: whatever makes an offer or changes what is held dispatches.   *)
THEOREM EntityNeverMisses == Spec => []EntityMissesNothing
<1>1. Init => EntityMissesNothing
  BY DEF Init, EntityMissesNothing
<1>2. TypeOK /\ EntityMissesNothing /\ [Next]_vars => EntityMissesNothing'
  <2> SUFFICES ASSUME TypeOK, EntityMissesNothing, [Next]_vars
               PROVE  EntityMissesNothing'
    OBVIOUS
  <2> USE DEF EntityMissesNothing
  <2>1. ASSUME NEW h \in Handlers, RelayAnswered(h) PROVE EntityMissesNothing'
    <3>1. CASE vendor \in Updates
      <4>1. ASSUME shown' # NotAdded PROVE shown' = Display(checker')
        BY <2>1, <3>1, <4>1 DEF RelayAnswered, Dispatch
      <4>2. /\ Display(checker').on = checker'.update_offered
            /\ Display(checker').held = (checker'.held # NoReply)
        BY DEF Display
      <4> QED
        BY <4>1, <4>2
    <3>2. CASE vendor \notin Updates
      <4>1. /\ checker' = Recorded(checker, vendor)
            /\ UNCHANGED shown
            /\ classify(vendor) # "UPDATE_OFFERED"
        BY <2>1, <3>2 DEF RelayAnswered, Updates, TypeOK
      <4>2. /\ checker'.held = checker.held
            /\ checker'.update_offered => checker.update_offered
        <5>1. checker'.held = checker.held
          BY <4>1, RecordedFields DEF Holds
        <5>2. CASE classify(vendor) = "NO_UPDATE"
          BY <4>1, <5>1, <5>2, RecordedFields
        <5>3. CASE classify(vendor) # "NO_UPDATE"
          <6>1. checker'.update_offered = checker.update_offered
            BY <4>1, <5>3, RecordedFields
          <6> QED
            BY <5>1, <6>1
        <5> QED
          BY <5>1, <5>2, <5>3
      <4> QED
        BY <4>1, <4>2
    <3> QED
      BY <3>1, <3>2
  <2>2. CASE Approve
    BY <2>2 DEF Approve, Dispatch, Display
  <2>3. CASE EntityAdded
    BY <2>3 DEF EntityAdded, Display
  <2>4. CASE IntervalPasses
    BY <2>4 DEF IntervalPasses, TypeOK
  <2>5. CASE Restart
    BY <2>5 DEF Restart
  <2>6. ASSUME UNCHANGED <<checker, shown>> PROVE EntityMissesNothing'
    BY <2>6
  <2> QED
    BY <2>1, <2>2, <2>3, <2>4, <2>5, <2>6
       DEF Next, PollFromCache, PollAsks, RelayFailed, VendorChanges, vars
<1> QED
  BY <1>1, <1>2, TypeCorrect, PTL DEF Spec
=============================================================================
