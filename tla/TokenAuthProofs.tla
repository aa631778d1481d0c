--------------------------- MODULE TokenAuthProofs ---------------------------
(***************************************************************************)
(* Proofs about _handle_auth(): for every set of handlers, every pair of   *)
(* thresholds and every number of abandoned requests.                      *)
(***************************************************************************)
EXTENDS TokenAuth, TLAPS

-----------------------------------------------------------------------------
(* The verdict's record keeps its type under both outcomes.                *)
LEMMA FoldType ==
    ASSUME NEW v \in Health, NEW outcome PROVE Fold(v, outcome) \in Health
BY ThresholdAssumption
   DEF Health, Fold, RecordSuccess, RecordFailure, Longer

LEMMA LineType ==
    ASSUME NEW x, NEW y PROVE LogVendorChange(x, y) \in Line
BY DEF LogVendorChange, Line

(* The part of the type invariant each half of a relay touches.            *)
LEMMA RelayTypes ==
    ASSUME RelayTypeOK, NEW h \in Handlers
    PROVE  /\ RelayBegins(h) => RelayTypeOK'
           /\ \A outcome : RelayEnds(h, outcome) => RelayTypeOK'
<1>1. ASSUME RelayBegins(h) PROVE RelayTypeOK'
  BY <1>1 DEF RelayTypeOK, RelayBegins, Health
<1>2. ASSUME NEW outcome, RelayEnds(h, outcome) PROVE RelayTypeOK'
  BY <1>2, FoldType, LineType DEF RelayTypeOK, RelayEnds
<1> QED
  BY <1>1, <1>2

LEMMA RelayMoves ==
    ASSUME TypeOK, NEW h \in Handlers
    PROVE  /\ \A kind \in {"auth", "other"} : RequestArrives(h, kind) =>
                /\ RelayTypeOK'
                /\ serving' \in [Handlers -> {"idle", "auth", "other"}]
                /\ \A g \in Handlers : serving'[g] = "idle" <=> was'[g] = "idle"
           /\ \A kind, outcome : Relayed(h, kind, outcome) =>
                /\ RelayTypeOK'
                /\ serving' \in [Handlers -> {"idle", "auth", "other"}]
                /\ \A g \in Handlers : serving'[g] = "idle" <=> was'[g] = "idle"
<1>1. ASSUME NEW kind \in {"auth", "other"}, RequestArrives(h, kind)
      PROVE  /\ RelayTypeOK'
             /\ serving' \in [Handlers -> {"idle", "auth", "other"}]
             /\ \A g \in Handlers : serving'[g] = "idle" <=> was'[g] = "idle"
  <2>1. RelayTypeOK' /\ vendor.reachable # "idle"
    BY <1>1, RelayTypes DEF TypeOK, RequestArrives, RelayTypeOK, Health
  <2> QED
    BY <1>1, <2>1 DEF TypeOK, RelayTypeOK, RequestArrives, RelayBegins
<1>2. ASSUME NEW kind, NEW outcome, Relayed(h, kind, outcome)
      PROVE  /\ RelayTypeOK'
             /\ serving' \in [Handlers -> {"idle", "auth", "other"}]
             /\ \A g \in Handlers : serving'[g] = "idle" <=> was'[g] = "idle"
  <2>1. RelayTypeOK'
    BY <1>2, RelayTypes DEF TypeOK, Relayed
  <2> QED
    BY <1>2, <2>1 DEF TypeOK, RelayTypeOK, Relayed, RelayEnds
<1> QED
  BY <1>1, <1>2

LEMMA InitType == Init => TypeOK
<1> SUFFICES ASSUME Init PROVE TypeOK
  OBVIOUS
<1>1. vendor \in Health /\ vendor.reachable = "none"
  BY ThresholdAssumption DEF Init, RelayInit, NeverAsked, Health
<1>2. RelayTypeOK
  BY <1>1 DEF Init, RelayInit, RelayTypeOK, Line
<1>3. shown \in [reachable : {"none", "up", "down"}, issued : BOOLEAN]
  BY <1>1 DEF Init, Display
<1>4. \A h \in Handlers : serving[h] = "idle" /\ was[h] = "idle"
  BY DEF Init, RelayInit
<1>5. /\ serving \in [Handlers -> {"idle", "auth", "other"}]
      /\ issued \in BOOLEAN
      /\ reply \in Answer \cup {"none"}
      /\ token \in {"vendor", "local"}
      /\ waiting \in Handlers \cup {Nobody}
      /\ service \in Service
  BY DEF Init, Service
<1>6. abandons \in 0..MaxAbandons
  BY AbandonAssumption DEF Init
<1>7. unheard \in BOOLEAN /\ overruled \in Nat
  BY DEF Init
<1> QED
  BY <1>2, <1>3, <1>4, <1>5, <1>6, <1>7 DEF TypeOK

LEMMA RespondType ==
    ASSUME TypeOK, NEW h \in Handlers, NEW answer \in Answer, Respond(h, answer)
    PROVE  /\ reply' \in Answer \cup {"none"}
           /\ token' \in {"vendor", "local"}
           /\ waiting' \in Handlers \cup {Nobody}
           /\ unheard' \in BOOLEAN
<1>1. unheard' \in BOOLEAN
  BY Zenon DEF TypeOK, Respond
<1> QED
  BY <1>1 DEF TypeOK, Respond, Answer

LEMMA OverruledType ==
    ASSUME TypeOK, NEW outcome, NEW minted, Overruled(outcome, minted)
    PROVE  overruled' \in Nat
BY DEF TypeOK, Overruled

LEMMA StepType == TypeOK /\ [Next]_vars => TypeOK'
<1> SUFFICES ASSUME TypeOK, [Next]_vars PROVE TypeOK'
  OBVIOUS
<1>1. ASSUME NEW h \in Handlers, TokenRequest(h) PROVE TypeOK'
  BY <1>1, RelayMoves DEF TypeOK, TokenRequest, RequestArrives, tokenVars
<1>2. ASSUME NEW h \in Handlers, OtherRequest(h) PROVE TypeOK'
  BY <1>2, RelayMoves DEF TypeOK, OtherRequest, RequestArrives, tokenVars
<1>3. ASSUME NEW h \in Handlers, OtherRelayed(h) PROVE TypeOK'
  <2>1. overruled' \in Nat
    BY <1>3, OverruledType DEF OtherRelayed
  <2> QED
    BY <1>3, <2>1, RelayMoves
       DEF TypeOK, RelayTypeOK, Health, OtherRelayed, Relayed, Display
<1>4. ASSUME NEW h \in Handlers, TokenGranted(h) PROVE TypeOK'
  <2>1. Respond(h, "vendor token") /\ Relayed(h, "auth", "answered")
    BY <1>4 DEF TokenGranted, clear
  <2>2. /\ reply' \in Answer \cup {"none"}
        /\ token' \in {"vendor", "local"}
        /\ waiting' \in Handlers \cup {Nobody}
        /\ unheard' \in BOOLEAN
    BY <2>1, RespondType DEF Answer
  <2>3. overruled' \in Nat
    BY <1>4, OverruledType DEF TokenGranted
  <2> QED
    BY <1>4, <2>1, <2>2, <2>3, RelayMoves
       DEF TypeOK, RelayTypeOK, Health, TokenGranted, clear, Relayed, Display
<1>5. ASSUME NEW h \in Handlers, NEW s \in {"rejected", "none"}, NoToken(h, s)
      PROVE TypeOK'
  <2>1. PICK answer \in Answer : Respond(h, answer)
    BY <1>5 DEF NoToken, NotGranted, mint, Answer
  <2>2. /\ reply' \in Answer \cup {"none"}
        /\ token' \in {"vendor", "local"}
        /\ waiting' \in Handlers \cup {Nobody}
        /\ unheard' \in BOOLEAN
    BY <2>1, RespondType
  <2>3. issued' \in BOOLEAN
    BY <1>5 DEF NoToken, NotGranted, mint, TypeOK
  <2>4. overruled' \in Nat
    BY <1>5, OverruledType DEF NoToken, NotGranted
  <2>5. shown' = Display(vendor', issued') /\ UNCHANGED <<abandons, service>>
    BY <1>5 DEF NoToken, NotGranted, Relayed
  <2>6. /\ RelayTypeOK'
        /\ serving' \in [Handlers -> {"idle", "auth", "other"}]
        /\ \A g \in Handlers : serving'[g] = "idle" <=> was'[g] = "idle"
    BY <1>5, RelayMoves DEF NoToken, NotGranted
  <2> QED
    BY <2>2, <2>3, <2>4, <2>5, <2>6 DEF TypeOK, RelayTypeOK, Health, Display
<1>6. CASE Abandon
  BY <1>6, AbandonAssumption DEF TypeOK, RelayTypeOK, Abandon, relayVars, tokenVars
<1>7. CASE ServiceChanges
  BY <1>7 DEF TypeOK, RelayTypeOK, ServiceChanges, relayVars, tokenVars
<1>8. CASE UNCHANGED vars
  BY <1>8 DEF TypeOK, RelayTypeOK, vars
<1> QED
  BY <1>1, <1>2, <1>3, <1>4, <1>5, <1>6, <1>7, <1>8 DEF Next

(* Type correctness of the token path.                                     *)
THEOREM TypeCorrect == Spec => []TypeOK
BY InitType, StepType, PTL DEF Spec

-----------------------------------------------------------------------------
(* The two service entities always show the runtime: each path through     *)
(* _handle_auth and _relay ends in a dispatch made after its last change.  *)
THEOREM EntitiesStayCurrent == Spec => []EntitiesCurrent
<1>1. Init => EntitiesCurrent
  BY DEF Init, EntitiesCurrent
<1>2. EntitiesCurrent /\ [Next]_vars => EntitiesCurrent'
  BY DEF EntitiesCurrent, Next, vars, TokenRequest, OtherRequest,
     RequestArrives, RelayBegins, OtherRelayed, TokenGranted, NoToken, NotGranted,
     Abandon, ServiceChanges, Display, relayVars, tokenVars
<1> QED
  BY <1>1, <1>2, PTL DEF Spec

-----------------------------------------------------------------------------
(* Why `issued' is wrong only after a late answer: until the device has    *)
(* walked away once, every handler that is serving a token request is the  *)
(* one it is listening to, so each clear() and each mint() is heard.       *)
AuthIsAwaited ==
    abandons = 0 => \A h \in Handlers : serving[h] = "auth" => waiting = h

TruthInv == AuthIsAwaited /\ IssuedTellsTheTruth

(* What handing out this answer has made of `issued'.                      *)
IssuedBy(answer) ==
    /\ answer = "vendor token" => ~issued'
    /\ answer = "local token" => issued'
    /\ answer \notin {"vendor token", "local token"} => (issued' <=> issued)

(* What any answer does to `issued' and to the token it does to both, if   *)
(* it is heard.                                                            *)
LEMMA AnswerTells ==
    ASSUME TypeOK, TruthInv, NEW h \in Handlers, NEW answer \in Answer,
           serving[h] = "auth", Respond(h, answer), abandons' = abandons,
           IssuedBy(answer)
    PROVE  IssuedTellsTheTruth'
<1>1. abandons \in Nat /\ (abandons = 0 => waiting = h)
  <2>1. abandons \in Nat
    BY AbandonAssumption DEF TypeOK
  <2>2. abandons = 0 => waiting = h
    BY DEF TruthInv, AuthIsAwaited
  <2> QED
    BY <2>1, <2>2
<1>2. /\ ~unheard => (issued <=> token = "local")
      /\ unheard => abandons > 0
  BY DEF TruthInv, IssuedTellsTheTruth
<1>3. CASE answer = "vendor token"
  <2>1. ~issued' /\ (waiting = h => token' = "vendor")
    BY <1>3 DEF Respond, IssuedBy
  <2>2. unheard' = (waiting # h)
    <3>1. answer \in {"vendor token", "local token"}
      BY <1>3
    <3> QED
      BY <3>1, Zenon DEF Respond
  <2>3. unheard' <=> waiting # h
    BY <2>2, Zenon
  <2> QED
    BY <1>1, <2>1, <2>3 DEF IssuedTellsTheTruth
<1>4. CASE answer = "local token"
  <2>1. issued' /\ (waiting = h => token' = "local")
    BY <1>4 DEF Respond, IssuedBy
  <2>2. unheard' = (waiting # h)
    <3>1. answer \in {"vendor token", "local token"}
      BY <1>4
    <3> QED
      BY <3>1, Zenon DEF Respond
  <2>3. unheard' <=> waiting # h
    BY <2>2, Zenon
  <2> QED
    BY <1>1, <2>1, <2>3 DEF IssuedTellsTheTruth
<1>5. CASE answer \notin {"vendor token", "local token"}
  <2>1. (issued' <=> issued) /\ token' = token
    BY <1>5 DEF Respond, IssuedBy
  <2>2. unheard' = unheard
    BY <1>5, Zenon DEF Respond
  <2> QED
    BY <1>1, <1>2, <2>1, <2>2 DEF IssuedTellsTheTruth
<1> QED
  BY <1>3, <1>4, <1>5

(* What a token request is told when the vendor granted none.              *)
LEMMA ToldWithout ==
    ASSUME TypeOK, NEW h \in Handlers, NEW s \in {"rejected", "none"}, NoToken(h, s)
    PROVE  \E answer \in Answer \ {"vendor token"} :
             Respond(h, answer) /\ IssuedBy(answer)
<1> DEFINE told == ShouldMint(vendor'.reachable, s)
<1>1. CASE told
  <2>1. Respond(h, "local token") /\ issued' = TRUE
    BY <1>1 DEF NoToken, NotGranted, mint
  <2> QED
    BY <2>1 DEF Answer, IssuedBy
<1>2. CASE ~told
  <2>1. \E answer \in {"bad gateway", "rejection"} : Respond(h, answer)
    BY <1>2 DEF NoToken, NotGranted, mint
  <2>2. issued' = issued
    BY <1>2 DEF NoToken, NotGranted, mint, TypeOK
  <2> QED
    BY <2>1, <2>2 DEF Answer, IssuedBy
<1> QED
  BY <1>1, <1>2

(* issued is exactly whether the device carries a token minted here, but   *)
(* for what an answer that nobody heard has changed; for any number of     *)
(* handlers.                                                               *)
THEOREM IssuedIsTrue == Spec => []IssuedTellsTheTruth
<1>1. Init => TruthInv
  BY DEF Init, TruthInv, AuthIsAwaited, IssuedTellsTheTruth
<1>2. TypeOK /\ TruthInv /\ [Next]_vars => TruthInv'
  <2> SUFFICES ASSUME TypeOK, TruthInv, [Next]_vars PROVE TruthInv'
    OBVIOUS
  <2>1. ASSUME NEW h \in Handlers, TokenRequest(h) PROVE TruthInv'
    <3>1. AuthIsAwaited'
      BY <2>1, AbandonAssumption
         DEF TruthInv, AuthIsAwaited, TokenRequest, RequestArrives, TypeOK
    <3>2. IssuedTellsTheTruth'
      BY <2>1 DEF TruthInv, IssuedTellsTheTruth, TokenRequest, RequestArrives, tokenVars
    <3> QED
      BY <3>1, <3>2 DEF TruthInv
  <2>2. ASSUME NEW h \in Handlers, OtherRequest(h) PROVE TruthInv'
    BY <2>2 DEF TruthInv, AuthIsAwaited, IssuedTellsTheTruth, OtherRequest,
       RequestArrives, TypeOK, tokenVars
  <2>3. ASSUME NEW h \in Handlers, OtherRelayed(h) PROVE TruthInv'
    BY <2>3 DEF TruthInv, AuthIsAwaited, IssuedTellsTheTruth, OtherRelayed, Relayed,
       TypeOK
  <2>4. ASSUME NEW h \in Handlers, TokenGranted(h) PROVE TruthInv'
    <3>1. AuthIsAwaited'
      BY <2>4 DEF TruthInv, AuthIsAwaited, TokenGranted, clear, Relayed, Respond, TypeOK
    <3>2. /\ serving[h] = "auth" /\ Respond(h, "vendor token")
          /\ abandons' = abandons /\ issued' = FALSE
      BY <2>4 DEF TokenGranted, clear, Relayed
    <3>3. IssuedTellsTheTruth'
      BY <3>2, AnswerTells DEF Answer, IssuedBy
    <3> QED
      BY <3>1, <3>3 DEF TruthInv
  <2>5. ASSUME NEW h \in Handlers, NEW s \in {"rejected", "none"}, NoToken(h, s)
        PROVE TruthInv'
    <3>1. PICK answer \in Answer \ {"vendor token"} :
            Respond(h, answer) /\ IssuedBy(answer)
      BY <2>5, ToldWithout
    <3>2. AuthIsAwaited'
      BY <2>5, <3>1 DEF TruthInv, AuthIsAwaited, NoToken, NotGranted, Relayed, Respond,
         TypeOK
    <3>3. serving[h] = "auth" /\ abandons' = abandons
      BY <2>5 DEF NoToken, NotGranted, Relayed
    <3>4. IssuedTellsTheTruth'
      BY <3>1, <3>3, AnswerTells
    <3> QED
      BY <3>2, <3>4 DEF TruthInv
  <2>6. CASE Abandon
    BY <2>6, AbandonAssumption
       DEF TruthInv, AuthIsAwaited, IssuedTellsTheTruth, Abandon, tokenVars, TypeOK
  <2>7. CASE ServiceChanges
    BY <2>7 DEF TruthInv, AuthIsAwaited, IssuedTellsTheTruth, ServiceChanges, tokenVars
  <2>8. CASE UNCHANGED vars
    BY <2>8 DEF TruthInv, AuthIsAwaited, IssuedTellsTheTruth, vars
  <2> QED
    BY <2>1, <2>2, <2>3, <2>4, <2>5, <2>6, <2>7, <2>8 DEF Next
<1>3. TruthInv => IssuedTellsTheTruth
  BY DEF TruthInv
<1> QED
  BY <1>1, <1>2, <1>3, TypeCorrect, PTL DEF Spec

-----------------------------------------------------------------------------
(* Why few rejections are overruled: while the verdict is down each of     *)
(* them is one of the answers in a row that the verdict has counted, and a *)
(* failure, which ends that row, begins the count again.                   *)
OverruledInv ==
    /\ RejectionsGetThrough
    /\ vendor.reachable = "down" =>
         /\ overruled <= vendor.successes
         /\ vendor.successes < SuccessesToReachable

LEMMA OutcomeCounts ==
    ASSUME TypeOK, OverruledInv, NEW outcome \in {"answered", "failed"},
           NEW minted \in BOOLEAN, vendor' = Fold(vendor, outcome),
           Overruled(outcome, minted), minted => vendor'.reachable = "down"
    PROVE  OverruledInv'
<1> DEFINE streak == Longer(vendor.successes)
<1>0. /\ SuccessesToReachable \in Nat \ {0} /\ StreakCap \in Nat
      /\ StreakCap >= SuccessesToReachable
      /\ vendor.successes \in 0..StreakCap /\ overruled \in Nat
      /\ overruled < SuccessesToReachable
  BY ThresholdAssumption DEF TypeOK, RelayTypeOK, Health, OverruledInv, RejectionsGetThrough
<1>1. CASE outcome = "failed"
  <2>1. overruled' = 0 /\ vendor'.successes = 0
    BY <1>1 DEF Overruled, Fold, RecordFailure
  <2> QED
    BY <1>0, <2>1 DEF OverruledInv, RejectionsGetThrough
<1>2. CASE outcome = "answered" /\ vendor'.reachable = "down"
  <2>0. streak \in Nat
    BY <1>0 DEF Longer
  <2> HIDE DEF streak
  <2>1. /\ vendor.reachable = "down" /\ vendor'.successes = streak
        /\ streak < SuccessesToReachable
    <3>1. vendor' = [reachable |-> IF streak >= SuccessesToReachable \/ vendor.reachable = "none"
                                   THEN "up" ELSE vendor.reachable,
                     failures  |-> 0,
                     successes |-> streak]
      BY <1>2 DEF Fold, RecordSuccess, streak
    <3> QED
      BY <1>0, <1>2, <2>0, <3>1
  <2>2. streak = vendor.successes + 1
    BY <1>0, <2>1 DEF Longer, streak
  <2>3. overruled <= vendor.successes
    BY <2>1 DEF OverruledInv
  <2>4. overruled' \in {overruled, overruled + 1}
    BY <1>2 DEF Overruled
  <2> QED
    BY <1>0, <2>1, <2>2, <2>3, <2>4 DEF OverruledInv, RejectionsGetThrough
<1>3. CASE outcome = "answered" /\ vendor'.reachable # "down"
  <2>1. overruled' = overruled
    BY <1>3 DEF Overruled
  <2> QED
    BY <1>0, <1>3, <2>1 DEF OverruledInv, RejectionsGetThrough
<1> QED
  BY <1>1, <1>2, <1>3

(* For any number of handlers, any thresholds and any other traffic, fewer *)
(* rejections than the verdict needs answers are overruled between two     *)
(* failed relays.                                                          *)
THEOREM RejectionsPass == Spec => []RejectionsGetThrough
<1>1. Init => OverruledInv
  BY ThresholdAssumption
     DEF Init, RelayInit, NeverAsked, OverruledInv, RejectionsGetThrough
<1>2. TypeOK /\ OverruledInv /\ [Next]_vars => OverruledInv'
  <2> SUFFICES ASSUME TypeOK, OverruledInv, [Next]_vars PROVE OverruledInv'
    OBVIOUS
  <2>1. ASSUME NEW h \in Handlers, TokenRequest(h) \/ OtherRequest(h)
        PROVE  OverruledInv'
    BY <2>1 DEF TokenRequest, OtherRequest, RequestArrives, RelayBegins, tokenVars,
       OverruledInv, RejectionsGetThrough
  <2>2. ASSUME NEW h \in Handlers, OtherRelayed(h) PROVE OverruledInv'
    BY <2>2, OutcomeCounts DEF OtherRelayed, Relayed, RelayEnds
  <2>3. ASSUME NEW h \in Handlers, TokenGranted(h) PROVE OverruledInv'
    BY <2>3, OutcomeCounts DEF TokenGranted, Relayed, RelayEnds
  <2>4. ASSUME NEW h \in Handlers, NEW s \in {"rejected", "none"}, NoToken(h, s)
        PROVE  OverruledInv'
    <3> DEFINE outcome == IF s = "none" THEN "failed" ELSE "answered"
               minted  == ShouldMint(vendor'.reachable, s)
    <3>1. vendor' = Fold(vendor, outcome) /\ Overruled(outcome, minted)
      BY <2>4 DEF NoToken, NotGranted, Relayed, RelayEnds
    <3>2. minted \in BOOLEAN /\ (minted => vendor'.reachable = "down")
      BY DEF ShouldMint
    <3>3. outcome \in {"answered", "failed"}
      OBVIOUS
    <3> HIDE DEF outcome, minted
    <3> QED
      BY <3>1, <3>2, <3>3, OutcomeCounts
  <2>5. CASE Abandon \/ ServiceChanges \/ UNCHANGED vars
    BY <2>5 DEF Abandon, ServiceChanges, vars, relayVars, tokenVars, OverruledInv,
       RejectionsGetThrough
  <2> QED
    BY <2>1, <2>2, <2>3, <2>4, <2>5 DEF Next
<1>3. OverruledInv => RejectionsGetThrough
  BY DEF OverruledInv
<1> QED
  BY <1>1, <1>2, <1>3, TypeCorrect, PTL DEF Spec

-----------------------------------------------------------------------------
(* No outcome takes a verdict back to "none": what is not "down" after it  *)
(* and was before is "up".                                                 *)
LEMMA FoldVerdict ==
    ASSUME NEW v \in Health, NEW outcome
    PROVE  Fold(v, outcome).reachable \in {v.reachable, "up", "down"}
BY DEF Health, Fold, RecordSuccess, RecordFailure

(* A relay that no verdict overtook writes what keeps the log true.        *)
LEMMA RelayLogs ==
    ASSUME TypeOK, LogFollowsVerdict, NEW h \in Handlers, NEW outcome,
           RelayEnds(h, outcome)
    PROVE  LogFollowsVerdict'
<1> SUFFICES ASSUME ~overtaken'
             PROVE  said' = "unreachable" <=> vendor'.reachable = "down"
  BY DEF LogFollowsVerdict
<1>1. was[h] = vendor.reachable /\ (said = "unreachable" <=> vendor.reachable = "down")
  BY DEF RelayEnds, LogFollowsVerdict
<1>2. vendor'.reachable \in {vendor.reachable, "up", "down"}
  BY FoldVerdict DEF TypeOK, RelayTypeOK, RelayEnds
<1>3. vendor.reachable \in {"none", "up", "down"}
  BY DEF TypeOK, RelayTypeOK, Health
<1> DEFINE line == LogVendorChange(was[h], vendor'.reachable)
<1>4. said' = IF line = "silent" THEN said ELSE line
  BY DEF RelayEnds
<1>5. line = CASE vendor'.reachable = "down" /\ vendor.reachable # "down" -> "unreachable"
               [] vendor'.reachable = "up" /\ vendor.reachable = "down"   -> "reachable again"
               [] OTHER                                                   -> "silent"
  BY <1>1 DEF LogVendorChange
<1> HIDE DEF line
<1>6. CASE vendor'.reachable = "down"
  BY <1>1, <1>3, <1>4, <1>5, <1>6
<1>7. CASE vendor'.reachable # "down" /\ vendor.reachable = "down"
  BY <1>2, <1>4, <1>5, <1>7
<1>8. CASE vendor'.reachable # "down" /\ vendor.reachable # "down"
  BY <1>1, <1>4, <1>5, <1>8
<1> QED
  BY <1>6, <1>7, <1>8

(* For any number of handlers and any thresholds the last line of the log  *)
(* gives the verdict, until a verdict moves under a relay in progress.     *)
THEOREM LogIsTrue == Spec => []LogFollowsVerdict
<1>1. Init => LogFollowsVerdict
  BY DEF Init, RelayInit, NeverAsked, LogFollowsVerdict
<1>2. TypeOK /\ LogFollowsVerdict /\ [Next]_vars => LogFollowsVerdict'
  <2> SUFFICES ASSUME TypeOK, LogFollowsVerdict, [Next]_vars PROVE LogFollowsVerdict'
    OBVIOUS
  <2>1. ASSUME NEW h \in Handlers, TokenRequest(h) \/ OtherRequest(h)
        PROVE  LogFollowsVerdict'
    BY <2>1 DEF TokenRequest, OtherRequest, RequestArrives, RelayBegins,
                LogFollowsVerdict
  <2>2. ASSUME NEW h \in Handlers, OtherRelayed(h) \/ TokenGranted(h)
        PROVE  LogFollowsVerdict'
    BY <2>2, RelayLogs DEF OtherRelayed, TokenGranted, Relayed
  <2>3. ASSUME NEW h \in Handlers, NEW s \in {"rejected", "none"}, NoToken(h, s)
        PROVE  LogFollowsVerdict'
    BY <2>3, RelayLogs DEF NoToken, NotGranted, Relayed
  <2>4. CASE Abandon \/ ServiceChanges \/ UNCHANGED vars
    BY <2>4 DEF Abandon, ServiceChanges, vars, relayVars, LogFollowsVerdict
  <2> QED
    BY <2>1, <2>2, <2>3, <2>4 DEF Next
<1> QED
  BY <1>1, <1>2, TypeCorrect, PTL DEF Spec
=============================================================================
