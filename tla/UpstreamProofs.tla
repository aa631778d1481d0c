--------------------------- MODULE UpstreamProofs ---------------------------
(***************************************************************************)
(* For any number of handlers, any addresses and any timings: no request   *)
(* is relayed into our own listener, and the remembered address is true    *)
(* of the time it is remembered for.                                       *)
(*                                                                         *)
(* Both invariants need only the types beside them: an answer is checked   *)
(* before it is remembered (so `cached' is never Local), and it is         *)
(* remembered as of the moment its lookup began.                           *)
(***************************************************************************)
EXTENDS Upstream, TLAPS

LEMMA InitType == Init => TypeOK
BY TimeAssumption, AddressAssumption DEF Init, TypeOK, Ages

LEMMA EndType ==
    ASSUME TypeOK, NEW h \in Handlers, NEW a \in Addresses \cup {None},
           LookupEnds(h, a)
    PROVE  /\ asking' \in [Handlers -> 0 .. LookupTimeout \cup {Idle}]
           /\ target' \in [Handlers -> Addresses \cup {Local, None}]
           /\ UNCHANGED <<configured, world>>
BY DEF TypeOK, LookupEnds

LEMMA StepType == TypeOK /\ [Next]_vars => TypeOK'
<1> SUFFICES ASSUME TypeOK, [Next]_vars PROVE TypeOK'
  OBVIOUS
<1> USE TimeAssumption, AddressAssumption
<1>1. ASSUME NEW h \in Handlers, ConfiguredTarget(h) PROVE TypeOK'
  BY <1>1 DEF ConfiguredTarget, TypeOK, cache, world
<1>2. ASSUME NEW h \in Handlers, CachedTarget(h) PROVE TypeOK'
  BY <1>2 DEF CachedTarget, TypeOK, cache, world
<1>3. ASSUME NEW h \in Handlers, LookupBegins(h) PROVE TypeOK'
  BY <1>3 DEF LookupBegins, TypeOK, cache, world
<1>4. ASSUME NEW h \in Handlers, LookupAnswers(h) PROVE TypeOK'
  <2>1. PICK a \in Addresses : LookupEnds(h, a) /\ cached' = a /\ age' = asking[h]
    BY <1>4 DEF LookupAnswers
  <2>2. asking[h] \in 0 .. LookupTimeout
    BY <1>4 DEF LookupAnswers, TypeOK
  <2>3. age' \in Ages
    BY <2>1, <2>2 DEF Ages
  <2> QED
    BY <2>1, <2>3, EndType DEF TypeOK, world
<1>5. ASSUME NEW h \in Handlers, LookupLoops(h) PROVE TypeOK'
  BY <1>5, EndType DEF LookupLoops, TypeOK, cache, world
<1>6. ASSUME NEW h \in Handlers, LookupFails(h) PROVE TypeOK'
  <2>1. LookupEnds(h, cached) /\ cached \in Addresses \cup {None}
    BY <1>6 DEF LookupFails, TypeOK
  <2> QED
    BY <1>6, <2>1, EndType DEF LookupFails, TypeOK, cache, world
<1>7. CASE Tick
  <2>1. \A t \in Ages : Older(t, Ttl) \in Ages
    BY DEF Ages, Older
  <2>2. \A h \in Handlers : asking[h] # Idle => asking[h] + 1 \in 0 .. LookupTimeout
    BY <1>7 DEF Tick, TypeOK
  <2>3. asking' \in [Handlers -> 0 .. LookupTimeout \cup {Idle}]
    BY <1>7, <2>2 DEF Tick
  <2>4. left' \in [Addresses -> Ages]
    BY <1>7, <2>1 DEF Tick, TypeOK, Ages
  <2> QED
    BY <1>7, <2>1, <2>3, <2>4 DEF Tick, TypeOK
<1>8. CASE VendorMoves
  BY <1>8 DEF VendorMoves, TypeOK, cache, Ages
<1>9. CASE ResolverChanges
  BY <1>9 DEF ResolverChanges, TypeOK, cache
<1>10. CASE UNCHANGED vars
  BY <1>10 DEF vars, TypeOK
<1> QED
  BY <1>1, <1>2, <1>3, <1>4, <1>5, <1>6, <1>7, <1>8, <1>9, <1>10 DEF Next

(* Type correctness: what is remembered is always a public address.        *)
THEOREM TypeCorrect == Spec => []TypeOK
BY InitType, StepType, PTL DEF Spec

-----------------------------------------------------------------------------
LEMMA StepLoops == TypeOK /\ NeverLoops /\ [Next]_vars => NeverLoops'
<1> SUFFICES ASSUME TypeOK, NeverLoops, [Next]_vars PROVE NeverLoops'
  OBVIOUS
<1>1. \A h \in Handlers, a \in Addresses \cup {None} :
        LookupEnds(h, a) => NeverLoops'
  BY AddressAssumption DEF LookupEnds, NeverLoops, TypeOK
<1>2. ASSUME NEW h \in Handlers, ConfiguredTarget(h) PROVE NeverLoops'
  BY <1>2 DEF ConfiguredTarget, NeverLoops, TypeOK
<1>3. ASSUME NEW h \in Handlers, CachedTarget(h) PROVE NeverLoops'
  BY <1>3, AddressAssumption DEF CachedTarget, NeverLoops, TypeOK
<1>4. ASSUME NEW h \in Handlers, LookupBegins(h) PROVE NeverLoops'
  BY <1>4 DEF LookupBegins, NeverLoops
<1>5. ASSUME NEW h \in Handlers, LookupAnswers(h) PROVE NeverLoops'
  BY <1>1, <1>5 DEF LookupAnswers
<1>6. ASSUME NEW h \in Handlers, LookupLoops(h) PROVE NeverLoops'
  BY <1>1, <1>6 DEF LookupLoops
<1>7. ASSUME NEW h \in Handlers, LookupFails(h) PROVE NeverLoops'
  BY <1>1, <1>7 DEF LookupFails, TypeOK
<1>8. CASE Tick \/ VendorMoves \/ ResolverChanges \/ UNCHANGED vars
  BY <1>8 DEF Tick, VendorMoves, ResolverChanges, vars, NeverLoops
<1> QED
  BY <1>2, <1>3, <1>4, <1>5, <1>6, <1>7, <1>8 DEF Next

(* No request goes to this network unless the user said so.                *)
THEOREM LoopNever == Spec => []NeverLoops
<1>1. Init => NeverLoops
  BY AddressAssumption DEF Init, NeverLoops
<1> QED
  BY <1>1, TypeCorrect, StepLoops, PTL DEF Spec

-----------------------------------------------------------------------------
LEMMA StepCache == TypeOK /\ CacheIsTrue /\ [Next]_vars => CacheIsTrue'
<1> SUFFICES ASSUME TypeOK, CacheIsTrue, [Next]_vars PROVE CacheIsTrue'
  OBVIOUS
<1>1. UNCHANGED <<cached, age, left>> => CacheIsTrue'
  BY DEF CacheIsTrue, Fresh
<1>2. ASSUME NEW h \in Handlers, LookupAnswers(h) PROVE CacheIsTrue'
  BY <1>2 DEF LookupAnswers, LookupEnds, world, CacheIsTrue
<1>3. ASSUME NEW h \in Handlers,
             \/ ConfiguredTarget(h) \/ CachedTarget(h) \/ LookupBegins(h)
             \/ LookupLoops(h) \/ LookupFails(h)
      PROVE  CacheIsTrue'
  BY <1>1, <1>3 DEF ConfiguredTarget, CachedTarget, LookupBegins, LookupLoops,
                    LookupFails, LookupEnds, cache, world
<1>4. CASE Tick
  <2> SUFFICES ASSUME Fresh' PROVE left'[cached'] <= age'
    BY DEF CacheIsTrue
  <2>1. cached' = cached /\ cached \in Addresses /\ age \in Ages /\ age' = Older(age, Ttl)
    BY <1>4 DEF Tick, Fresh, TypeOK
  <2>2. age < Ttl /\ age' = age + 1
    BY <2>1, TimeAssumption DEF Older, Fresh, Ages
  <2>3. left[cached] <= age
    BY <2>1, <2>2 DEF Fresh, CacheIsTrue
  <2>4. left'[cached] = IF cached = vendor THEN 0 ELSE Older(left[cached], Ttl)
    BY <1>4, <2>1 DEF Tick
  <2>5. left[cached] \in Ages
    BY <2>1 DEF TypeOK
  <2> QED
    BY <2>1, <2>2, <2>3, <2>4, <2>5, TimeAssumption DEF Older, Ages
<1>5. CASE VendorMoves
  <2> SUFFICES ASSUME Fresh' PROVE left'[cached'] <= age'
    BY DEF CacheIsTrue
  <2>1. cached' = cached /\ age' = age /\ cached \in Addresses
    BY <1>5 DEF VendorMoves, cache, Fresh, TypeOK
  <2>2. left[cached] <= age
    BY <2>1 DEF Fresh, CacheIsTrue
  <2>3. left'[cached] = IF cached = vendor' THEN 0 ELSE left[cached]
    BY <1>5, <2>1 DEF VendorMoves, TypeOK
  <2> QED
    BY <2>1, <2>2, <2>3, TimeAssumption DEF TypeOK, Ages
<1>6. CASE ResolverChanges \/ UNCHANGED vars
  BY <1>1, <1>6 DEF ResolverChanges, vars, cache
<1> QED
  BY <1>2, <1>3, <1>4, <1>5, <1>6 DEF Next

(* However lookups overlap, an address that is reused was the vendor's no  *)
(* longer ago than the cache believes.                                     *)
THEOREM CacheAlwaysTrue == Spec => []CacheIsTrue
<1>1. Init => CacheIsTrue
  BY DEF Init, CacheIsTrue, Fresh
<1> QED
  BY <1>1, TypeCorrect, StepCache, PTL DEF Spec
=============================================================================
