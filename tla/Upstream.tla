------------------------------ MODULE Upstream ------------------------------
(***************************************************************************)
(* core/upstream.py: where UpstreamAddress.target() sends a request.  The  *)
(* vendor's name is looked up out of band, because the redirect that       *)
(* brings the device here may answer for this host too, and the answer is  *)
(* reused for an hour.  Each handler awaits a lookup of its own, so several*)
(* may be in progress and end in any order.                                *)
(*                                                                         *)
(* Time is kept as ages, in units in which a lookup takes up to            *)
(* LookupTimeout: how long ago an answer was asked for, how long ago the   *)
(* vendor left an address.                                                 *)
(***************************************************************************)
EXTENDS Integers

CONSTANTS
    Handlers,       \* bound: requests in progress at once
    Addresses,      \* public addresses the vendor may have
    Local,          \* an address of this network: the redirect's answer
    None,           \* model value: no address
    Idle,           \* model value: not looking up
    Ttl,            \* how long an answer is reused
    LookupTimeout   \* how long one is waited for

ASSUME AddressAssumption ==
    /\ Local \notin Addresses
    /\ None \notin Addresses \cup {Local}
    /\ Idle \notin Nat

ASSUME TimeAssumption ==
    /\ LookupTimeout \in Nat
    /\ Ttl \in Nat
    /\ LookupTimeout < Ttl

VARIABLES
    configured, \* the override, or an upstream given as an address, or None
    cached,     \* _cached
    age,        \* how long before now _looked_up is, up to Ttl
    asking,     \* asking[h]: how long h has waited for its lookup, or Idle
    target,     \* target[h]: what h last got from target(); None is an error
    vendor,     \* external: the vendor's address
    left,       \* external: how long ago the vendor left an address, up to
                \* Ttl; 0 for the one it has.  Ttl for one it never had.
    resolver    \* external: what the nameserver does

cache == <<cached, age>>
world == <<vendor, left, resolver>>
vars == <<configured, cached, age, asking, target, vendor, left, resolver>>

Init ==
    /\ configured \in Addresses \cup {Local, None}
    /\ cached = None
    /\ age = Ttl
    /\ asking = [h \in Handlers |-> Idle]
    /\ target = [h \in Handlers |-> None]
    /\ vendor \in Addresses
    /\ left = [a \in Addresses |-> IF a = vendor THEN 0 ELSE Ttl]
    /\ resolver = "answers"

-----------------------------------------------------------------------------
(* An override or an upstream given as an address is never looked up, and  *)
(* trusted even when it is on this network.                                *)
ConfiguredTarget(h) ==
    /\ asking[h] = Idle
    /\ configured # None
    /\ target' = [target EXCEPT ![h] = configured]
    /\ UNCHANGED <<configured, cache, asking, world>>

\* Mutant of Fresh: an answer is reused for ever.
FreshForEver == cached # None

Fresh == cached # None /\ age < Ttl

CachedTarget(h) ==
    /\ asking[h] = Idle
    /\ configured = None
    /\ Fresh
    /\ target' = [target EXCEPT ![h] = cached]
    /\ UNCHANGED <<configured, cache, asking, world>>

LookupBegins(h) ==
    /\ asking[h] = Idle
    /\ configured = None
    /\ ~Fresh
    /\ asking' = [asking EXCEPT ![h] = 0]
    /\ UNCHANGED <<configured, cache, target, world>>

LookupEnds(h, address) ==
    /\ asking' = [asking EXCEPT ![h] = Idle]
    /\ target' = [target EXCEPT ![h] = address]
    /\ UNCHANGED <<configured, world>>

\* Mutant of LookupAnswers: the answer is taken to be as old as its arrival.
LookupAnswersNow(h) ==
    /\ asking[h] # Idle
    /\ resolver = "answers"
    /\ \E a \in Addresses :
         /\ left[a] <= asking[h]
         /\ LookupEnds(h, a)
         /\ cached' = a
         /\ age' = 0

(* The answer is an address the vendor had at some moment of the lookup,   *)
(* and is remembered as of the moment the request began.  Whichever lookup *)
(* ends last is the one that is remembered.                                *)
LookupAnswers(h) ==
    /\ asking[h] # Idle
    /\ resolver = "answers"
    /\ \E a \in Addresses :
         /\ left[a] <= asking[h]
         /\ LookupEnds(h, a)
         /\ cached' = a
         /\ age' = asking[h]

\* Mutant of LookupLoops: the answer is remembered before it is refused.
LookupLoopsCached(h) ==
    /\ asking[h] # Idle
    /\ resolver = "redirected"
    /\ LookupEnds(h, None)
    /\ cached' = Local
    /\ age' = asking[h]

(* UpstreamLoop: the redirect answered.  An older answer is not used.      *)
LookupLoops(h) ==
    /\ asking[h] # Idle
    /\ resolver = "redirected"
    /\ LookupEnds(h, None)
    /\ UNCHANGED cache

(* An error or the timeout: the last good answer will do, if there is one. *)
LookupFails(h) ==
    /\ asking[h] # Idle
    /\ asking[h] = LookupTimeout \/ resolver = "fails"
    /\ LookupEnds(h, cached)
    /\ UNCHANGED cache

-----------------------------------------------------------------------------
Older(time, limit) == IF time < limit THEN time + 1 ELSE time

(* Time passes; a lookup at its timeout ends first.                        *)
Tick ==
    /\ \A h \in Handlers : asking[h] # LookupTimeout
    /\ age' = Older(age, Ttl)
    /\ asking' = [h \in Handlers |->
                    IF asking[h] = Idle THEN Idle ELSE asking[h] + 1]
    /\ left' = [a \in Addresses |-> IF a = vendor THEN 0 ELSE Older(left[a], Ttl)]
    /\ UNCHANGED <<configured, cached, target, vendor, resolver>>

(* External: the vendor moves.                                             *)
VendorMoves ==
    /\ vendor' \in Addresses \ {vendor}
    /\ left' = [left EXCEPT ![vendor'] = 0]
    /\ UNCHANGED <<configured, cache, asking, target, resolver>>

(* External: the nameserver begins to answer, to fail, to answer with the  *)
(* redirect, or to hang.                                                   *)
ResolverChanges ==
    /\ resolver' \in {"answers", "fails", "redirected", "hangs"} \ {resolver}
    /\ UNCHANGED <<configured, cache, asking, target, vendor, left>>

Next ==
    \/ \E h \in Handlers :
         \/ ConfiguredTarget(h)
         \/ CachedTarget(h)
         \/ LookupBegins(h)
         \/ LookupAnswers(h)
         \/ LookupLoops(h)
         \/ LookupFails(h)
    \/ Tick
    \/ VendorMoves
    \/ ResolverChanges

(* Requests keep coming (the device reports every few seconds), time       *)
(* passes, and a nameserver that answers is not too late every time.       *)
Fairness ==
    /\ WF_vars(Tick)
    /\ \A h \in Handlers :
         /\ WF_vars(CachedTarget(h) \/ LookupBegins(h))
         /\ SF_vars(LookupAnswers(h))

Spec == Init /\ [][Next]_vars

FairSpec == Spec /\ Fairness

-----------------------------------------------------------------------------
Ages == 0 .. Ttl

TypeOK ==
    /\ configured \in Addresses \cup {Local, None}
    /\ cached \in Addresses \cup {None}
    /\ age \in Ages
    /\ asking \in [Handlers -> 0 .. LookupTimeout \cup {Idle}]
    /\ target \in [Handlers -> Addresses \cup {Local, None}]
    /\ vendor \in Addresses
    /\ left \in [Addresses -> Ages]
    /\ resolver \in {"answers", "fails", "redirected", "hangs"}

(* A request is never relayed to this network, into our own listener,      *)
(* unless the user configured an address of this network: not by an answer *)
(* and not by an answer remembered (upstream.py, _refuse_if_local).        *)
NeverLoops == \A h \in Handlers : target[h] = Local => configured = Local

(* What is remembered was the vendor's address when it says it was looked  *)
(* up, or later, in whatever order overlapping lookups ended.  So a        *)
(* request that is not looked up goes where the vendor was within the last *)
(* Ttl (upstream.py, _looked_up_address).                                  *)
CacheIsTrue == Fresh => left[cached] <= age

(* When the vendor stays at one address and the nameserver answers, every  *)
(* request ends up going to that address, whatever was remembered before.  *)
FindsTheVendor ==
    \A a \in Addresses :
      <>[](configured = None /\ vendor = a /\ resolver = "answers")
        => <>[](cached = a /\ \A h \in Handlers : target[h] = a)
=============================================================================
