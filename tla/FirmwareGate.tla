---------------------------- MODULE FirmwareGate ----------------------------
(***************************************************************************)
(* _handle_firmware_check() in __init__.py with core/firmware.py, the      *)
(* approve button and the firmware entity, for one device: the runtime     *)
(* keeps one checker per device and handlers of different devices touch    *)
(* different checkers.                                                     *)
(*                                                                         *)
(* A poll that must ask upstream suspends in _relay, so several may be in  *)
(* flight and each folds its answer into whatever the checker is by then.  *)
(***************************************************************************)
EXTENDS Naturals

CONSTANTS
    Handlers,       \* bound: polls that may be in flight together
    Replies,        \* bound: the vendor's answers, [status, body] records
    NoReply,        \* None
    BadGateway,     \* the 502 made up here when there is nothing to send
    NotAdded,       \* the entity is not in Home Assistant yet
    MaxRestarts     \* bound: restarts of the runtime

(* A reply's status and what its body turns out to be.                     *)
Reply == [status : Nat, body : {"[]", "blank", "json", "not json"}]

ASSUME ReplyAssumption ==
    /\ Replies \subseteq Reply
    /\ NoReply \notin Replies
    /\ BadGateway \notin Replies \cup {NoReply}

ASSUME RestartAssumption == MaxRestarts \in Nat

VARIABLES
    checker,    \* the FirmwareChecker of the device
    asking,     \* handlers suspended in _relay
    quarantine, \* the configured policy, read at setup
    shown,      \* what the FirmwareUpdate entity last wrote
    served,     \* the last answer a poll got
    vendor,     \* external: what the vendor would answer now
    withheld,   \* history: updates held back and not approved since
    approved,   \* history: updates the user has approved
    restarts

vars == <<checker, asking, quarantine, shown, served, vendor, withheld,
          approved, restarts>>

-----------------------------------------------------------------------------
classify(r) ==
    CASE r.status \in 300..399                   -> "UPDATE_OFFERED"
      [] r.status = 200 /\ r.body = "[]"         -> "NO_UPDATE"
      [] r.status = 200 /\ r.body \in {"json", "not json"}
                                                 -> "UPDATE_OFFERED"
      [] OTHER                                   -> "UNKNOWN"

Updates  == {r \in Replies : classify(r) = "UPDATE_OFFERED"}
Baseline == {r \in Replies : classify(r) = "NO_UPDATE"}

(* last_checked against the interval: never asked (or approve() wants a    *)
(* fresh query), asked less than an interval ago, or due again.            *)
Checked == {"never", "fresh", "due"}

FreshChecker == [cached |-> NoReply, held |-> NoReply,
                 last_checked |-> "never", update_offered |-> FALSE]

\* Mutant of should_query_upstream: the interval never comes round.
AskOnce(c) ==
    c.held = NoReply /\ (c.cached = NoReply \/ c.last_checked = "never")

should_query_upstream(c) ==
    /\ c.held = NoReply
    /\ c.cached = NoReply \/ c.last_checked # "fresh"

\* Mutant of Holds: quarantine engages with nothing safe to answer.
HoldsAnything(c, r) == quarantine /\ classify(r) = "UPDATE_OFFERED"

Holds(c, r) ==
    quarantine /\ classify(r) = "UPDATE_OFFERED" /\ c.cached # NoReply

\* Mutant of Recorded: every answer becomes the cached one.
RecordedCachesAll(c, r) ==
    [cached         |-> r,
     held           |-> IF Holds(c, r) THEN r ELSE c.held,
     last_checked   |-> "fresh",
     update_offered |-> classify(r) = "UPDATE_OFFERED"]

(* record_upstream: the checker it leaves ...                              *)
Recorded(c, r) ==
    [cached         |-> IF classify(r) = "NO_UPDATE" THEN r ELSE c.cached,
     held           |-> IF Holds(c, r) THEN r ELSE c.held,
     last_checked   |-> "fresh",
     update_offered |-> CASE classify(r) = "NO_UPDATE"      -> FALSE
                          [] classify(r) = "UPDATE_OFFERED" -> TRUE
                          [] OTHER                          -> c.update_offered]

\* Mutant of Returned: the held update is sent all the same.
ReturnedAlways(c, r) == r

\* Mutant of Returned: observe mode withholds as well.
ReturnedCached(c, r) ==
    IF classify(r) = "UPDATE_OFFERED" /\ c.cached # NoReply THEN c.cached ELSE r

(* ... and the reply it returns for the device.                            *)
Returned(c, r) == IF Holds(c, r) THEN c.cached ELSE r

approve(c) == [c EXCEPT !.held = NoReply, !.last_checked = "never"]

(* What the entity writes: is_on and held_for_approval.                    *)
Display(c) == [on |-> c.update_offered, held |-> c.held # NoReply]

(* SIGNAL_FIRMWARE reaches the entity once it has been added.              *)
Dispatch == shown' = IF shown = NotAdded THEN NotAdded ELSE Display(checker')

-----------------------------------------------------------------------------
Init ==
    /\ checker = FreshChecker
    /\ asking = {}
    /\ quarantine \in BOOLEAN
    /\ shown = NotAdded
    /\ served = NoReply
    /\ vendor \in Replies
    /\ withheld = {}
    /\ approved = {}
    /\ restarts = 0

PollFromCache ==
    /\ ~should_query_upstream(checker)
    /\ served' = checker.cached
    /\ UNCHANGED <<checker, asking, quarantine, shown, vendor, withheld,
                   approved, restarts>>

PollAsks(h) ==
    /\ h \notin asking
    /\ should_query_upstream(checker)
    /\ asking' = asking \cup {h}
    /\ UNCHANGED <<checker, quarantine, shown, served, vendor, withheld,
                   approved, restarts>>

(* _relay returned None: answer from the cache, if there is one.           *)
RelayFailed(h) ==
    /\ h \in asking
    /\ asking' = asking \ {h}
    /\ served' = IF checker.cached = NoReply THEN BadGateway
                                             ELSE checker.cached
    /\ UNCHANGED <<checker, quarantine, shown, vendor, withheld, approved,
                   restarts>>

RelayAnswered(h) ==
    /\ h \in asking
    /\ asking' = asking \ {h}
    /\ checker' = Recorded(checker, vendor)
    /\ served' = Returned(checker, vendor)
    /\ IF vendor \in Updates THEN Dispatch ELSE UNCHANGED shown
    /\ withheld' = IF Holds(checker, vendor) /\ vendor \notin approved
                   THEN withheld \cup {vendor} ELSE withheld
    /\ UNCHANGED <<quarantine, vendor, approved, restarts>>

(* Telemetry made the device known: its entities are added and written.    *)
EntityAdded ==
    /\ shown = NotAdded
    /\ shown' = Display(checker)
    /\ UNCHANGED <<checker, asking, quarantine, served, vendor, withheld,
                   approved, restarts>>

\* Mutant of Approve: the button does not announce what it did.
ApproveSilently ==
    /\ shown # NotAdded
    /\ checker' = approve(checker)
    /\ approved' = approved \cup ({checker.held} \ {NoReply})
    /\ withheld' = withheld \ {checker.held}
    /\ UNCHANGED <<asking, quarantine, shown, served, vendor, restarts>>

(* ApproveFirmwareUpdate.async_press.                                      *)
Approve ==
    /\ shown # NotAdded
    /\ checker' = approve(checker)
    /\ Dispatch
    /\ approved' = approved \cup ({checker.held} \ {NoReply})
    /\ withheld' = withheld \ {checker.held}
    /\ UNCHANGED <<asking, quarantine, served, vendor, restarts>>

IntervalPasses ==
    /\ checker.last_checked = "fresh"
    /\ checker' = [checker EXCEPT !.last_checked = "due"]
    /\ UNCHANGED <<asking, quarantine, shown, served, vendor, withheld,
                   approved, restarts>>

(* External: the vendor publishes, withdraws, replaces, or breaks.         *)
VendorChanges ==
    /\ vendor' \in Replies \ {vendor}
    /\ UNCHANGED <<checker, asking, quarantine, shown, served, withheld,
                   approved, restarts>>

(* A restart, or the reload a reconfigure makes: no checker is stored.     *)
Restart ==
    /\ restarts < MaxRestarts
    /\ restarts' = restarts + 1
    /\ checker' = FreshChecker
    /\ asking' = {}
    /\ shown' = NotAdded
    /\ quarantine' \in BOOLEAN
    /\ withheld' = IF quarantine' THEN withheld ELSE {}
    /\ UNCHANGED <<served, vendor, approved>>

Next ==
    \/ PollFromCache
    \/ \E h \in Handlers : PollAsks(h) \/ RelayFailed(h) \/ RelayAnswered(h)
    \/ EntityAdded
    \/ Approve
    \/ IntervalPasses
    \/ VendorChanges
    \/ Restart

(* The device polls for ever, every relay ends under its timeouts, time    *)
(* passes, the device reports telemetry, and the vendor is not gone for    *)
(* good.                                                                   *)
Fairness ==
    /\ WF_vars(PollFromCache)
    /\ WF_vars(\E h \in Handlers : PollAsks(h))
    /\ \A h \in Handlers : WF_vars(RelayFailed(h) \/ RelayAnswered(h))
    /\ SF_vars(\E h \in Handlers : RelayAnswered(h))
    /\ WF_vars(IntervalPasses)
    /\ WF_vars(EntityAdded)

Spec == Init /\ [][Next]_vars

FairSpec == Spec /\ Fairness

-----------------------------------------------------------------------------
(* Only a reply that says "no update" is ever cached, and only an update   *)
(* is ever held.                                                           *)
TypeOK ==
    /\ checker \in [cached : Baseline \cup {NoReply},
                    held : Updates \cup {NoReply},
                    last_checked : Checked,
                    update_offered : BOOLEAN]
    /\ asking \subseteq Handlers
    /\ quarantine \in BOOLEAN
    /\ shown \in [on : BOOLEAN, held : BOOLEAN] \cup {NotAdded}
    /\ served \in Replies \cup {NoReply, BadGateway}
    /\ vendor \in Replies
    /\ withheld \subseteq Updates
    /\ approved \subseteq Updates
    /\ restarts \in 0..MaxRestarts

(* Whenever the handler answers without asking, there is a known "no       *)
(* update" reply to answer with: `served' at __init__.py:353-356 is never  *)
(* None, and what a held update is replaced by is never an update.         *)
CacheAnswerIsSafe ==
    ~should_query_upstream(checker) => checker.cached \in Baseline

(* Under quarantine an update that was once held does not reach the device *)
(* before the user approves it, however polls in flight, refreshes and     *)
(* new offers overlap -- within one run of the integration.                *)
HeldStaysBack == restarts = 0 => served \notin withheld

(* The same promise as the user reads it: "Hold for my approval keeps an   *)
(* offered update back until you approve it" (docs/setup.md:33), with no   *)
(* exception for a restart.                                                *)
HeldUntilApproved == served \notin withheld

(* The user is never shown less than the checker knows, through polls,     *)
(* presses and restarts: an offer lights the entity, and held_for_approval *)
(* is exact, so there is an approve button to press exactly when something *)
(* is held.  Nothing is said of the other direction: an offer the vendor   *)
(* has withdrawn is shown until the next write.                            *)
EntityMissesNothing ==
    shown # NotAdded =>
        /\ checker.update_offered => shown.on
        /\ shown.held <=> checker.held # NoReply

(* approve() releases a held update "so the next check can deliver it"     *)
(* (core/firmware.py:132): once approved, an answer that offers the update *)
(* passes it on.                                                           *)
ApprovedIsDelivered ==
    [][\A h \in Handlers :
         RelayAnswered(h) /\ vendor \in approved => served' = vendor]_vars

(* An offer the vendor keeps making ends up in front of the user, in       *)
(* either mode, as an alert or as something to approve.                    *)
LastingOfferIsAnnounced ==
    <>[](vendor \in Updates) =>
        <>[](shown # NotAdded /\ (shown.on \/ shown.held))

(* Observe mode withholds nothing: an update offered for good reaches the  *)
(* device, again at every interval.                                        *)
ObserveDelivers ==
    \A u \in Updates :
        <>[](vendor = u /\ ~quarantine) => []<>(served = u)
=============================================================================
