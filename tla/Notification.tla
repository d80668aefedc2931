---------------------------- MODULE Notification ----------------------------
(***************************************************************************)
(* The delivery of one notification: Notification.deliver, the asyncio     *)
(* tasks it gathers, the image grab it starts, and its fallbacks           *)
(* (src/custom_components/supernotify/notification.py).                    *)
(*                                                                         *)
(* A step runs from one await to the next, so steps of different tasks and *)
(* of Home Assistant interleave exactly where the event loop may switch.   *)
(* The module starts after Notification.initialize, whose decisions are    *)
(* the fields of "request"; which targets, conditions and priorities a     *)
(* delivery has is data, seen here only through what it decides: that a    *)
(* call is skipped, fails before it sends, or sends so many envelopes.     *)
(***************************************************************************)
EXTENDS Integers, FiniteSetsExt

CONSTANTS
    Deliveries,           \* names of the configured deliveries
    Transports,           \* names of the transports
    TransportOf,          \* the transport of each delivery
    SnapshotTransports,   \* transports with TransportFeature.SNAPSHOT_IMAGE
    FallbackDefault,      \* deliveries listed at startup for selection "fallback"
    FallbackOnError,      \* deliveries listed at startup for "fallback_on_error"
    Switchable,           \* deliveries and transports a user may switch on and off
    MaxEnvelopes,         \* bound on the envelopes of one call of a delivery
    MaxErrors,            \* bound on the failed service calls of one envelope
    FaultyTemplates,      \* whether conditions and templates may fail to evaluate
    NoDelivery            \* not a delivery

ASSUME NotificationAssumption ==
    /\ IsFiniteSet(Deliveries)
    /\ TransportOf \in [Deliveries -> Transports]
    /\ SnapshotTransports \subseteq Transports
    /\ FallbackDefault \subseteq Deliveries
    /\ FallbackOnError \subseteq Deliveries
    /\ MaxEnvelopes \in Nat
    /\ MaxErrors \in Nat
    /\ FaultyTemplates \in BOOLEAN
    /\ NoDelivery \notin Deliveries

VARIABLES
    request,              \* what initialize() decided, fixed from then on
    enabled,              \* deliveries that are enabled now
    transportsOn,         \* transports that are enabled now
    phase,                \* where the coroutine deliver() stands
    task,                 \* where the coroutine call_transport() stands, by delivery
    left,                 \* envelopes of that call not yet sent, by delivery
    image,                \* the image grab task
    pending,              \* fallbacks the running loop has still to call
    current,              \* the fallback being called
    ledger                \* the counters and outcomes of the notification

registries == <<enabled, transportsOn>>
vars == <<request, registries, phase, task, left, image, pending, current, ledger>>

-----------------------------------------------------------------------------
(* What a notification is asked to do, and what it records.                *)

Suppressions == {"NONE", "SNOOZED", "NO_SCENARIO"}

\* A notification no required scenario lets through has nothing selected.
Requests ==
    {r \in [selected     : SUBSET Deliveries,
            camera       : BOOLEAN,
            force_resend : BOOLEAN,
            suppression  : Suppressions] :
        r.suppression = "NO_SCENARIO" => r.selected = {}}

\* What one envelope shows when its transport has returned or raised.
EnvelopeResults == [delivered : {0, 1}, error_count : 0..MaxErrors]

\* How a delivery's envelopes, or the delivery as a whole, ended: EnvelopeOutcome.
EnvelopeOutcomes == {"SUCCESS", "ERROR", "SUPPRESSED", "SKIPPED"}

Ledgers ==
    [delivered  : Nat, error_count : Nat, skipped  : Nat, failed : Nat,
     suppressed : Nat, fallback    : Nat, dupe     : BOOLEAN,
     deliveries : [Deliveries -> [EnvelopeOutcomes -> Nat]]]

NewLedger ==
    [delivered  |-> 0, error_count |-> 0, skipped |-> 0, failed |-> 0,
     suppressed |-> 0, fallback    |-> 0, dupe    |-> FALSE,
     deliveries |-> [d \in Deliveries |-> [o \in EnvelopeOutcomes |-> 0]]]

\* The list of its delivery that record_result puts an envelope in.
OutcomeOf(e) == IF e.delivered = 1 THEN "SUCCESS"
                ELSE IF e.error_count > 0 THEN "ERROR" ELSE "SUPPRESSED"

Count(condition) == IF condition THEN 1 ELSE 0

\* Mutant: any failed service call makes a failure of an envelope that got through.
AddEnvelopeEagerly(L, d, e) ==
    [L EXCEPT
        !.delivered   = @ + e.delivered,
        !.error_count = @ + e.error_count,
        !.failed      = @ + Count(e.error_count > 0),
        !.suppressed  = @ + Count(OutcomeOf(e) = "SUPPRESSED"),
        !.deliveries[d][OutcomeOf(e)] = @ + 1]

\* record_result for an envelope that was sent.
AddEnvelope(L, d, e) ==
    [delivered   |-> L.delivered + e.delivered,
     error_count |-> L.error_count + e.error_count,
     skipped     |-> L.skipped,
     failed      |-> L.failed + Count(OutcomeOf(e) = "ERROR"),
     suppressed  |-> L.suppressed + Count(OutcomeOf(e) = "SUPPRESSED"),
     fallback    |-> L.fallback,
     dupe        |-> L.dupe,
     deliveries  |-> [L.deliveries EXCEPT ![d][OutcomeOf(e)] = @ + 1]]

\* record_result for k envelopes the dupe checker held back.
AddDupes(L, d, k) ==
    [delivered   |-> L.delivered,
     error_count |-> L.error_count,
     skipped     |-> L.skipped,
     failed      |-> L.failed,
     suppressed  |-> L.suppressed + k,
     fallback    |-> L.fallback,
     dupe        |-> L.dupe \/ k > 0,
     deliveries  |-> [L.deliveries EXCEPT ![d]["SUPPRESSED"] = @ + k]]

\* record_result without an envelope, for each delivery of a set.
AddSkips(L, S) ==
    [delivered   |-> L.delivered,
     error_count |-> L.error_count,
     skipped     |-> L.skipped + Cardinality(S),
     failed      |-> L.failed,
     suppressed  |-> L.suppressed,
     fallback    |-> L.fallback,
     dupe        |-> L.dupe,
     deliveries  |-> [d \in Deliveries |->
                        [o \in EnvelopeOutcomes |->
                            IF d \in S /\ o = "SKIPPED" THEN 1 ELSE L.deliveries[d][o]]]]

\* Notification.outcome(): the first rule that applies
Outcome(L) ==
    IF L.error_count > 0    THEN "ERROR"
    ELSE IF L.dupe          THEN "DUPE"
    ELSE IF L.delivered = 0 THEN "NO_DELIVERY"
    ELSE IF L.fallback > 0  THEN "FALLBACK_DELIVERY"
    ELSE IF L.skipped > 0   THEN "PARTIAL_DELIVERY"
    ELSE "SUCCESS"

-----------------------------------------------------------------------------
(* What the state of the coroutines says.                                  *)

Phases == {"initialized", "immediate", "image", "deferred",
           "default", "on_error", "finished", "raised"}
FallbackPhases == {"default", "on_error"}
Ended == phase \in {"finished", "raised"}

TaskStates == {"none", "ready", "sending", "done", "raised"}
ImageStates == {"none", "running", "done", "failed", "cancelled"}

\* Deliveries whose transport wants the snapshot wait for it, when there is one.
Deferred ==
    {d \in request.selected : request.camera /\ TransportOf[d] \in SnapshotTransports}
Immediate == request.selected \ Deferred

\* Mutant: gather() without return_exceptions returns at the first exception.
SettledAtFirstException(S) ==
    \/ \A d \in S : task[d] \in {"done", "raised"}
    \/ \E d \in S : task[d] = "raised"

\* Mutant: wait for the first of the tasks only.
SettledAtFirst(S) == S = {} \/ \E d \in S : task[d] \in {"done", "raised"}

\* gather(return_exceptions=True) waits for every task, however it ended.
Settled(S) == \A d \in S : task[d] \in {"done", "raised"}

\* The fallbacks of a list that are enabled and were not selected.
Fallbacks(S) == (S \cap enabled) \ request.selected

\* Mutant: the deliveries made are not looked at.
NothingWrong(L) == L.failed = 0 /\ ~L.dupe

\* Nothing reached anyone and nothing failed or was a duplicate.
NothingSaid(L) == L.delivered = 0 /\ L.failed = 0 /\ ~L.dupe

\* Something failed and nothing reached anyone.
OnlyFailed(L) == L.delivered = 0 /\ L.failed > 0

-----------------------------------------------------------------------------
Init ==
    /\ request \in Requests
    /\ enabled \in {D \in SUBSET Deliveries : Deliveries \ Switchable \subseteq D}
    /\ transportsOn \in {T \in SUBSET Transports : Transports \ Switchable \subseteq T}
    /\ phase = "initialized"
    /\ task = [d \in Deliveries |-> "none"]
    /\ left = [d \in Deliveries |-> 0]
    /\ image = "none"
    /\ pending = {}
    /\ current = NoDelivery
    /\ ledger = NewLedger

\* deliver() of a snoozed or suppressed notification records and returns.
DeliverSuppressed ==
    /\ phase = "initialized"
    /\ request.suppression # "NONE"
    /\ ledger' = AddSkips(ledger, request.selected)
    /\ phase' = "finished"
    /\ UNCHANGED <<request, registries, task, left, image, pending, current>>

\* deliver() starts the image grab and gathers the immediate deliveries.
DeliverImmediate ==
    /\ phase = "initialized"
    /\ request.suppression = "NONE"
    /\ phase' = "immediate"
    /\ image' = IF Deferred = {} THEN "none" ELSE "running"
    /\ task' = [d \in Deliveries |-> IF d \in Immediate THEN "ready" ELSE task[d]]
    /\ UNCHANGED <<request, registries, left, pending, current, ledger>>

\* The checks of call_transport, and what targets and envelopes it makes.  A
\* transport or a delivery that is off always skips; else the priority, the
\* conditions or the targets may still skip it, or a template may raise.
CallOutcomes(d) ==
    IF TransportOf[d] \notin transportsOn \/ d \notin enabled
    THEN {"skip"}
    ELSE {"skip", "send"} \cup (IF FaultyTemplates THEN {"raise"} ELSE {})

SkipCall(d) ==
    /\ task[d] = "ready"
    /\ "skip" \in CallOutcomes(d)
    /\ ledger' = AddSkips(ledger, {d})
    /\ task' = [task EXCEPT ![d] = "done"]
    /\ UNCHANGED <<request, registries, phase, left, image, pending, current>>

\* The handler at line 513 uses delivery_exceptions, which no one initialises,
\* so it raises too: the task ends with an exception and records nothing.
RaiseInCall(d) ==
    /\ task[d] = "ready"
    /\ "raise" \in CallOutcomes(d)
    /\ task' = [task EXCEPT ![d] = "raised"]
    /\ UNCHANGED <<request, registries, phase, left, image, pending, current, ledger>>

\* Mutant: one envelope too many is taken off.
ContinueWithOneLess(d, n, k) ==
    /\ request.force_resend => k = 0
    /\ left' = [left EXCEPT ![d] = n - k - 1]
    /\ task' = [task EXCEPT ![d] = IF n = k THEN "done" ELSE "sending"]

\* Up to the next envelope that is no duplicate, or to the end, nothing awaits.
ContinueWith(d, n, k) ==
    /\ request.force_resend => k = 0
    /\ left' = [left EXCEPT ![d] = n - k]
    /\ task' = [task EXCEPT ![d] = IF n = k THEN "done" ELSE "sending"]

\* The call makes n envelopes; the first k of them are duplicates.
StartCall(d) ==
    /\ task[d] = "ready"
    /\ "send" \in CallOutcomes(d)
    /\ \E n \in 1..MaxEnvelopes : \E k \in 0..n :
        /\ ContinueWith(d, n, k)
        /\ ledger' = AddDupes(ledger, d, k)
    /\ UNCHANGED <<request, registries, phase, image, pending, current>>

\* transport.deliver returns or raises; the next k envelopes are duplicates.
EnvelopeSent(d) ==
    /\ task[d] = "sending"
    /\ \E e \in EnvelopeResults : \E k \in 0..(left[d] - 1) :
        /\ ContinueWith(d, left[d] - 1, k)
        /\ ledger' = AddDupes(AddEnvelope(ledger, d, e), d, k)
    /\ UNCHANGED <<request, registries, phase, image, pending, current>>

BeginCall(d) == SkipCall(d) \/ RaiseInCall(d) \/ StartCall(d)
CallTransport(d) == BeginCall(d) \/ EnvelopeSent(d)

-----------------------------------------------------------------------------
(* The image grab.                                                         *)

GrabEnds ==
    /\ image = "running"
    /\ image' \in {"done", "failed"}
    /\ UNCHANGED <<request, registries, phase, task, left, pending, current, ledger>>

\* Mutant: the timeout does not cancel the grab, and is waited for again.
GrabOutlivesTimeout ==
    /\ phase = "image"
    /\ image = "running"
    /\ UNCHANGED vars

\* asyncio.timeout(30) cancels the task it is waiting for.
GrabTimesOut ==
    /\ phase = "image"
    /\ image = "running"
    /\ image' = "cancelled"
    /\ UNCHANGED <<request, registries, phase, task, left, pending, current, ledger>>

WaitForImage ==
    /\ phase = "immediate"
    /\ Settled(Immediate)
    /\ Deferred # {}
    /\ phase' = "image"
    /\ UNCHANGED <<request, registries, task, left, image, pending, current, ledger>>

\* Mutant: the deferred deliveries do not wait for the grab.
DeliverDeferredAtOnce ==
    /\ phase = "image"
    /\ phase' = "deferred"
    /\ task' = [d \in Deliveries |-> IF d \in Deferred THEN "ready" ELSE task[d]]
    /\ UNCHANGED <<request, registries, left, image, pending, current, ledger>>

DeliverDeferred ==
    /\ phase = "image"
    /\ image # "running"
    /\ phase' = "deferred"
    /\ task' = [d \in Deliveries |-> IF d \in Deferred THEN "ready" ELSE task[d]]
    /\ UNCHANGED <<request, registries, left, image, pending, current, ledger>>

-----------------------------------------------------------------------------
(* The fallbacks, called one after the other in the coroutine of deliver().*)

\* The last gather of selected deliveries is over.
SelectedSettled ==
    \/ phase = "immediate" /\ Settled(Immediate) /\ Deferred = {}
    \/ phase = "deferred" /\ Settled(Deferred)

\* deliver() reads the list of enabled fallbacks once, as its loop starts.
Turn(next, fallbacks) ==
    /\ phase' = next
    /\ pending' = fallbacks
    /\ UNCHANGED <<request, registries, task, left, image, current, ledger>>

TurnToDefault ==
    /\ SelectedSettled
    /\ NothingSaid(ledger)
    /\ Turn("default", Fallbacks(FallbackDefault))

TurnToOnError ==
    /\ SelectedSettled
    /\ OnlyFailed(ledger)
    /\ Turn("on_error", Fallbacks(FallbackOnError))

CallFallback(d) ==
    /\ phase \in FallbackPhases
    /\ current = NoDelivery
    /\ d \in pending
    /\ pending' = pending \ {d}
    /\ current' = d
    /\ task' = [task EXCEPT ![d] = "ready"]
    /\ UNCHANGED <<request, registries, phase, left, image, ledger>>

FallbackReturns ==
    /\ phase \in FallbackPhases
    /\ current # NoDelivery
    /\ task[current] = "done"
    /\ current' = NoDelivery
    /\ ledger' = [ledger EXCEPT !.fallback = @ + 1]
    /\ UNCHANGED <<request, registries, phase, task, left, image, pending>>

\* No gather shields this call: its exception leaves deliver().
FallbackRaises ==
    /\ phase \in FallbackPhases
    /\ current # NoDelivery
    /\ task[current] = "raised"
    /\ phase' = "raised"
    /\ UNCHANGED <<request, registries, task, left, image, pending, current, ledger>>

LoopOver == phase \in FallbackPhases /\ current = NoDelivery /\ pending = {}

\* Mutant: the loop over the fallbacks on error follows whatever came of the other.
DefaultOver ==
    /\ LoopOver
    /\ phase = "default"
    /\ Turn("on_error", Fallbacks(FallbackOnError))

\* A default fallback failed; line 438 does not ask again what was delivered.
DefaultFailed ==
    /\ LoopOver
    /\ phase = "default"
    /\ ledger.failed > 0
    /\ Turn("on_error", Fallbacks(FallbackOnError))

\* Mutant: "elif" for the "if" of line 438.
ReturnAfterDefault ==
    /\ \/ SelectedSettled /\ ~NothingSaid(ledger) /\ ~OnlyFailed(ledger)
       \/ LoopOver
    /\ Turn("finished", {})

Return ==
    /\ \/ SelectedSettled /\ ~NothingSaid(ledger) /\ ~OnlyFailed(ledger)
       \/ LoopOver /\ (phase = "default" => ledger.failed = 0)
    /\ Turn("finished", {})

-----------------------------------------------------------------------------
(* Switching deliveries and transports on and off, at any time, through    *)
(* the entities _entity_state_change_listener follows.                     *)

SwitchDelivery(d) ==
    /\ \/ d \in enabled /\ enabled' = enabled \ {d}
       \/ d \notin enabled /\ enabled' = enabled \cup {d}
    /\ UNCHANGED <<request, transportsOn, phase, task, left, image, pending, current, ledger>>

SwitchTransport(t) ==
    /\ \/ t \in transportsOn /\ transportsOn' = transportsOn \ {t}
       \/ t \notin transportsOn /\ transportsOn' = transportsOn \cup {t}
    /\ UNCHANGED <<request, enabled, phase, task, left, image, pending, current, ledger>>

\* The notification has been dealt with; nothing is left to do.
Over == Ended /\ UNCHANGED vars

Coroutine ==
    \/ DeliverSuppressed \/ DeliverImmediate
    \/ WaitForImage \/ DeliverDeferred
    \/ TurnToDefault \/ TurnToOnError
    \/ \E d \in Deliveries : CallFallback(d)
    \/ FallbackReturns \/ FallbackRaises \/ DefaultFailed \/ Return

Switches ==
    \/ \E d \in Deliveries \cap Switchable : SwitchDelivery(d)
    \/ \E t \in Transports \cap Switchable : SwitchTransport(t)

Next ==
    \/ Coroutine
    \/ \E d \in Deliveries : CallTransport(d)
    \/ GrabEnds \/ GrabTimesOut
    \/ Switches
    \/ Over

(***************************************************************************)
(* The event loop runs every coroutine that can go on, and the timer of    *)
(* the image grab fires.  Nothing says that the grab ever ends, nor that   *)
(* anyone flips a switch, nor that transport.deliver ever returns: gather  *)
(* has no timeout, and a delivery that finds no picture grabs one for      *)
(* itself in there, without the timeout of the prefetch.                   *)
(***************************************************************************)
Fairness ==
    /\ WF_vars(Coroutine)
    /\ \A d \in Deliveries : WF_vars(BeginCall(d))
    /\ WF_vars(GrabTimesOut)

Spec == Init /\ [][Next]_vars /\ Fairness

-----------------------------------------------------------------------------
(* Correctness.                                                            *)

\* The variables keep to their sets: tasks and counters of Notification.deliver.
TypeOK ==
    /\ request \in Requests
    /\ enabled \in SUBSET Deliveries
    /\ transportsOn \in SUBSET Transports
    /\ phase \in Phases
    /\ task \in [Deliveries -> TaskStates]
    /\ left \in [Deliveries -> Nat]
    /\ image \in ImageStates
    /\ pending \in SUBSET Deliveries
    /\ current \in Deliveries \cup {NoDelivery}
    /\ ledger \in Ledgers

Recorded(d, outcome) == ledger.deliveries[d][outcome] > 0

\* The deliveries that reached someone.
Reached == {d \in Deliveries : Recorded(d, "SUCCESS")}

\* The counters are the sums of what was recorded delivery by delivery, however
\* the gathered tasks interleaved: the fallback decisions, the outcome and the
\* archive all read one or the other (record_result).
Accounting ==
    LET Total(outcome) ==
            MapThenSumSet(LAMBDA d : ledger.deliveries[d][outcome], Deliveries)
    IN  /\ ledger.delivered = Total("SUCCESS")
        /\ ledger.failed = Total("ERROR")
        /\ ledger.suppressed = Total("SUPPRESSED")
        /\ ledger.skipped >= Total("SKIPPED")
        /\ ledger.error_count >= ledger.failed

\* A fallback runs only after every selected delivery has ended, none of them
\* having reached anyone, and for a notification that nobody snoozed; the default
\* fallbacks are also kept back while a selected delivery has failed.
FallbackAfterSilence ==
    phase \in FallbackPhases \/ ledger.fallback > 0 =>
        /\ request.suppression = "NONE"
        /\ Settled(request.selected)
        /\ Reached \cap request.selected = {}
        /\ phase = "default" =>
            \A d \in request.selected : ~Recorded(d, "ERROR")

\* After silence nothing that could still reach someone is passed over.  When deliver()
\* has returned and nothing selected has reached anyone, every default fallback that
\* cannot be switched off has been tried, unless an envelope was a duplicate or something
\* selected failed; and when anything failed, be it a default fallback, so has every
\* fallback on error.
SilenceTriesAll ==
    phase = "finished" /\ request.suppression = "NONE" /\ Reached \cap request.selected = {} =>
        LET Failed(S) == \E d \in S : Recorded(d, "ERROR")
            Tried(S) == \A d \in S \ (request.selected \cup Switchable) : task[d] # "none"
        IN  /\ ~ledger.dupe /\ ~Failed(request.selected) => Tried(FallbackDefault)
            /\ Failed(Deliveries) => Tried(FallbackOnError)

\* A delivery that has ended is not called again for the same notification, with one
\* exception: a default fallback that is listed for errors as well, once some default
\* fallback has failed.  Nothing selected has reached anyone, then.
CalledAgainOnlyOnError ==
    [][\A d \in Deliveries :
        task[d] \in {"done", "raised"} /\ task'[d] = "ready" =>
            /\ d \in (FallbackDefault \cap FallbackOnError) \ request.selected
            /\ \E f \in FallbackDefault \ request.selected : Recorded(f, "ERROR")
            /\ Reached \cap request.selected = {}]_vars

\* When deliver() is over nothing of it still runs: no transport can send for a
\* notification that has been counted and archived, no camera is still moving.
QuietAtEnd ==
    Ended =>
        /\ \A d \in Deliveries : task[d] \notin {"ready", "sending"}
        /\ image # "running"

\* A delivery that shows the snapshot is not begun before the grab has ended, one
\* way or another, and before every delivery that needs no snapshot has ended.
DeferredAfterImage ==
    (\E d \in Deferred : task[d] # "none") =>
        image \notin {"none", "running"} /\ Settled(Immediate)

\* deliver() returns or raises, unless some transport holds it for good, whatever becomes
\* of the image grab: that is the one thing deliver() waits for without an end.
EndsUnlessTransportHangs ==
    <>Ended \/ <>[](\E d \in Deliveries : task[d] = "sending")

-----------------------------------------------------------------------------
(* What the documentation says of fallbacks and outcomes, which the code   *)
(* does not do.                                                            *)

\* docs/configuration/deliveries.md:129, "if no other delivery was successful and
\* at least one of them had errors": a selected delivery that failed for whatever
\* reason, with nothing else reaching anyone, brings the on-error fallbacks.
ErrorBringsFallback ==
    phase = "finished" /\ Reached = {}
        /\ (\E d \in request.selected : task[d] = "raised" \/ Recorded(d, "ERROR"))
    => \A f \in FallbackOnError \ request.selected : task[f] # "none"

\* docs/configuration/archiving.md:68, "Successful delivery with no errors, skips or
\* suppressions": what a notification whose outcome is SUCCESS has recorded.
SuccessIsUnmarred ==
    phase = "finished" /\ Outcome(ledger) = "SUCCESS" =>
        \A d \in Deliveries, o \in EnvelopeOutcomes \ {"SUCCESS"} : ~Recorded(d, o)

-----------------------------------------------------------------------------
(***************************************************************************)
(* Notification implements the contract of DeliveryContract.               *)
(***************************************************************************)
Contract == INSTANCE DeliveryContract WITH
    selected <- request.selected,
    stage    <- IF Ended THEN "closed"
                ELSE IF phase \in FallbackPhases THEN "fallback" ELSE "selected",
    reached  <- Reached

KeepsContract == Contract!Spec

=============================================================================
