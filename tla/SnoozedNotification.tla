------------------------- MODULE SnoozedNotification -------------------------
(***************************************************************************)
(* Notifications against the snoozes of Snoozer: the check made once as a  *)
(* notification is initialized, the targets each delivery generates from   *)
(* the people and addresses it is given, and the sends that may have a     *)
(* device snoozed (src/custom_components/supernotify/notification.py,      *)
(* transports/mobile_push.py).                                             *)
(*                                                                         *)
(* Targets are generated without an await, in one step for each delivery;  *)
(* between that step and the ones before and after it anyone may snooze.   *)
(* Which deliveries there are and whether they run is Notification.tla's;  *)
(* here every selected delivery generates its targets once.  Deliveries    *)
(* that need no targets, or leave out those an earlier one had, are left   *)
(* aside, as are the lists of recipients of personal deliveries.           *)
(***************************************************************************)
EXTENDS Snoozer

CONSTANTS
    Addresses,            \* what is sent to: devices, e-mail addresses...
    AddressesOf,          \* the addresses each person has
    Accepts,              \* what each delivery's target_categories let through
    DefaultTarget,        \* the target each delivery is configured with
    TargetUsage,          \* and when it is used
    PushDeliveries,       \* deliveries of the mobile push transport
    Calls,                \* bound on the calls made of the notify action
    NoCall                \* not a call

Recipients == People \cup Addresses

TargetUsages == {"no_delivery", "no_action", "merge_delivery", "merge_always", "fixed"}

\* What a call of the action says of targets, with what its scenarios add.
CallType ==
    [priority : Priorities,
     target   : SUBSET Recipients,
     scenario : SUBSET Recipients,
     override : [Deliveries -> SUBSET Recipients]]

ASSUME SnoozedNotificationAssumption ==
    /\ Devices \subseteq Addresses
    /\ People \cap Addresses = {}
    /\ AddressesOf \in [People -> SUBSET Addresses]
    /\ Accepts \in [Deliveries -> SUBSET Recipients]
    /\ DefaultTarget \in [Deliveries -> SUBSET Recipients]
    /\ TargetUsage \in [Deliveries -> TargetUsages]
    /\ PushDeliveries \subseteq Deliveries
    /\ Calls \subseteq CallType
    /\ NoCall \notin Calls

VARIABLES
    call,                 \* the call being dealt with
    suppressed,           \* whether it was found to be snoozed
    todo,                 \* deliveries that have still to generate their targets
    outbox                \* pairs of a delivery and an address to send to

callVars == <<call, suppressed, todo, outbox>>
vars == <<snoozerVars, callVars>>

-----------------------------------------------------------------------------
(* generate_targets                                                        *)

\* resolve_indirect_targets, after which the people are still there
Resolve(T) == T \cup (UNION {AddressesOf[p] : p \in T \cap People})

\* The people and addresses a delivery starts from; everyone when there are none.
StartingTargets(c, d) ==
    IF TargetUsage[d] = "fixed" THEN DefaultTarget[d]
    ELSE IF c.target = {} THEN People ELSE c.target

\* One round of filtering by snoozes, resolving people and selecting.
Narrow(T, c, d) ==
    (Resolve(FilterRecipients(T, c.priority, d)) \cup c.scenario) \cap Accepts[d]

\* Whether the delivery's own target is added to what the first round gave.
UsesDefault(c, d, primary) ==
    CASE TargetUsage[d] = "no_delivery"    -> primary = {}
      [] TargetUsage[d] = "no_action"      -> c.target = {}
      [] TargetUsage[d] = "merge_delivery" -> primary # {}
      [] TargetUsage[d] = "merge_always"   -> TRUE
      [] OTHER                             -> FALSE

\* Mutant: the second round is left out.
GenerateTargetsInOneRound(c, d) ==
    LET primary == Narrow(StartingTargets(c, d), c, d)
        merged  == primary \cup IF UsesDefault(c, d, primary) THEN DefaultTarget[d] ELSE {}
        final   == Resolve(merged) \cap Accepts[d]
        chosen  == IF c.override[d] # {} THEN Resolve(c.override[d]) \cap Accepts[d]
                   ELSE final
    IN  chosen \ People

GenerateTargets(c, d) ==
    LET primary == Narrow(StartingTargets(c, d), c, d)
        merged  == primary \cup IF UsesDefault(c, d, primary) THEN DefaultTarget[d] ELSE {}
        final   == IF merged = primary THEN primary ELSE Narrow(merged, c, d)
        chosen  == IF c.override[d] # {} THEN Resolve(c.override[d]) \cap Accepts[d]
                   ELSE final
    IN  chosen \ People

-----------------------------------------------------------------------------
Init ==
    /\ SnoozerInit
    /\ call = NoCall
    /\ suppressed = FALSE
    /\ todo = {}
    /\ outbox = {}

\* Notification.initialize: the only place where snoozes of all things count.
Initialize(c, selected) ==
    /\ call = NoCall
    /\ call' = c
    /\ suppressed' = IsGlobalSnooze(c.priority)
    /\ todo' = IF suppressed' THEN {} ELSE selected
    /\ UNCHANGED <<snoozerVars, outbox>>

\* call_transport generates the targets and with them the envelopes.
CallTransport(d) ==
    /\ d \in todo
    /\ todo' = todo \ {d}
    /\ outbox' = outbox \cup {d} \X GenerateTargets(call, d)
    /\ UNCHANGED <<snoozerVars, call, suppressed>>

\* Mutant: the device of a failed push is snoozed for everyone.
SendSnoozingForAll(d, a) ==
    /\ <<d, a>> \in outbox
    /\ outbox' = outbox \ {<<d, a>>}
    /\ \/ UNCHANGED snoozerVars
       \/ /\ d \in PushDeliveries /\ a \in Devices
          /\ snoozes' = snoozes \cup {[type |-> "MOBILE", target |-> a,
                                      recipient |-> Everyone, until |-> now + OneDay]}
          /\ UNCHANGED now
    /\ UNCHANGED <<call, suppressed, todo>>

\* One send, of which nothing is remembered unless it was a push that failed.
Send(d, a) ==
    /\ <<d, a>> \in outbox
    /\ outbox' = outbox \ {<<d, a>>}
    /\ \/ UNCHANGED snoozerVars
       \/ d \in PushDeliveries /\ a \in Devices /\ DeviceFailed(a)
    /\ UNCHANGED <<call, suppressed, todo>>

\* Mutant: deliver() returns once every delivery has been called.
FinishUnsent ==
    /\ call # NoCall
    /\ todo = {}
    /\ call' = NoCall
    /\ suppressed' = FALSE
    /\ UNCHANGED <<snoozerVars, todo, outbox>>

Finish ==
    /\ call # NoCall
    /\ todo = {}
    /\ outbox = {}
    /\ call' = NoCall
    /\ suppressed' = FALSE
    /\ UNCHANGED <<snoozerVars, todo, outbox>>

Next ==
    \/ \E c \in Calls, selected \in SUBSET Deliveries : Initialize(c, selected)
    \/ \E d \in Deliveries : CallTransport(d)
    \/ \E d \in Deliveries, a \in Addresses : Send(d, a)
    \/ Finish
    \/ Snoozing /\ UNCHANGED callVars

Spec == Init /\ [][Next]_vars

-----------------------------------------------------------------------------
(* Correctness.                                                            *)

\* The variables keep to their sets, and nothing waits to be sent without a call.
TypeOK ==
    /\ SnoozesTyped
    /\ call \in Calls \cup {NoCall}
    /\ suppressed \in BOOLEAN
    /\ todo \in SUBSET Deliveries
    /\ outbox \in SUBSET (Deliveries \X Addresses)
    /\ call = NoCall => todo = {} /\ outbox = {}

\* The people and addresses a delivery may be given by the call or by itself.
Named(c, d) == (IF c.target = {} THEN People ELSE c.target) \cup DefaultTarget[d]

\* A delivery takes up an address for one of three reasons only: it was named and
\* is not snoozed, it is an address of someone who was named and has not snoozed
\* this, or a scenario or the call's own target for this delivery put it there.
OnlyUnsnoozedReached ==
    [][\A d \in todo \ todo' :
        LET snoozed == Snoozed(call.priority, d)
            people  == ((Named(call, d) \cup call.scenario) \cap People) \ snoozed
            reached == {a \in Addresses : <<d, a>> \in outbox' \ outbox}
        IN  reached \subseteq
                (Named(call, d) \ snoozed) \cup (UNION {AddressesOf[p] : p \in people})
                \cup call.scenario \cup Resolve(call.override[d])]_vars

\* Whatever is being sent, the snoozes change as Snoozer says.
SnoozesKept == SnoozerSpec

=============================================================================
