------------------------------ MODULE Snoozer ------------------------------
(***************************************************************************)
(* The snoozes users ask for from their phones, and the ones a failing     *)
(* phone is given (src/custom_components/supernotify/snoozer.py): how a    *)
(* mobile action becomes a snooze, how long it lasts, and which of them    *)
(* are in scope for a delivery.  SnoozedNotification.tla sends against it. *)
(*                                                                         *)
(* A mobile action is the record of its parts.  Its string is split at     *)
(* every underscore, those inside the name it ends with included, which    *)
(* is seen here through two functions of the name: how many parts it has,  *)
(* and the first of them.  A name of several parts does not end in a       *)
(* number here, which would be taken for a duration.                       *)
(***************************************************************************)
EXTENDS Integers, FiniteSets

CONSTANTS
    People,               \* enabled recipients, each with a user of their own
    Devices,              \* their mobile_app ids
    OwnersOf,             \* the people each device belongs to
    Deliveries,           \* names of the deliveries
    Transports,           \* names of the transports
    TransportOf,          \* the transport of each delivery
    Priorities,           \* priorities, "critical" among them
    Cameras,              \* names of cameras
    Parts,                \* parts the name in an action is split into
    FirstPart,            \* the first of these parts
    SnoozePeriod,         \* the configured snooze_time
    OneDay,               \* how long a failing device is snoozed
    Minutes,              \* durations an action may give
    SnoozableTypes,       \* bound on the target types of the actions received
    MaxSnoozes,           \* bound on the snoozes held at once
    MaxTime,              \* bound on the clock
    Everyone,             \* not a person
    NoTarget,             \* not a name
    Forever               \* not a time

GlobalTargetTypes == {"EVERYTHING", "NONCRITICAL"}
QualifiedTargetTypes == {"DELIVERY", "TRANSPORT", "PRIORITY", "MOBILE", "CAMERA"}
Commands == {"SNOOZE", "SILENCE", "NORMAL"}
Names == Deliveries \cup Transports \cup Priorities \cup Cameras \cup Devices

\* What a snooze may be of, which is never a person.
Targets == Names \cup {NoTarget} \cup {FirstPart[n] : n \in Names}

ASSUME SnoozerAssumption ==
    /\ TransportOf \in [Deliveries -> Transports]
    /\ OwnersOf \in [Devices -> SUBSET People]
    /\ "critical" \in Priorities
    /\ Parts \in [Names -> Nat \ {0}]
    /\ DOMAIN FirstPart = Names
    /\ \A n \in Names : Parts[n] = 1 => FirstPart[n] = n
    /\ SnoozePeriod \in Nat
    /\ OneDay \in Nat \ {0}
    /\ Minutes \subseteq Nat
    /\ SnoozableTypes \subseteq GlobalTargetTypes \cup QualifiedTargetTypes
    /\ MaxSnoozes \in Nat
    /\ MaxTime \in Nat
    /\ People \cap Targets = {}
    /\ Everyone \notin People
    /\ Forever \notin Nat

VARIABLES
    now,                  \* the clock, in minutes
    snoozes               \* the values of the dictionary of snoozes

snoozerVars == <<now, snoozes>>

-----------------------------------------------------------------------------
(* Snoozes.                                                                *)

Snoozes ==
    [type      : GlobalTargetTypes \cup QualifiedTargetTypes,
     target    : Targets,
     recipient : People \cup {Everyone},
     until     : Nat \cup {Forever}]

\* Mutant: a snooze is told from others by what it is for, not by whose it is.
SameKeyForAll(s, t) ==
    \/ {s.type, t.type} \subseteq GlobalTargetTypes
    \/ s.type = t.type /\ s.target = t.target

\* Equal short_key()s: a recipient has at most one global snooze.
SameKey(s, t) ==
    /\ s.recipient = t.recipient
    /\ \/ {s.type, t.type} \subseteq GlobalTargetTypes
       \/ s.type = t.type /\ s.target = t.target

\* Snooze.active()
Active(s) == s.until = Forever \/ s.until > now

\* A duration of zero is no duration to Snooze.__init__.
Until(cmd, duration) ==
    IF cmd = "SNOOZE" /\ duration # 0 THEN now + duration ELSE Forever

\* register_snooze: a snooze replaces the one with its key, NORMAL deletes it.
Register(S, cmd, type, target, recipient, duration) ==
    LET new == [type |-> type, target |-> target, recipient |-> recipient,
                until |-> Until(cmd, duration)]
    IN  {s \in S : ~SameKey(s, new)} \cup (IF cmd = "NORMAL" THEN {} ELSE {new})

-----------------------------------------------------------------------------
(* Mobile actions.                                                         *)

NamesOf(type) ==
    CASE type = "DELIVERY"  -> Deliveries
      [] type = "TRANSPORT" -> Transports
      [] type = "PRIORITY"  -> Priorities
      [] type = "CAMERA"    -> Cameras
      [] type = "MOBILE"    -> Devices
      [] OTHER              -> {NoTarget}

\* An action whose user is no known person is ignored, as is one with a part that
\* is no command, recipient type or target type; neither is among the Actions.
Actions ==
    UNION {[cmd       : Commands,
            recipient : People \cup {Everyone},
            type      : {type},
            name      : NamesOf(type),
            minutes   : Minutes \cup {Forever}] : type \in SnoozableTypes}

MinutesGiven(a) == a.minutes # Forever

\* The number of parts that follow the target type.
PartsAfterType(a) ==
    (IF a.type \in GlobalTargetTypes THEN 0 ELSE Parts[a.name])
    + (IF MinutesGiven(a) THEN 1 ELSE 0)

\* The number of those parts that handle_command_event takes for a duration.
PartsWithDuration(a) == IF a.type \in GlobalTargetTypes THEN 1 ELSE 2

\* int() of what should be the duration fails, as it is the end of a name.
Malformed(a) ==
    PartsAfterType(a) = PartsWithDuration(a) /\ ~MinutesGiven(a)

ActionTarget(a) == IF a.type \in GlobalTargetTypes THEN NoTarget ELSE FirstPart[a.name]

ActionDuration(a) ==
    IF PartsAfterType(a) = PartsWithDuration(a) THEN a.minutes ELSE SnoozePeriod

-----------------------------------------------------------------------------
(* What is in scope for a notification.                                    *)

\* A snooze that suppresses a notification, whoever asked for it.
Silences(s, priority) ==
    /\ Active(s)
    /\ \/ s.type = "EVERYTHING"
       \/ s.type = "NONCRITICAL" /\ priority # "critical"

\* is_global_snooze
IsGlobalSnooze(priority) == \E s \in snoozes : Silences(s, priority)

\* current_snoozes
CurrentSnoozes(priority, d) ==
    {s \in snoozes :
        /\ Active(s)
        /\ \/ s.type \in {"EVERYTHING", "MOBILE", "CAMERA"}
           \/ s.type = "NONCRITICAL" /\ priority # "critical"
           \/ s.type = "DELIVERY" /\ s.target = d
           \/ s.type = "PRIORITY" /\ s.target = priority
           \/ s.type = "TRANSPORT" /\ s.target = TransportOf[d]}

\* What filter_recipients takes out: people by their own snoozes, and devices.
Snoozed(priority, d) ==
    LET personal == {s \in CurrentSnoozes(priority, d) : s.recipient # Everyone}
    IN  {s.recipient : s \in {x \in personal : x.type \notin {"MOBILE", "CAMERA"}}}
        \cup {s.target : s \in {x \in personal : x.type = "MOBILE"}}

FilterRecipients(T, priority, d) == T \ Snoozed(priority, d)

-----------------------------------------------------------------------------
(* Steps.                                                                  *)

SnoozerInit == now = 0 /\ snoozes = {}

\* on_mobile_action and handle_command_event
OnMobileAction(a) ==
    /\ ~Malformed(a)
    /\ snoozes' = Register(snoozes, a.cmd, a.type, ActionTarget(a), a.recipient,
                           ActionDuration(a))
    /\ Cardinality(snoozes') <= MaxSnoozes
    /\ UNCHANGED now

\* Mutant: the device and the recipient are swapped.
DeviceFailedSwapped(device) ==
    /\ snoozes' = snoozes \cup
                    [type : {"MOBILE"}, target : OwnersOf[device],
                     recipient : {device}, until : {now + OneDay}]
    /\ UNCHANGED now

\* A push to a device fails: each person it belongs to has it snoozed.
DeviceFailed(device) ==
    /\ snoozes' = {s \in snoozes : ~ /\ s.type = "MOBILE"
                                     /\ s.target = device
                                     /\ s.recipient \in OwnersOf[device]}
               \cup [type : {"MOBILE"}, target : {device},
                     recipient : OwnersOf[device], until : {now + OneDay}]
    /\ UNCHANGED now

\* The action clear_snoozes.
ClearSnoozes ==
    /\ snoozes' = {}
    /\ UNCHANGED now

\* Mutant: every snooze with an end is purged.
PurgeTimedSnoozes ==
    /\ snoozes' = {s \in snoozes : s.until = Forever}
    /\ UNCHANGED now

\* The nightly purge, at whatever hour it is scheduled.
PurgeSnoozes ==
    /\ snoozes' = {s \in snoozes : Active(s)}
    /\ UNCHANGED now

Tick ==
    /\ now < MaxTime
    /\ now' = now + 1
    /\ UNCHANGED snoozes

\* What happens to the snoozes whatever is being sent.
Snoozing ==
    \/ \E a \in Actions : OnMobileAction(a)
    \/ ClearSnoozes
    \/ PurgeSnoozes
    \/ Tick

SnoozerNext == Snoozing \/ \E device \in Devices : DeviceFailed(device)

SnoozerSpec == SnoozerInit /\ [][SnoozerNext]_snoozerVars

-----------------------------------------------------------------------------
(* Correctness.                                                            *)

SnoozesTyped ==
    /\ now \in 0..MaxTime
    /\ snoozes \subseteq Snoozes

\* All the answers the snoozer gives.
InScope ==
    [p \in Priorities |->
        <<IsGlobalSnooze(p), [d \in Deliveries |-> CurrentSnoozes(p, d)]>>]

\* Purging takes away nothing that is still in scope and can be done at any time.
PurgeUnnoticed == [][PurgeSnoozes => InScope' = InScope]_snoozerVars

\* The one thing that a command may take out of a delivery, or let in again: the person
\* who gives it, or the device it is of, if it is of that delivery and priority at all.
Reach(a, p, d) ==
    IF \/ a.recipient = Everyone
       \/ a.type = "CAMERA"
       \/ a.type = "DELIVERY" /\ ActionTarget(a) # d
       \/ a.type = "TRANSPORT" /\ ActionTarget(a) # TransportOf[d]
       \/ a.type = "PRIORITY" /\ ActionTarget(a) # p
    THEN {}
    ELSE {IF a.type = "MOBILE" THEN ActionTarget(a) ELSE a.recipient}

\* Commands stay within their reach, whatever snoozes there are.  A command changes what
\* is filtered out of a delivery by what it is of and nothing else, and whether notifications
\* are suppressed only if it is a global one, and no one else's global snooze suppresses
\* them anyway.  It is not that commands concern only those who give them: a device is
\* snoozed for all who have it (snoozer.py:268), and a global snooze of one person
\* suppresses a notification for everyone (snoozer.py:236).
CommandsKeepToReach ==
    [][/\ \A p \in Priorities, d \in Deliveries :
            LET changed == (Snoozed(p, d)' \ Snoozed(p, d)) \cup (Snoozed(p, d) \ Snoozed(p, d)')
            IN  changed # {} =>
                    \A a \in Actions : OnMobileAction(a) => changed \subseteq Reach(a, p, d)
       /\ \A p \in Priorities :
            ~(IsGlobalSnooze(p)' <=> IsGlobalSnooze(p)) =>
                \A a \in Actions : OnMobileAction(a) =>
                    /\ a.type \in GlobalTargetTypes
                    /\ \A s \in snoozes : Silences(s, p) => s.recipient = a.recipient]_snoozerVars

=============================================================================
