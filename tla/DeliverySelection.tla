-------------------------- MODULE DeliverySelection --------------------------
(***************************************************************************)
(* Which deliveries a notification goes out by: the configuration, the     *)
(* scenarios, the people, what the call asks for, and the entities that    *)
(* switch each of these on and off while Home Assistant runs               *)
(* (notification.py, scenario.py, delivery.py, people.py, notify.py).      *)
(*                                                                         *)
(* Initializing a notification awaits nothing, so that it is one step      *)
(* here.  A change of an entity and the listener's reaction to it are two. *)
(*                                                                         *)
(* Conditions of scenarios may look at who is home; other conditions, the  *)
(* snoozes (SnoozedNotification) and the contents of what a scenario       *)
(* customizes are left aside.                                              *)
(***************************************************************************)
EXTENDS Keeping, Integers, Sequences, FiniteSetsExt

CONSTANTS
    Transports, Deliveries, Scenarios, People,
    TransportOf,          \* the transport of each delivery
    Conf,                 \* what is configured of the deliveries that are configured
    AutoOf,               \* the delivery a transport makes of itself, if it has none
    Entries,              \* the delivery section of each scenario: pairs of key and enabled
    Matches,              \* the deliveries that each key of a section matches as a pattern
    GroupsKnown,          \* the scenarios whose action groups all exist
    Condition,            \* the occupancies under which the condition of a scenario holds,
    Raises,               \* and those under which it fails with an error
    ScenarioOrder,        \* the scenarios in the order of the configuration
    MediaOf,              \* the media section of each scenario
    PersonalOf,           \* the deliveries each person has enabled for themselves
    Switchable,           \* the entities whose name in Home Assistant gives the name back
    TransportsOn,         \* the sets of transports that may be enabled at startup
    PeopleOn,             \* the people enabled at startup
    Used,                 \* the entities that someone does switch
    Movers,               \* the people who come and go
    Calls,                \* what the action may be called with
    MaxPending,           \* bound: state changes of an entity not yet listened to
    MaxNotifications,     \* bound: notifications
    NoDelivery, NoMedia

Entities == Transports \cup Deliveries \cup Scenarios \cup People
Fields == {"camera", "clip"}
NoMediaAtAll == [f \in Fields |-> NoMedia]

ASSUME SelectionAssumption ==
    /\ TransportOf \in [Deliveries -> Transports]
    /\ DOMAIN Conf \subseteq Deliveries
    /\ AutoOf \in [Transports -> Deliveries \cup {NoDelivery}]
    /\ \A s \in Scenarios : Entries[s] \in Seq([key : DOMAIN Matches, enabled : {"true", "false", "null", "unset"}])
    /\ \A k \in DOMAIN Matches : Matches[k] \subseteq Deliveries
    /\ Deliveries \subseteq DOMAIN Matches
    /\ GroupsKnown \subseteq Scenarios /\ DOMAIN MediaOf = Scenarios
    /\ PersonalOf \in [People -> SUBSET Deliveries]
    /\ TransportsOn \subseteq SUBSET Transports /\ PeopleOn \subseteq People
    /\ Switchable \subseteq Entities /\ Used \subseteq Entities /\ Movers \subseteq People
    /\ \A c \in Calls : c.apply \in Seq(Range(c.apply))
    /\ MaxPending \in Nat /\ MaxNotifications \in Nat
    /\ ScenarioOrder \in Seq(Scenarios) /\ Range(ScenarioOrder) = Scenarios
    /\ NoDelivery \notin Deliveries

VARIABLES
    registry,             \* the deliveries that were found valid at startup
    lists,                \* those of them listed at startup, by kind of selection
    on,                   \* the enabled flag of everything that has one
    shown,                \* the state its entity shows
    pending,              \* changes of its entity the listener has not seen yet
    whereabouts,          \* the state of each person's entity
    media,                \* the media section of each scenario, as it is now
    log                   \* notifications, each with its call and how things were then

vars == <<registry, lists, on, shown, pending, whereabouts, media, log>>

Places == {"home", "not_home", "missing"}
States == {"on", "off", "unknown"}
Kinds == {"default", "fallback", "fallback_on_error"}
StateOf(flag) == IF flag THEN "on" ELSE "off"

-----------------------------------------------------------------------------
(* Startup                                                                 *)

\* The deliveries configured for transports, and those that transports make of
\* themselves when they are enabled and have none: the latter whether valid or not.
RegistryFor(transportsOn) ==
    {d \in DOMAIN Conf : Conf[d].valid}
    \cup {AutoOf[t] : t \in {u \in transportsOn : /\ AutoOf[u] # NoDelivery
                                                  /\ \A d \in DOMAIN Conf : TransportOf[d] # u}}

StartsEnabled(d, transportsOn) ==
    IF d \in DOMAIN Conf /\ Conf[d].enabled # "unset"
    THEN Conf[d].enabled = "on" ELSE TransportOf[d] \in transportsOn

SelectionOf(d) == IF d \in DOMAIN Conf THEN Conf[d].selection ELSE {"default"}
RankOf(d) == IF d \in DOMAIN Conf THEN Conf[d].rank ELSE "any"

\* Mutant: deliveries are listed that are not registered.
ListsForConfigured(deliveries, enabled) ==
    [k \in Kinds |-> {d \in Deliveries : enabled[d] /\ k \in SelectionOf(d)}]

\* Only what is enabled at startup is listed.
ListsFor(deliveries, enabled) ==
    [k \in Kinds |-> {d \in deliveries : enabled[d] /\ k \in SelectionOf(d)}]

Init ==
    /\ \E transportsOn \in TransportsOn :
        /\ registry = RegistryFor(transportsOn)
        /\ on = [e \in Entities |-> IF e \in Deliveries THEN StartsEnabled(e, transportsOn)
                                   ELSE e \in transportsOn \cup PeopleOn \cup Scenarios]
    /\ lists = ListsFor(registry, on)
    /\ shown = [e \in Entities |-> IF e \in Scenarios THEN "unknown" ELSE StateOf(on[e])]
    /\ pending = [e \in Entities |-> <<>>]
    /\ whereabouts = [p \in People |-> "home"]
    /\ media = MediaOf
    /\ log = {}

-----------------------------------------------------------------------------
(* The registries                                                          *)

OfKind(k) == {d \in lists[k] : on[d]}
ImplicitDeliveries == OfKind("default")

Explicit(key) == key \in registry

\* A pattern without a value of enabled only tunes; a delivery without one is enabled.
EnabledIn(entry) ==
    IF entry.enabled # "unset" THEN entry.enabled
    ELSE IF Explicit(entry.key) THEN "true" ELSE "null"

\* The entry that governs a delivery: that of its own name, or the last pattern to match.
Governing(s, d) ==
    LET own  == {i \in DOMAIN Entries[s] : Entries[s][i].key = d}
        wild == {i \in DOMAIN Entries[s] :
                    ~Explicit(Entries[s][i].key) /\ d \in Matches[Entries[s][i].key]}
    IN  IF own # {} THEN own ELSE {i \in wild : \A j \in wild : j <= i}

WithEnabled(s, values) ==
    {d \in registry : \E i \in Governing(s, d) : EnabledIn(Entries[s][i]) \in values}
EnablingDeliveries(s) == WithEnabled(s, {"true"})
DisablingDeliveries(s) == WithEnabled(s, {"false"})

\* build_conditions tries a condition with no one's whereabouts.
ConditionsBuilt(s) == {} \notin Raises[s]

\* A scenario is ignored for one entry that matches nothing, or for one group.
Registered(s) ==
    /\ ConditionsBuilt(s)
    /\ s \in GroupsKnown
    /\ \A i \in DOMAIN Entries[s] :
        LET k == Entries[s][i].key
        IN  Explicit(k) \/ \E d \in registry :
                d \in Matches[k] /\ ~\E j \in 1 .. i : Entries[s][j].key = d

EnabledRecipients == {p \in People : on[p]}

\* determine_occupancy: people whose entity has no state count as at home; those who are
\* anywhere else, or whose state is unknown, are away.
Home == {p \in EnabledRecipients : whereabouts[p] \in {"home", "missing"}}
Away == EnabledRecipients \ Home

\* One person at home is an occupancy of its own.
Lone == \E p \in Home : Home = {p}

Occupancy ==
    (IF Away = {} /\ Home # {} THEN {"ALL_HOME"} ELSE {})
    \cup (IF Home = {} /\ Away # {} THEN {"ALL_AWAY"} ELSE {})
    \cup (IF Lone THEN {"LONE_HOME", "SOME_HOME"} ELSE {})
    \cup (IF Home # {} /\ ~Lone /\ Away # {} THEN {"MULTI_HOME", "SOME_HOME"} ELSE {})

\* A scenario selects itself no longer when it is switched off or its condition fails.
EvaluatedTrue(s) == Registered(s) /\ on[s] /\ Occupancy \in Condition[s] \ Raises[s]

-----------------------------------------------------------------------------
(* A notification.  Its call says: the people it is for, if any (persons,  *)
(* targeted); who may be reached at most (recipients); the form and the    *)
(* entries of its deliveries (form, asks); the mode of selection;          *)
(* scenarios to apply, require and constrain to; media, and media that     *)
(* its data implies (implied).                                             *)

Mode(c) ==
    IF c.mode # "unset" THEN c.mode
    ELSE IF c.form \in {"list", "name"} THEN "explicit" ELSE "implicit"

\* Applied scenarios come first, whether there are such scenarios or they are on or not.
SelectsItself(s, c) ==
    /\ EvaluatedTrue(s)
    /\ c.constrain = {} \/ s \in c.constrain
    /\ s \notin Range(c.apply)

InForceNames(c) == c.apply \o Keep(ScenarioOrder, {s \in Scenarios : SelectsItself(s, c)})

IsSuppressed(c) == c.require # {} /\ c.require \cap Range(InForceNames(c)) = {}

InForce(c) == Keep(InForceNames(c), {s \in Scenarios : Registered(s)})
ScenariosOf(c) == Range(InForce(c))

\* Mutant: whether people are on is not looked at for those the call is for.
AllRecipientsNamed(c) ==
    IF c.targeted THEN c.persons
    ELSE EnabledRecipients \cap c.recipients

AllRecipients(c) ==
    IF c.targeted THEN c.persons \cap EnabledRecipients
    ELSE EnabledRecipients \cap c.recipients

\* What the call itself enables, known deliveries only, and what it disables.
AskedFor(c) == {d \in registry : c.asks[d] = "on"}
AskedOff(c) == {d \in Deliveries : c.asks[d] = "off"}

ByScenario(c) ==
    IF Mode(c) = "fixed" THEN {} ELSE UNION {EnablingDeliveries(s) : s \in ScenariosOf(c)}
OffByScenario(c) ==
    IF Mode(c) = "fixed" THEN {} ELSE UNION {DisablingDeliveries(s) : s \in ScenariosOf(c)}
ByPeople(c) ==
    IF Mode(c) = "fixed" THEN {} ELSE UNION {PersonalOf[p] : p \in AllRecipients(c)}
ByDefault(c) == IF Mode(c) = "implicit" THEN ImplicitDeliveries ELSE {}

AllDisabled(c) == (OffByScenario(c) \cup AskedOff(c)) \ AskedFor(c)
AllGlobalEnabled(c) == ByScenario(c) \cup ByDefault(c) \cup AskedFor(c)

\* One that is off is selected only for a scenario or the call.
Selected(c) ==
    {d \in ((AllGlobalEnabled(c) \cup ByPeople(c)) \cap registry) \ AllDisabled(c) :
        on[d] \/ d \in ByScenario(c) \cup AskedFor(c)}

\* The order of the tasks: by rank, and any order within a rank.
Ranked(ds) == [r \in {"first", "any", "last"} |-> {d \in ds : RankOf(d) = r}]

\* A delivery that only people have enabled is for those people.
PersonalRecipients(c) ==
    [d \in Selected(c) \ AllGlobalEnabled(c) |-> {p \in AllRecipients(c) : d \in PersonalOf[p]}]

\* The media section of the call, in its absence that of the first scenario which has
\* one, and not a copy of it, is overwritten by those of the scenarios after it.
Carriers(c) == Keep(InForce(c), {s \in Scenarios : media[s] # NoMediaAtAll})

Overlaid(base, scenarios) ==
    [f \in Fields |->
        LET setting == {i \in DOMAIN scenarios : media[scenarios[i]][f] # NoMedia}
        IN  IF setting = {} THEN base[f] ELSE media[scenarios[Max(setting)]][f]]

MediaUpdate(c) ==
    IF c.media = NoMediaAtAll /\ Carriers(c) # <<>>
    THEN [media EXCEPT ![Head(Carriers(c))] = Overlaid(c.media, Carriers(c))]
    ELSE media

MediaFor(c) ==
    LET applied == IF IsSuppressed(c) THEN c.media ELSE Overlaid(c.media, Carriers(c))
    IN  IF applied = NoMediaAtAll THEN c.implied ELSE applied

Outcome(c) ==
    IF IsSuppressed(c)
    THEN [selected |-> {}, tasks |-> Ranked({}), personal |-> <<>>, suppressed |-> TRUE]
    ELSE [selected |-> Selected(c), tasks |-> Ranked(Selected(c)),
          personal |-> PersonalRecipients(c), suppressed |-> FALSE]

View == [on |-> on, whereabouts |-> whereabouts]

Notify(c) ==
    /\ Cardinality(log) < MaxNotifications
    /\ log' = log \cup {[call |-> c, view |-> View, outcome |-> Outcome(c),
                         scenarios |-> IF IsSuppressed(c) THEN {} ELSE ScenariosOf(c),
                         media |-> MediaFor(c)]}
    /\ media' = IF IsSuppressed(c) THEN media ELSE MediaUpdate(c)
    /\ UNCHANGED <<registry, lists, on, shown, pending, whereabouts>>

-----------------------------------------------------------------------------
(* Entities                                                                *)

\* Setting the state of entities tells the listener of those that it changes.
Show(states) ==
    /\ shown' = states
    /\ pending' = [e \in Entities |-> IF states[e] = shown[e] THEN pending[e]
                                      ELSE Append(pending[e], states[e])]
    /\ \A e \in Entities : Len(pending'[e]) <= MaxPending

SetEntity(e) ==
    /\ \E s \in {"on", "off"} : s # shown[e] /\ Show([shown EXCEPT ![e] = s])
    /\ UNCHANGED <<registry, lists, on, whereabouts, media, log>>

RefreshEntities ==
    /\ Show([e \in Entities |-> IF e \in Scenarios THEN "unknown" ELSE StateOf(on[e])])
    /\ UNCHANGED <<registry, lists, on, whereabouts, media, log>>

\* Mutant: what is switched off is taken from the lists, and not put back.
ListenAndUnlist(e) ==
    /\ pending[e] # <<>>
    /\ LET s == Head(pending[e])
       IN  /\ on' = IF e \in Switchable /\ s # "unknown" THEN [on EXCEPT ![e] = (s = "on")] ELSE on
           /\ lists' = IF s = "off" THEN [k \in Kinds |-> lists[k] \ {e}] ELSE lists
    /\ pending' = [pending EXCEPT ![e] = Tail(@)]
    /\ UNCHANGED <<registry, shown, whereabouts, media, log>>

\* Mutant: changes are not listened to in their order.
ListenToLatest(e) ==
    /\ pending[e] # <<>>
    /\ LET s == pending[e][Len(pending[e])]
       IN  on' = IF e \in Switchable /\ s # "unknown" THEN [on EXCEPT ![e] = (s = "on")] ELSE on
    /\ pending' = [pending EXCEPT ![e] = SubSeq(@, 1, Len(@) - 1)]
    /\ UNCHANGED <<registry, lists, shown, whereabouts, media, log>>

\* What the listener finds by the name of the entity is switched; a state that is
\* neither on nor off is passed over, as is an entity whose name gives nothing.
Listen(e) ==
    /\ pending[e] # <<>>
    /\ LET s == Head(pending[e])
       IN  on' = IF e \in Switchable /\ s # "unknown" THEN [on EXCEPT ![e] = (s = "on")] ELSE on
    /\ pending' = [pending EXCEPT ![e] = Tail(@)]
    /\ UNCHANGED <<registry, lists, shown, whereabouts, media, log>>

Move(p) ==
    /\ \E w \in Places \ {whereabouts[p]} : whereabouts' = [whereabouts EXCEPT ![p] = w]
    /\ UNCHANGED <<registry, lists, on, shown, pending, media, log>>

Next ==
    \/ \E c \in Calls : Notify(c)
    \/ \E e \in Used : SetEntity(e)
    \/ \E e \in Entities : Listen(e)
    \/ RefreshEntities
    \/ \E p \in Movers : Move(p)

Spec == Init /\ [][Next]_vars

-----------------------------------------------------------------------------
(* The enquiries of the action                                             *)


\* Mutant: the enquiry answers from the list of the startup.
EnquireListedDeliveries == lists["default"]

EnquireImplicitDeliveries == ImplicitDeliveries
EnquireActiveScenarios == {s \in Scenarios : EvaluatedTrue(s)}
EnquireDeliveriesByScenario ==
    [s \in {r \in Scenarios : Registered(r) /\ on[r]} |->
        [enabled |-> EnablingDeliveries(s), disabled |-> DisablingDeliveries(s)]]

-----------------------------------------------------------------------------
(* Correctness.                                                            *)

\* The variables keep to their sets; what is listed is registered.
TypeOK ==
    /\ registry \subseteq Deliveries
    /\ lists \in [Kinds -> SUBSET registry]
    /\ on \in [Entities -> BOOLEAN]
    /\ shown \in [Entities -> States]
    /\ pending \in [Entities -> Seq(States)]
    /\ whereabouts \in [People -> Places]
    /\ DOMAIN media = Scenarios
    /\ \A n \in log : n.call \in Calls /\ n.outcome.selected \subseteq registry

\* Switching leaves no trace: whatever was switched, moved, refreshed or notified since,
\* when everything is again as it was for a notification, the same call is given the same
\* deliveries for the same people.
SelectionHasNoMemory ==
    \A n \in log : n.view = View => Outcome(n.call) = n.outcome

\* Once the listener has seen everything, the entity shows whether the thing is on,
\* however switching and refreshing overlapped; a scenario's may show nothing.
EntitiesTell ==
    \A e \in Switchable :
        pending[e] = <<>> => shown[e] = StateOf(on[e]) \/ (e \in Scenarios /\ shown[e] = "unknown")

\* What its entity shows to be off, with no change of it left to listen to.
ShownOff == {e \in Switchable : pending[e] = <<>> /\ shown[e] = "off"}

\* What is shown to be off takes no part in a notification, whichever way it might come
\* in.  Such a delivery is selected only if the call enables it, or a scenario in force
\* does that is itself applied by the call or not shown to be off; and no delivery goes
\* out for a person who is shown to be off.
ShownOffTakesNoPart ==
    [][\A n \in log' \ log :
        /\ \A d \in n.outcome.selected \cap ShownOff :
              \/ n.call.asks[d] = "on"
              \/ \E s \in n.scenarios :
                    /\ s \in Range(n.call.apply) \/ s \notin ShownOff
                    /\ d \in EnablingDeliveries(s)
        /\ \A d \in DOMAIN n.outcome.personal : n.outcome.personal[d] \cap ShownOff = {}]_vars

IsPlain(c) ==
    /\ Mode(c) = "implicit" /\ c.apply = <<>> /\ c.require = {} /\ c.constrain = {}
    /\ \A d \in Deliveries : c.asks[d] = "absent"
    /\ ~c.targeted /\ c.recipients = People

\* What the enquiries say is what happens: the deliveries of a plain notification are
\* those of the three enquiries on deliveries and scenarios, taken together, and those
\* that people have enabled for themselves.
EnquiriesForetell ==
    \A c \in Calls : IsPlain(c) =>
        LET active == EnquireActiveScenarios
            table == EnquireDeliveriesByScenario
            personal == {d \in UNION {PersonalOf[p] : p \in EnabledRecipients} : on[d]}
        IN  Selected(c) =
                (EnquireImplicitDeliveries \cup (personal \cap registry)
                    \cup UNION {table[s].enabled : s \in active})
                \ UNION {table[s].disabled : s \in active}

=============================================================================
