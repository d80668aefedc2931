------------------------------ MODULE Envelopes ------------------------------
(***************************************************************************)
(* How the deliveries selected for a notification turn the people and      *)
(* addresses it is for into envelopes: the targets each delivery           *)
(* generates, the data and text of the envelopes it makes of them, and     *)
(* what deliveries leave for each other on the way                         *)
(* (src/custom_components/supernotify/notification.py, people.py,          *)
(* delivery.py, envelope.py).                                              *)
(*                                                                         *)
(* A delivery does all of this without an await, so that it is one step;   *)
(* the deliveries take their steps in any order, while snoozes change and  *)
(* people come and go.  Which snoozes there are is Snoozer.tla's: here a   *)
(* delivery finds some addresses snoozed.  Text is a sequence of the       *)
(* pieces it is made of.                                                   *)
(***************************************************************************)
EXTENDS Targets, TLC

CONSTANTS
    PersonEntities,       \* the people there are entities for
    DevicesOf,            \* the mobile apps of their users
    Recipients,           \* the recipients section of the configuration
    DiscoverPeople, DiscoverMobiles, \* whether everyone is taken up, with their devices
    Personal,             \* what people have for some deliveries
    Deliveries,           \* deliveries...
    Given,                \* what is configured of each,
    TransportGiven,       \* of the defaults of each transport,
    ClassDefaults,        \* and what the transport has by itself
    Digitless,            \* the name of a delivery without digits and punctuation
    Matches,              \* the names each pattern of a selection rule matches
    Calls,                \* calls of the action, each with what its scenarios add
    SnoozedSets,          \* what may be found snoozed
    NoRule                \* not a selection rule

\* PeopleRegistry.initialize: the people who are found, and those who are configured.
People == (IF DiscoverPeople THEN PersonEntities ELSE {}) \cup DOMAIN Recipients

ASSUME PeopleAssumption ==
    /\ IsFiniteSet(People)
    /\ People \subseteq Validates["person_id"]
    /\ DevicesOf \in [PersonEntities -> SUBSET Names]
    /\ DOMAIN Personal = People
    /\ \A p \in People : \A d \in DOMAIN Personal[p] :
        /\ Personal[p][d].at \in Seq(Addresses) /\ IsInjective(Personal[p][d].at)
        /\ Personal[p][d].data \in Data

\* TransportConfig and DeliveryConfig: what is given, and for the rest the defaults; of
\* data, key by key.
Over(given, defaults) ==
    [f \in DOMAIN defaults |->
        IF f \notin DOMAIN given THEN defaults[f]
        ELSE IF f = "data" THEN Update(defaults.data, given.data) ELSE given[f]]

Conf ==
    [d \in Deliveries |->
        LET t == Given[d].transport
        IN  Over(Given[d], Over(TransportGiven[t], ClassDefaults[t]) @@ [transport |-> t])]

Occupancies == {"all", "none", "all_in", "all_out", "any_in", "any_out", "only_in", "only_out"}
Usages == {"no_delivery", "no_action", "merge_delivery", "merge_always", "fixed"}

ASSUME ConfAssumption ==
    \A d \in Deliveries :
        /\ Conf[d].required \in {"always", "never", "optional"}
        /\ Conf[d].usage \in Usages
        /\ Conf[d].occupancy \in Occupancies
        /\ Conf[d].target \in SUBSET Addresses /\ Conf[d].data \in Data
        /\ Conf[d].message_usage \in {"STANDARD", "USE_TITLE", "COMBINE_TITLE"}

ASSUME CallsAssumption ==
    \A c \in Calls :
        /\ c.selected \subseteq Deliveries
        /\ c.target \in SUBSET Addresses /\ c.data \in Data
        /\ \A d \in Deliveries :
            /\ c.personal[d] \in SUBSET Names
            /\ c.scenario[d].at \in SUBSET Addresses /\ c.scenario[d].data \in Data
        /\ \A k \in DOMAIN c.overrides :
            c.overrides[k].at \in SUBSET Addresses /\ c.overrides[k].data \in Data

VARIABLES
    call,                 \* the call of the action
    snoozed,              \* what is snoozed now
    whereabouts,          \* the state of each person's entity
    todo,                 \* selected deliveries that have not been called yet
    overrides,            \* the keys of overrides that still hold a message
    already,              \* what earlier deliveries selected
    sent,                 \* the envelopes of each delivery
    raised                \* deliveries whose call raised

vars == <<call, snoozed, whereabouts, todo, overrides, already, sent, raised>>

Pieces == {"delivery", "override", "call", "spoken", "title", "template"}
Envelope == [to : SUBSET Addresses, data : Data, message : Seq(Pieces), title : Seq(Pieces),
             given : {"override", "call"}]

-----------------------------------------------------------------------------
(* People.                                                                 *)

\* What is configured of a person, or goes without saying.
Recipient(p) ==
    (IF p \in DOMAIN Recipients THEN Recipients[p] ELSE <<>>)
    @@ [enabled |-> TRUE, contacts |-> {}, target |-> {}, discovery |-> DiscoverMobiles,
        registered |-> {}, disabled |-> {}, data |-> NoData]

ASSUME RecipientsAssumption ==
    \A p \in People :
        /\ Recipient(p).target \in SUBSET Addresses /\ Recipient(p).contacts \in SUBSET Addresses
        /\ Recipient(p).registered \in SUBSET Names
        /\ Recipient(p).data \in Data

Enabled == {p \in People : Recipient(p).enabled}

\* The mobile devices of a person, of which a configured one may be disabled.
EnabledDevices(p) ==
    ((IF Recipient(p).discovery /\ p \in PersonEntities THEN DevicesOf[p] ELSE {})
     \cup Recipient(p).registered) \ Recipient(p).disabled

\* Recipient.initialize; contacts are not validated, nor are devices.
BaseTarget(p) ==
    DataTarget(FromMapping(Recipient(p).target) \cup Recipient(p).contacts
               \cup {<<"person_id", p>>} \cup {<<"mobile_app_id", m>> : m \in EnabledDevices(p)},
               Recipient(p).data)

\* Recipient.target: data for a delivery without a target for it is data of nothing.
RecipientTarget(p, d) ==
    IF d \in DOMAIN Personal[p] /\ Personal[p][d].enabled
    THEN Plus(BaseTarget(p), OwnTarget(Personal[p][d].at, Personal[p][d].data))
    ELSE BaseTarget(p)

\* A person whose entity has no state counts as at home; one of unknown state is away.
AtHome(p) == whereabouts[p] \in {"home", "missing"}

\* PeopleRegistry.filter_recipients_by_occupancy
PresentFor(d) ==
    LET people == Enabled
        home   == {p \in people : AtHome(p)}
        away   == people \ home
        all    == Conf[d].occupancy
    IN  CASE all = "all" -> people
          [] all = "all_in" -> IF away = {} THEN people ELSE {}
          [] all = "all_out" -> IF home = {} THEN people ELSE {}
          [] all = "any_in" -> IF home # {} THEN people ELSE {}
          [] all = "any_out" -> IF away # {} THEN people ELSE {}
          [] all = "only_in" -> home
          [] all = "only_out" -> away
          [] OTHER -> {}

-----------------------------------------------------------------------------
(* generate_targets                                                        *)

\* SelectionRule.match for one name
RuleMatches(rule, n) ==
    \/ rule = NoRule
    \/ /\ \A pattern \in rule.exclude : n \notin Matches[pattern]
       /\ rule.include = {} \/ \E pattern \in rule.include : n \in Matches[pattern]

Passes(d, a) == a[1] \in Conf[d].categories /\ RuleMatches(Conf[d].select, a[2])

\* Delivery.select_targets: data of its own stays for what the choice leaves out, but not for
\* what was no longer among the addresses before it.
SelectTargets(d, t) ==
    [t EXCEPT !.at = {a \in FromMapping(@) : Passes(d, a)}, !.own = OwnFor(t, t.at)]

\* Snoozer.filter_recipients
WithoutSnoozed(t) == [t EXCEPT !.at = @ \ snoozed]

\* People are added one after the other...
PlusAll(t, people, d) ==
    LET sum[i \in 0 .. Len(people)] ==
            IF i = 0 THEN t ELSE Plus(sum[i - 1], RecipientTarget(people[i], d))
    IN  sum[Len(people)]

\* ...those with data of their own last.
ResolveIndirect(t, d) ==
    LET people  == {p \in Enabled : <<"person_id", p>> \in t.at}
        special == {p \in people : RecipientTarget(p, d).own # <<>>}
    IN  PlusAll(t, SetToSeq(people \ special) \o SetToSeq(special), d)

\* What scenarios add is without data of its own.
ScenarioTarget(d) ==
    DataTarget(call.scenario[d].at,
               IF call.scenario[d].at = {} THEN NoData ELSE call.scenario[d].data)

StartingTarget(d) ==
    CASE Conf[d].usage = "fixed" ->
            DataTarget(Conf[d].target, IF Conf[d].target = {} THEN Conf[d].data ELSE NoData)
      [] Conf[d].usage # "fixed" /\ call.personal[d] # {} -> PlainTarget(FromList(call.personal[d]))
      [] Conf[d].usage # "fixed" /\ call.personal[d] = {} /\ call.target = {} ->
            PlainTarget({<<"person_id", p>> : p \in PresentFor(d) \cap call.recipients})
      [] OTHER -> PlainTarget(call.target)

\* One round: snoozes, people's addresses, scenarios' targets, the delivery's choice.
Narrow(t, d) ==
    SelectTargets(d, Plus(ResolveIndirect(WithoutSnoozed(t), d), ScenarioTarget(d)))

UsesDefault(d, t) ==
    CASE Conf[d].usage = "no_delivery"    -> t.at = {}
      [] Conf[d].usage = "no_action"      -> call.target = {}
      [] Conf[d].usage = "merge_delivery" -> t.at # {}
      [] Conf[d].usage = "merge_always"   -> TRUE
      [] OTHER                            -> FALSE

\* The name of the delivery is looked for first, and then that of its transport.
KeysFor(d) ==
    IF d \in DOMAIN call.overrides THEN {d}
    ELSE {Conf[d].transport} \cap DOMAIN call.overrides

\* Mutant: the target the call gives for this delivery is taken as it is.
OverridingAnything(d, t) ==
    LET at == UNION {call.overrides[k].at : k \in KeysFor(d)}
    IN  IF at # {} THEN ResolveIndirect(PlainTarget(at), d) ELSE t

Overriding(d, t) ==
    LET at == UNION {call.overrides[k].at : k \in KeysFor(d)}
    IN  IF at # {} THEN SelectTargets(d, ResolveIndirect(PlainTarget(at), d)) ELSE t

\* The default, and a second round if it added anything.
Merged(d, t) == IF UsesDefault(d, t) THEN Plus(t, PlainTarget(Conf[d].target)) ELSE t

\* Mutant: people named by the delivery's own target are not resolved.
SecondRoundUnresolved(d, first, merged) == SelectTargets(d, merged)

SecondRound(d, first, merged) == IF merged.at = first.at THEN merged ELSE Narrow(merged, d)

BothRounds(d, first) == SecondRound(d, first, Merged(d, first))

ComputedTarget(d) == Overriding(d, BothRounds(d, Narrow(StartingTarget(d), d)))

\* What is left of each part: direct targets, without those that were selected already.
Finally(d, parts) ==
    [i \in DOMAIN parts |->
        IF Conf[d].unique THEN Minus(DirectPart(parts[i]), PlainTarget(already))
        ELSE DirectPart(parts[i])]

GenerateTargets(d) ==
    IF Conf[d].required = "never" THEN <<DataTarget({}, Conf[d].data)>>
    ELSE Finally(d, SplitByTargetData(ComputedTarget(d)))

-----------------------------------------------------------------------------
(* Envelopes.                                                              *)

\* generate_envelopes, and what is left of the override's data, which wins.
EnvelopeData(d, t) ==
    Update(Update(Update(Conf[d].data, t.data), call.scenario[d].data), call.data)

OverrideData(d) ==
    IF KeysFor(d) = {} THEN NoData ELSE call.overrides[CHOOSE k \in KeysFor(d) : TRUE].data

TitleOf(d, ignoreUsage) ==
    LET title == IF Conf[d].message_usage # "STANDARD" /\ ~ignoreUsage THEN <<>>
                 ELSE IF Conf[d].title \/ call.title THEN <<"title">> ELSE <<>>
    IN  IF call.scenario[d].template = "none" THEN title ELSE Append(title, "template")

\* The message of the override is there for the first envelope that takes it.
GivenMessage(d, first) ==
    IF first /\ KeysFor(d) \cap overrides # {} THEN "override" ELSE "call"

BaseMessage(d, first) ==
    CASE Conf[d].spoken /\ call.spoken -> "spoken"
      [] ~(Conf[d].spoken /\ call.spoken) /\ Conf[d].message -> "delivery"
      [] OTHER -> GivenMessage(d, first)

MessageOf(d, first) ==
    LET title   == TitleOf(d, TRUE)
        message == CASE Conf[d].message_usage = "USE_TITLE" /\ title # <<>> -> title
                     [] Conf[d].message_usage = "COMBINE_TITLE" -> Append(title, BaseMessage(d, first))
                     [] OTHER -> <<BaseMessage(d, first)>>
    IN  IF call.scenario[d].template = "none" THEN message ELSE Append(message, "template")

MakeEnvelope(d, t, first) ==
    [to      |-> t.at,
     data    |-> Update(EnvelopeData(d, t), OverrideData(d)),
     message |-> MessageOf(d, first),
     title   |-> TitleOf(d, FALSE),
     given   |-> GivenMessage(d, first)]

\* Envelopes have the numbers of their targets.
GenerateEnvelopes(d, targets) ==
    LET worth == {i \in DOMAIN targets : HasResolved(targets[i]) \/ Conf[d].required # "always"}
    IN  [i \in worth |-> MakeEnvelope(d, targets[i], \A j \in worth : i <= j)]

\* Envelope.hash: neither a configured message nor digits in names count.
HashOf(d, e) ==
    [name    |-> Digitless[d],
     to      |-> {a \in e.to : a[1] \notin Indirect},
     message |-> IF Conf[d].spoken /\ call.spoken THEN "spoken" ELSE e.given,
     title   |-> call.title]

-----------------------------------------------------------------------------
Init ==
    /\ call \in Calls
    /\ snoozed \in SnoozedSets
    /\ whereabouts \in [People -> {"home", "not_home", "missing"}]
    /\ todo = call.selected
    /\ overrides = {k \in DOMAIN call.overrides : call.overrides[k].message}
    /\ already = {}
    /\ sent = [d \in Deliveries |-> <<>>]
    /\ raised = {}

\* An envelope counts the errors of its templates before it has anything to count them in:
\* that raises, and none is sent.
Fails(d, envelopes) == envelopes # <<>> /\ call.scenario[d].template = "fails"

\* Mutant: what a delivery selects is remembered only if it has unique targets itself.
RememberUnique(d, targets) ==
    already' = IF ~Conf[d].unique THEN already
               ELSE already \cup UNION {targets[i].at : i \in DOMAIN targets}

Remember(d, targets) ==
    already' = IF Conf[d].required = "never" THEN already
               ELSE already \cup UNION {targets[i].at : i \in DOMAIN targets}

\* Mutant: a delivery that raises is called again.
SendAgain(d, envelopes) ==
    /\ todo' = IF Fails(d, envelopes) THEN todo ELSE todo \ {d}
    /\ overrides' = IF envelopes = <<>> THEN overrides ELSE overrides \ KeysFor(d)
    /\ sent' = IF Fails(d, envelopes) THEN sent ELSE [sent EXCEPT ![d] = envelopes]
    /\ raised' = IF Fails(d, envelopes) THEN raised \cup {d} ELSE raised

Send(d, envelopes) ==
    /\ todo' = todo \ {d}
    /\ overrides' = IF envelopes = <<>> THEN overrides ELSE overrides \ KeysFor(d)
    /\ sent' = IF Fails(d, envelopes) THEN sent ELSE [sent EXCEPT ![d] = envelopes]
    /\ raised' = IF Fails(d, envelopes) THEN raised \cup {d} ELSE raised

\* call_transport up to the envelopes.
CallWith(d, targets) == Remember(d, targets) /\ Send(d, GenerateEnvelopes(d, targets))

CallTransport(d) ==
    /\ d \in todo
    /\ CallWith(d, GenerateTargets(d))
    /\ UNCHANGED <<call, snoozed, whereabouts>>

\* The states of people change, and so does what is snoozed.
Move(p) ==
    /\ todo # {}
    /\ \E place \in {"home", "not_home"} :
        /\ place # whereabouts[p]
        /\ whereabouts' = [whereabouts EXCEPT ![p] = place]
    /\ UNCHANGED <<call, snoozed, todo, overrides, already, sent, raised>>

ChangeSnoozes ==
    /\ todo # {}
    /\ snoozed' \in SnoozedSets
    /\ UNCHANGED <<call, whereabouts, todo, overrides, already, sent, raised>>

Next ==
    \/ \E d \in Deliveries : CallTransport(d)
    \/ \E p \in People : Move(p)
    \/ ChangeSnoozes

Spec == Init /\ [][Next]_vars

-----------------------------------------------------------------------------
(* Correctness.                                                            *)

Envelopes(d) == {sent[d][i] : i \in DOMAIN sent[d]}

\* The variables keep to their sets.
TypeOK ==
    /\ call \in Calls
    /\ snoozed \in SnoozedSets
    /\ whereabouts \in [People -> {"home", "not_home", "missing"}]
    /\ todo \in SUBSET call.selected
    /\ overrides \in SUBSET DOMAIN call.overrides
    /\ already \in SUBSET Addresses
    /\ DOMAIN sent = Deliveries
    /\ \A d \in Deliveries : \A e \in Envelopes(d) :
        /\ e.to \in SUBSET Addresses /\ e.data \in Data
        /\ Range(e.message) \cup Range(e.title) \subseteq Pieces
        /\ e.given \in {"override", "call"}
    /\ raised \in SUBSET (call.selected \ todo)

\* However a target is taken apart, no address is in two envelopes of one delivery: one
\* call does not reach the same address twice by the same way.
OnePlaceEach ==
    \A d \in Deliveries : \A i, j \in DOMAIN sent[d] :
        i # j => sent[d][i].to \cap sent[d][j].to = {}

\* Whatever round or override brought it, an address is one the delivery chooses from, or
\* somebody has data for it as a personal target of this delivery.
OnlyChosenAddresses ==
    \A d \in Deliveries : \A e \in Envelopes(d) : \A a \in e.to :
        Passes(d, a) \/ \E p \in People : a \in HasOwn(RecipientTarget(p, d))

\* What an envelope's data has neither of the delivery nor of the call, its scenarios and
\* overrides, nor of a person for all deliveries, is of people who have it for a personal
\* target of this delivery; then every address of the envelope is such a target.
Gives(data, k, v) == k \in DOMAIN data /\ data[k] = v
OwnDataStaysOwn ==
    \A d \in Deliveries : \A e \in Envelopes(d) : \A k \in DOMAIN e.data :
        \/ \E data \in {Conf[d].data, call.scenario[d].data, call.data, OverrideData(d)}
                      \cup {Recipient(p).data : p \in People} : Gives(data, k, e.data[k])
        \/ \A a \in e.to : \E p \in People : \E i \in DOMAIN RecipientTarget(p, d).own :
                /\ RecipientTarget(p, d).own[i].to = a
                /\ Gives(RecipientTarget(p, d).own[i].data, k, e.data[k])

\* A delivery with unique targets makes no envelope for an address that an envelope of an
\* earlier delivery, unique or not, is for, whichever order the deliveries came in.
UniqueTargetsKeptApart ==
    [][\A d, e \in Deliveries :
        (d # e /\ d \in todo \ todo' /\ Conf[d].unique /\ e \notin todo) =>
            \A x \in Range(sent'[d]), y \in Range(sent[e]) : x.to \cap y.to = {}]_vars

\* Everyone a call is for, or for want of a target everyone known and present...
Asked(d) == IF call.target = {} THEN PresentFor(d) \cap call.recipients
            ELSE {p \in People : <<"person_id", p>> \in call.target}

\* ...and people named by the delivery's own target, when it is always merged and adds
\* anything...
Adds(d) == /\ Conf[d].usage = "merge_always"
           /\ ~ (Conf[d].target \subseteq Narrow(StartingTarget(d), d).at)
ByDefault(d) == IF Adds(d) THEN {p \in People : <<"person_id", p>> \in Conf[d].target} ELSE {}

\* ...are to be reached at each address the delivery takes that is not snoozed...
Owed(d) == {a \in Addresses :
                /\ Passes(d, a) /\ a[1] \notin Indirect /\ a \notin snoozed
                /\ \E p \in Asked(d) \cup ByDefault(d) :
                    /\ p \in Enabled /\ <<"person_id", p>> \notin snoozed
                    /\ a \in FromMapping(BaseTarget(p).at)}

\* ...unless something else is to replace them, or to leave out what others have.
Usual(d) == /\ Conf[d].required # "never" /\ Conf[d].usage # "fixed" /\ ~Conf[d].unique
            /\ call.personal[d] = {}
            /\ \A k \in KeysFor(d) : call.overrides[k].at = {}

\* And they are, by whichever round.  One whom a scenario has named before the delivery's
\* own target does, which then adds nothing, is not: people have been resolved by then.
NobodyLeftOut ==
    [][\A d \in todo \ (todo' \cup raised') :
        Usual(d) => Owed(d) \subseteq UNION {e.to : e \in Range(sent'[d])}]_vars

-----------------------------------------------------------------------------
(* What documentation says, which the code does not do.                    *)

\* CHANGELOG.md:345: duplicates are checked "at Envelope rather than Notification level, so
\* same message can go out to different deliveries": no envelope of one delivery is taken for
\* the duplicate of one of another delivery.
NoDupesWithinACall ==
    \A d, e \in Deliveries :
        d # e => \A x \in Envelopes(d), y \in Envelopes(e) : HashOf(d, x) # HashOf(e, y)
=============================================================================
