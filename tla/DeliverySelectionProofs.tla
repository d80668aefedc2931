----------------------- MODULE DeliverySelectionProofs -----------------------
(***************************************************************************)
(* Proofs about DeliverySelection: its types, that entities tell whether   *)
(* things are on, that what they show to be off is left out of             *)
(* notifications, and that selection depends on the present alone.         *)
(***************************************************************************)
EXTENDS DeliverySelection, FoldLemmas, SequenceTheorems, TLAPS

-----------------------------------------------------------------------------
(* Types.                                                                  *)

\* What a call selects is registered.
LEMMA SelectedRegistered ==
    \A c : Outcome(c).selected \subseteq registry
<1>1. SUFFICES ASSUME NEW c PROVE Outcome(c).selected \subseteq registry
    OBVIOUS
<1>2. Selected(c) \subseteq registry
    BY DEF Selected
<1>. QED  BY <1>2 DEF Outcome

\* What is shown of the entities when they are refreshed is a state of each.
LEMMA RefreshTyped ==
    ASSUME on \in [Entities -> BOOLEAN]
    PROVE  [e \in Entities |-> IF e \in Scenarios THEN "unknown" ELSE StateOf(on[e])]
                \in [Entities -> States]
BY DEF StateOf, States

\* Showing states adds those that are new to what is pending.
LEMMA ShowTyped ==
    ASSUME TypeOK, NEW states \in [Entities -> States], Show(states)
    PROVE  shown' \in [Entities -> States] /\ pending' \in [Entities -> Seq(States)]
BY DEF TypeOK, Show

\* The variables keep to their sets, for any configuration, calls and bounds.
THEOREM TypeCorrect == Spec => []TypeOK
<1>1. Init => TypeOK
  <2> SUFFICES ASSUME Init PROVE TypeOK
    OBVIOUS
  <2>1. registry \subseteq Deliveries
    <3>1. PICK transportsOn \in TransportsOn : registry = RegistryFor(transportsOn)
      BY DEF Init
    <3>2. transportsOn \subseteq Transports
      BY <3>1, SelectionAssumption
    <3>. QED  BY <3>1, <3>2, SelectionAssumption DEF RegistryFor
  <2>2. on \in [Entities -> BOOLEAN]
    <3>1. PICK transportsOn \in TransportsOn :
            on = [e \in Entities |-> IF e \in Deliveries THEN StartsEnabled(e, transportsOn)
                                   ELSE e \in transportsOn \cup PeopleOn \cup Scenarios]
      BY DEF Init
    <3>2. \A e : StartsEnabled(e, transportsOn) \in BOOLEAN
      <4>1. SUFFICES ASSUME NEW e PROVE StartsEnabled(e, transportsOn) \in BOOLEAN
        OBVIOUS
      <4>2. CASE e \in DOMAIN Conf /\ Conf[e].enabled # "unset"
        BY <4>2, Zenon DEF StartsEnabled
      <4>3. CASE ~(e \in DOMAIN Conf /\ Conf[e].enabled # "unset")
        <5>1. (TransportOf[e] \in transportsOn) \in BOOLEAN
          BY SMT
        <5>. QED  BY <4>3, <5>1, Zenon DEF StartsEnabled
      <4>. QED  BY <4>2, <4>3
    <3>3. \A e \in Entities :
            (IF e \in Deliveries THEN StartsEnabled(e, transportsOn)
                                 ELSE e \in transportsOn \cup PeopleOn \cup Scenarios) \in BOOLEAN
      <4>1. SUFFICES ASSUME NEW e \in Entities
                     PROVE (IF e \in Deliveries THEN StartsEnabled(e, transportsOn)
                            ELSE e \in transportsOn \cup PeopleOn \cup Scenarios) \in BOOLEAN
        OBVIOUS
      <4>2. CASE e \in Deliveries
        BY <3>2, <4>2, Zenon
      <4>3. CASE e \notin Deliveries
        <5>1. (e \in transportsOn \cup PeopleOn \cup Scenarios) \in BOOLEAN
          BY SMT
        <5>. QED  BY <4>3, <5>1, Zenon
      <4>. QED  BY <4>2, <4>3
    <3>. QED  BY <3>1, <3>3, Zenon
  <2>3. lists \in [Kinds -> SUBSET registry]
    BY DEF Init, ListsFor
  <2>4. shown \in [Entities -> States]
    BY DEF Init, StateOf, States
  <2>5. pending \in [Entities -> Seq(States)]
    BY DEF Init
  <2>6. whereabouts \in [People -> Places]
    BY DEF Init, Places
  <2>7. DOMAIN media = Scenarios /\ log = {}
    BY SelectionAssumption DEF Init
  <2>. QED  BY <2>1, <2>2, <2>3, <2>4, <2>5, <2>6, <2>7 DEF TypeOK
<1>2. TypeOK /\ [Next]_vars => TypeOK'
  <2> SUFFICES ASSUME TypeOK, [Next]_vars PROVE TypeOK'
    OBVIOUS
  <2>1. ASSUME NEW c \in Calls, Notify(c) PROVE TypeOK'
    <3>1. DOMAIN media' = Scenarios
      BY <2>1 DEF Notify, MediaUpdate, TypeOK
    <3>2. \A n \in log' : n.call \in Calls /\ n.outcome.selected \subseteq registry
      BY <2>1, SelectedRegistered DEF Notify, TypeOK
    <3>. QED  BY <2>1, <3>1, <3>2 DEF Notify, TypeOK
  <2>2. ASSUME NEW e \in Used, SetEntity(e) PROVE TypeOK'
    <3>1. PICK s \in {"on", "off"} : Show([shown EXCEPT ![e] = s])
      BY <2>2 DEF SetEntity
    <3>2. [shown EXCEPT ![e] = s] \in [Entities -> States]
      BY DEF TypeOK, States
    <3>. QED  BY <2>2, <3>1, <3>2, ShowTyped DEF SetEntity, TypeOK
  <2>3. ASSUME NEW e \in Entities, Listen(e) PROVE TypeOK'
    <3>1. on' \in [Entities -> BOOLEAN]
      BY <2>3 DEF Listen, TypeOK
    <3>2. pending' \in [Entities -> Seq(States)]
      BY <2>3 DEF Listen, TypeOK
    <3>. QED  BY <2>3, <3>1, <3>2 DEF Listen, TypeOK
  <2>4. CASE RefreshEntities
    BY <2>4, RefreshTyped, ShowTyped DEF RefreshEntities, TypeOK
  <2>5. ASSUME NEW p \in Movers, Move(p) PROVE TypeOK'
    BY <2>5 DEF Move, TypeOK, Places
  <2>6. CASE UNCHANGED vars
    BY <2>6 DEF vars, TypeOK
  <2>. QED  BY <2>1, <2>2, <2>3, <2>4, <2>5, <2>6 DEF Next
<1>. QED  BY <1>1, <1>2, PTL DEF Spec

-----------------------------------------------------------------------------
(* Entities.                                                               *)

\* The last change that is pending is to what is shown, and only scenarios show nothing.
PendingLeadsToShown ==
    \A e \in Entities :
        /\ pending[e] # <<>> => pending[e][Len(pending[e])] = shown[e]
        /\ shown[e] = "unknown" => e \in Scenarios

EntityInv == PendingLeadsToShown /\ EntitiesTell

\* To show states that are not news keeps what is pending in step with what is shown; an
\* entity with nothing pending then shows what it showed before.
LEMMA ShowKeepsStep ==
    ASSUME TypeOK, PendingLeadsToShown, NEW states \in [Entities -> States], Show(states),
           \A e \in Entities : states[e] = "unknown" => e \in Scenarios
    PROVE  /\ PendingLeadsToShown'
           /\ \A e \in Entities : pending'[e] = <<>> => pending[e] = <<>> /\ shown'[e] = shown[e]
<1>1. SUFFICES ASSUME NEW e \in Entities
               PROVE  /\ pending'[e] # <<>> => pending'[e][Len(pending'[e])] = shown'[e]
                      /\ shown'[e] = "unknown" => e \in Scenarios
                      /\ pending'[e] = <<>> => pending[e] = <<>> /\ shown'[e] = shown[e]
    BY DEF PendingLeadsToShown
<1>2. pending[e] \in Seq(States) /\ states[e] \in States /\ shown' = states
    BY DEF TypeOK, Show
<1>3. pending'[e] = IF states[e] = shown[e] THEN pending[e] ELSE Append(pending[e], states[e])
    BY DEF Show
<1>4. CASE states[e] = shown[e]
    BY <1>2, <1>3, <1>4 DEF PendingLeadsToShown
<1>5. CASE states[e] # shown[e]
    BY <1>2, <1>3, <1>5
<1>. QED  BY <1>4, <1>5

\* When everything has been listened to, entities show what is on, however users,
\* refreshes and the listener follow each other.
THEOREM EntitiesAreTrue == Spec => []EntitiesTell
<1>1. Init => EntityInv
  <2> SUFFICES ASSUME Init PROVE EntityInv
    OBVIOUS
  <2>1. /\ \A e \in Entities : pending[e] = <<>>
        /\ \A e \in Entities : shown[e] = IF e \in Scenarios THEN "unknown" ELSE StateOf(on[e])
    BY DEF Init
  <2>2. PendingLeadsToShown
    BY <2>1 DEF PendingLeadsToShown, StateOf
  <2>3. EntitiesTell
    BY <2>1, SelectionAssumption DEF EntitiesTell
  <2>. QED  BY <2>2, <2>3 DEF EntityInv
<1>2. TypeOK /\ EntityInv /\ [Next]_vars => EntityInv'
  <2> SUFFICES ASSUME TypeOK, EntityInv, [Next]_vars PROVE EntityInv'
    OBVIOUS
  <2> USE DEF EntityInv
  <2>1. ASSUME UNCHANGED <<on, shown, pending>> PROVE EntityInv'
    BY <2>1 DEF PendingLeadsToShown, EntitiesTell
  <2>2. ASSUME NEW e \in Used, SetEntity(e) PROVE EntityInv'
    <3>1. PICK s \in {"on", "off"} : Show([shown EXCEPT ![e] = s])
      BY <2>2 DEF SetEntity
    <3>2. /\ [shown EXCEPT ![e] = s] \in [Entities -> States]
          /\ \A f \in Entities : [shown EXCEPT ![e] = s][f] = "unknown" => f \in Scenarios
      BY DEF TypeOK, States, PendingLeadsToShown
    <3>3. /\ PendingLeadsToShown'
          /\ \A f \in Entities : pending'[f] = <<>> => pending[f] = <<>> /\ shown'[f] = shown[f]
      BY <3>1, <3>2, ShowKeepsStep
    <3>. QED  BY <2>2, <3>3, SelectionAssumption DEF SetEntity, EntitiesTell
  <2>3. CASE RefreshEntities
    <3>1. \A f \in Entities :
            [e \in Entities |-> IF e \in Scenarios THEN "unknown" ELSE StateOf(on[e])][f] = "unknown"
                => f \in Scenarios
      BY DEF StateOf
    <3>2. on \in [Entities -> BOOLEAN]
      BY DEF TypeOK
    <3>3. /\ PendingLeadsToShown'
          /\ \A f \in Entities : pending'[f] = <<>> => pending[f] = <<>> /\ shown'[f] = shown[f]
      BY <2>3, <3>1, <3>2, RefreshTyped, ShowKeepsStep DEF RefreshEntities
    <3>. QED  BY <2>3, <3>3, SelectionAssumption DEF RefreshEntities, EntitiesTell
  <2>4. ASSUME NEW e \in Entities, Listen(e) PROVE EntityInv'
    <3>1. pending[e] \in Seq(States) /\ pending[e] # <<>>
      BY <2>4 DEF Listen, TypeOK
    <3>2. /\ pending' = [pending EXCEPT ![e] = Tail(pending[e])]
          /\ shown' = shown
          /\ \A f \in Entities : f # e => on'[f] = on[f]
      BY <2>4 DEF Listen, TypeOK
    <3>3. PendingLeadsToShown'
      BY <3>1, <3>2 DEF PendingLeadsToShown, TypeOK
    <3>4. ASSUME e \in Switchable, pending'[e] = <<>>
          PROVE  shown[e] = StateOf(on'[e]) \/ (e \in Scenarios /\ shown[e] = "unknown")
      <4>1. Len(pending[e]) = 1 /\ Head(pending[e]) = shown[e]
        <5>1. Tail(pending[e]) = <<>>
          BY <3>2, <3>4 DEF TypeOK
        <5>2. Len(pending[e]) = 1
          <6>1. Len(Tail(pending[e])) = Len(pending[e]) - 1 /\ Len(pending[e]) \in Nat
            BY <3>1, HeadTailProperties
          <6>2. Len(Tail(pending[e])) = 0
            BY <5>1, <3>1, EmptySeq, Zenon
          <6>. QED  BY <6>1, <6>2, SMT
        <5>3. pending[e][1] = shown[e]
          BY <3>1, <5>2 DEF PendingLeadsToShown
        <5>. QED  BY <3>1, <5>2, <5>3
      <4>2. CASE shown[e] = "unknown"
        BY <4>2 DEF PendingLeadsToShown
      <4>3. CASE shown[e] # "unknown"
        <5>1. on'[e] = (shown[e] = "on")
          BY <2>4, <3>4, <4>1, <4>3 DEF Listen, TypeOK
        <5>2. shown[e] \in {"on", "off"}
          BY <4>3 DEF TypeOK, States
        <5>. QED  BY <5>1, <5>2 DEF StateOf
      <4>. QED  BY <4>2, <4>3
    <3>5. EntitiesTell'
      <4>1. SUFFICES ASSUME NEW f \in Switchable, pending'[f] = <<>>
                     PROVE  shown'[f] = StateOf(on'[f]) \/ (f \in Scenarios /\ shown'[f] = "unknown")
        BY DEF EntitiesTell
      <4>2. CASE f = e
        BY <3>2, <3>4, <4>1, <4>2
      <4>3. CASE f # e
        <5>1. pending'[f] = pending[f] /\ on'[f] = on[f]
          BY <3>2, <4>1, <4>3, SelectionAssumption DEF TypeOK
        <5>. QED  BY <3>2, <4>1, <5>1 DEF EntitiesTell
      <4>. QED  BY <4>2, <4>3
    <3>. QED  BY <3>3, <3>5
  <2>5. ASSUME NEW c \in Calls, Notify(c) PROVE EntityInv'
    BY <2>1, <2>5 DEF Notify
  <2>6. ASSUME NEW p \in Movers, Move(p) PROVE EntityInv'
    BY <2>1, <2>6 DEF Move
  <2>7. CASE UNCHANGED vars
    BY <2>1, <2>7 DEF vars
  <2>. QED  BY <2>2, <2>3, <2>4, <2>5, <2>6, <2>7 DEF Next
<1>. QED  BY <1>1, <1>2, TypeCorrect, PTL DEF Spec, EntityInv

-----------------------------------------------------------------------------
(* Selection.                                                              *)

\* What an entity shows to be off, when its changes were listened to, is off.
LEMMA ShownOffIsOff ==
    ASSUME TypeOK, EntitiesTell, NEW e \in ShownOff
    PROVE  e \in Switchable /\ ~on[e]
<1>1. e \in Switchable /\ e \in Entities /\ pending[e] = <<>> /\ shown[e] = "off"
    BY SelectionAssumption DEF ShownOff
<1>2. "off" = StateOf(on[e])
    BY <1>1 DEF EntitiesTell
<1>3. "off" # "on" /\ on[e] \in BOOLEAN
    BY <1>1 DEF TypeOK
<1>. QED  BY <1>1, <1>2, <1>3 DEF StateOf

\* A scenario in force was applied by the call, or is on.
LEMMA InForceAppliedOrOn ==
    ASSUME NEW c \in Calls, NEW s \in ScenariosOf(c)
    PROVE  s \in Range(c.apply) \/ on[s]
<1> DEFINE X == Scenarios \cup Range(c.apply)
           chosen == {r \in Scenarios : SelectsItself(r, c)}
<1>1. c.apply \in Seq(X) /\ ScenarioOrder \in Seq(X)
  <2>1. c.apply \in Seq(Range(c.apply)) /\ ScenarioOrder \in Seq(Scenarios)
    BY SelectionAssumption
  <2>. QED  BY <2>1
<1>2. Keep(ScenarioOrder, chosen) \in Seq(X) /\ Range(Keep(ScenarioOrder, chosen)) \subseteq chosen
  <2> HIDE DEF chosen, X
  <2>. QED  BY <1>1, KeepProperties
<1>3. /\ InForceNames(c) \in Seq(X)
      /\ Range(InForceNames(c)) = Range(c.apply) \cup Range(Keep(ScenarioOrder, chosen))
  <2>1. InForceNames(c) = c.apply \o Keep(ScenarioOrder, chosen)
    BY DEF InForceNames
  <2> HIDE DEF chosen, X
  <2>. QED  BY <1>1, <1>2, <2>1, ConcatProperties, RangeConcatenation
<1>4. Range(InForce(c)) \subseteq Range(InForceNames(c))
  <2> HIDE DEF chosen, X
  <2>. QED  BY <1>3, KeepProperties DEF InForce
<1>5. s \in Range(c.apply) \/ s \in chosen
  BY <1>2, <1>3, <1>4 DEF ScenariosOf
<1>. QED  BY <1>5 DEF SelectsItself, EvaluatedTrue

\* What is shown to be off takes no part in notifications, for any configuration, people
\* and calls, however switches, refreshes and the listener have followed each other.
THEOREM SwitchesAreObeyed == Spec => ShownOffTakesNoPart
<1>1. TypeOK /\ EntitiesTell /\ [Next]_vars =>
        [\A n \in log' \ log :
            /\ \A d \in n.outcome.selected \cap ShownOff :
                  \/ n.call.asks[d] = "on"
                  \/ \E s \in n.scenarios :
                        /\ s \in Range(n.call.apply) \/ s \notin ShownOff
                        /\ d \in EnablingDeliveries(s)
            /\ \A d \in DOMAIN n.outcome.personal : n.outcome.personal[d] \cap ShownOff = {}]_vars
  <2> SUFFICES ASSUME TypeOK, EntitiesTell, Next, NEW n \in log' \ log
               PROVE  /\ \A d \in n.outcome.selected \cap ShownOff :
                            \/ n.call.asks[d] = "on"
                            \/ \E s \in n.scenarios :
                                  /\ s \in Range(n.call.apply) \/ s \notin ShownOff
                                  /\ d \in EnablingDeliveries(s)
                      /\ \A d \in DOMAIN n.outcome.personal :
                            n.outcome.personal[d] \cap ShownOff = {}
    OBVIOUS
  <2>1. PICK c \in Calls : Notify(c)
    BY DEF Next, SetEntity, Listen, RefreshEntities, Move
  <2>2. /\ n.call = c /\ n.outcome = Outcome(c)
        /\ n.scenarios = IF IsSuppressed(c) THEN {} ELSE ScenariosOf(c)
    BY <2>1 DEF Notify
  <2>3. ASSUME NEW d \in n.outcome.selected \cap ShownOff
        PROVE  \/ n.call.asks[d] = "on"
               \/ \E s \in n.scenarios :
                     /\ s \in Range(n.call.apply) \/ s \notin ShownOff
                     /\ d \in EnablingDeliveries(s)
    <3>1. ~IsSuppressed(c) /\ d \in Selected(c)
      BY <2>2, <2>3 DEF Outcome
    <3>2. d \in ByScenario(c) \/ d \in AskedFor(c)
      BY <2>3, <3>1, ShownOffIsOff DEF Selected
    <3>3. CASE d \in AskedFor(c)
      BY <2>2, <3>3 DEF AskedFor
    <3>4. CASE d \in ByScenario(c)
      <4>1. PICK s \in ScenariosOf(c) : d \in EnablingDeliveries(s)
        BY <3>4 DEF ByScenario
      <4>2. s \in Range(c.apply) \/ s \notin ShownOff
        BY InForceAppliedOrOn, ShownOffIsOff
      <4>. QED  BY <2>2, <3>1, <4>1, <4>2
    <3>. QED  BY <3>2, <3>3, <3>4
  <2>4. ASSUME NEW d \in DOMAIN n.outcome.personal
        PROVE  n.outcome.personal[d] \cap ShownOff = {}
    <3>1. CASE IsSuppressed(c)
      <4>1. DOMAIN n.outcome.personal = {}
        BY <2>2, <3>1 DEF Outcome
      <4>. QED  BY <2>4, <4>1
    <3>2. CASE ~IsSuppressed(c)
      <4>1. n.outcome.personal = PersonalRecipients(c)
        BY <2>2, <3>2 DEF Outcome
      <4>2. n.outcome.personal[d] \subseteq AllRecipients(c)
        BY <2>4, <4>1 DEF PersonalRecipients
      <4>3. AllRecipients(c) \subseteq {p \in People : on[p]}
        BY DEF AllRecipients, EnabledRecipients
      <4>. QED  BY <4>2, <4>3, ShownOffIsOff
    <3>. QED  BY <3>1, <3>2
  <2>. QED  BY <2>3, <2>4
<1>. QED  BY <1>1, TypeCorrect, EntitiesAreTrue, PTL DEF Spec, ShownOffTakesNoPart

\* The scenarios in force for a plain call are those that select themselves.
LEMMA PlainScenarios ==
    ASSUME NEW c, IsPlain(c)
    PROVE  ScenariosOf(c) = EnquireActiveScenarios
<1> DEFINE chosen == {s \in Scenarios : SelectsItself(s, c)}
           registered == {s \in Scenarios : Registered(s)}
<1>1. c.apply = <<>> /\ c.constrain = {}
  BY DEF IsPlain
<1>2. /\ Keep(ScenarioOrder, chosen) \in Seq(Scenarios)
      /\ Range(Keep(ScenarioOrder, chosen)) = Scenarios \cap chosen
  BY KeepProperties, SelectionAssumption
<1>3. InForceNames(c) = Keep(ScenarioOrder, chosen)
  BY <1>1, <1>2, ConcatEmptySeq DEF InForceNames
<1>4. Range(InForce(c)) = Scenarios \cap chosen \cap registered
  BY <1>2, <1>3, KeepProperties DEF InForce
<1>5. Range(<<>>) = {}
  BY DEF Range
<1>6. \A s \in Scenarios : SelectsItself(s, c) <=> EvaluatedTrue(s)
  BY <1>1, <1>5 DEF SelectsItself
<1>7. \A s \in Scenarios : EvaluatedTrue(s) => Registered(s)
  BY DEF EvaluatedTrue
<1>. QED  BY <1>4, <1>6, <1>7 DEF ScenariosOf, EnquireActiveScenarios

\* What the enquiries say is what a plain notification does, whatever was switched.
THEOREM EnquiriesAreTrue == Spec => []EnquiriesForetell
<1>1. TypeOK => EnquiriesForetell
  <2> SUFFICES ASSUME TypeOK, NEW c \in Calls, IsPlain(c)
               PROVE  LET active == EnquireActiveScenarios
                          table == EnquireDeliveriesByScenario
                          personal == {d \in UNION {PersonalOf[p] : p \in EnabledRecipients} : on[d]}
                      IN  Selected(c) =
                            (EnquireImplicitDeliveries \cup (personal \cap registry)
                                \cup UNION {table[s].enabled : s \in active})
                            \ UNION {table[s].disabled : s \in active}
    BY DEF EnquiriesForetell
  <2> DEFINE active == EnquireActiveScenarios
             table == EnquireDeliveriesByScenario
             personal == {d \in UNION {PersonalOf[p] : p \in EnabledRecipients} : on[d]}
             enabled == UNION {table[s].enabled : s \in active}
             disabled == UNION {table[s].disabled : s \in active}
  <2>1. Mode(c) = "implicit" /\ AskedFor(c) = {} /\ AskedOff(c) = {}
    <3>1. registry \subseteq Deliveries
      BY DEF TypeOK
    <3>. QED  BY <3>1 DEF IsPlain, AskedFor, AskedOff
  <2>2. \A s \in active : /\ table[s].enabled = EnablingDeliveries(s)
                          /\ table[s].disabled = DisablingDeliveries(s)
    BY DEF EnquireActiveScenarios, EnquireDeliveriesByScenario, EvaluatedTrue
  <2>3. enabled = UNION {EnablingDeliveries(s) : s \in active}
    <3> HIDE DEF table, active
    <3>. QED  BY <2>2
  <2>4. disabled = UNION {DisablingDeliveries(s) : s \in active}
    <3> HIDE DEF table, active
    <3>. QED  BY <2>2
  <2>5. ByScenario(c) = enabled /\ OffByScenario(c) = disabled
    <3>1. ScenariosOf(c) = active
      BY PlainScenarios
    <3> HIDE DEF table, active, enabled, disabled
    <3>. QED  BY <2>1, <2>3, <2>4, <3>1 DEF ByScenario, OffByScenario
  <2>6. ByPeople(c) = UNION {PersonalOf[p] : p \in EnabledRecipients}
    <3>1. AllRecipients(c) = EnabledRecipients
      BY DEF IsPlain, AllRecipients, EnabledRecipients
    <3>. QED  BY <2>1, <3>1 DEF ByPeople
  <2>7. /\ ByDefault(c) = EnquireImplicitDeliveries
        /\ \A d \in EnquireImplicitDeliveries : on[d] /\ d \in registry
    BY <2>1 DEF ByDefault, EnquireImplicitDeliveries, ImplicitDeliveries, OfKind, TypeOK, Kinds
  <2>8. enabled \subseteq registry
    <3> HIDE DEF table, active, enabled
    <3>. QED  BY <2>3 DEF EnablingDeliveries, WithEnabled
  <2> HIDE DEF table, active, enabled, disabled
  <2>9. Selected(c) = (EnquireImplicitDeliveries \cup (personal \cap registry) \cup enabled) \ disabled
    <3>1. AllDisabled(c) = disabled
      BY <2>1, <2>5 DEF AllDisabled
    <3>2. AllGlobalEnabled(c) = enabled \cup EnquireImplicitDeliveries
      BY <2>1, <2>5, <2>7 DEF AllGlobalEnabled
    <3>. QED  BY <2>1, <2>5, <2>6, <2>7, <2>8, <3>1, <3>2 DEF Selected
  <2>. QED  BY <2>9 DEF active, table, enabled, disabled
<1>. QED  BY <1>1, TypeCorrect, PTL

-----------------------------------------------------------------------------
(* No memory.                                                              *)

\* Selection as it would be with a given registry, lists, flags and whereabouts, and
\* nothing else to go by.
At(r, l, o, w) == INSTANCE DeliverySelection
                    WITH registry <- r, lists <- l, on <- o, whereabouts <- w,
                         shown <- <<>>, pending <- <<>>, media <- <<>>, log <- {}

OutcomeAt(r, l, o, w, c) == At(r, l, o, w)!Outcome(c)

\* What a call selects depends on the registry, the lists, the flags and the whereabouts
\* alone: neither what is shown or pending, nor earlier notifications and the media they
\* left with the scenarios, enter into it.
LEMMA OutcomeFromThese ==
    ASSUME NEW c
    PROVE  Outcome(c) = OutcomeAt(registry, lists, on, whereabouts, c)
<1>1. EnabledRecipients = At(registry, lists, on, whereabouts)!EnabledRecipients
  BY DEF EnabledRecipients, At!EnabledRecipients
<1>2. Home = At(registry, lists, on, whereabouts)!Home
  BY <1>1 DEF Home, At!Home
<1>3. Away = At(registry, lists, on, whereabouts)!Away
  BY <1>1, <1>2 DEF Away, At!Away
<1>4. Lone = At(registry, lists, on, whereabouts)!Lone
  BY <1>2 DEF Lone, At!Lone
<1>5. Occupancy = At(registry, lists, on, whereabouts)!Occupancy
  BY <1>2, <1>3, <1>4 DEF Occupancy, At!Occupancy
<1>6. \A s : Registered(s) = At(registry, lists, on, whereabouts)!Registered(s)
  BY DEF Registered, At!Registered, ConditionsBuilt, At!ConditionsBuilt, Explicit, At!Explicit
<1>7. \A s : EvaluatedTrue(s) = At(registry, lists, on, whereabouts)!EvaluatedTrue(s)
  BY <1>5, <1>6 DEF EvaluatedTrue, At!EvaluatedTrue
<1>8. \A s, S : Keep(s, S) = At(registry, lists, on, whereabouts)!Keep(s, S)
  BY DEF Keep, At!Keep
<1>9. \A f : Range(f) = At(registry, lists, on, whereabouts)!Range(f)
  BY DEF Range, At!Range
<1>10. \A s : SelectsItself(s, c) = At(registry, lists, on, whereabouts)!SelectsItself(s, c)
  BY <1>7, <1>9 DEF SelectsItself, At!SelectsItself
<1>11. InForceNames(c) = At(registry, lists, on, whereabouts)!InForceNames(c)
  BY <1>8, <1>10 DEF InForceNames, At!InForceNames
<1>12. IsSuppressed(c) = At(registry, lists, on, whereabouts)!IsSuppressed(c)
  BY <1>9, <1>11 DEF IsSuppressed, At!IsSuppressed
<1>13. InForce(c) = At(registry, lists, on, whereabouts)!InForce(c)
  BY <1>6, <1>8, <1>11 DEF InForce, At!InForce
<1>14. ScenariosOf(c) = At(registry, lists, on, whereabouts)!ScenariosOf(c)
  BY <1>9, <1>13 DEF ScenariosOf, At!ScenariosOf
<1>15. AllRecipients(c) = At(registry, lists, on, whereabouts)!AllRecipients(c)
  BY <1>1 DEF AllRecipients, At!AllRecipients
<1>16. /\ AskedFor(c) = At(registry, lists, on, whereabouts)!AskedFor(c)
       /\ AskedOff(c) = At(registry, lists, on, whereabouts)!AskedOff(c)
  BY DEF AskedFor, At!AskedFor, AskedOff, At!AskedOff
<1>17. \A s : /\ EnablingDeliveries(s) = At(registry, lists, on, whereabouts)!EnablingDeliveries(s)
              /\ DisablingDeliveries(s) = At(registry, lists, on, whereabouts)!DisablingDeliveries(s)
  BY DEF EnablingDeliveries, At!EnablingDeliveries, DisablingDeliveries, At!DisablingDeliveries,
         WithEnabled, At!WithEnabled, Governing, At!Governing, EnabledIn, At!EnabledIn,
         Explicit, At!Explicit
<1>18. Mode(c) = At(registry, lists, on, whereabouts)!Mode(c)
  BY DEF Mode, At!Mode
<1>19. /\ ByScenario(c) = At(registry, lists, on, whereabouts)!ByScenario(c)
       /\ OffByScenario(c) = At(registry, lists, on, whereabouts)!OffByScenario(c)
  BY <1>14, <1>17, <1>18 DEF ByScenario, At!ByScenario, OffByScenario, At!OffByScenario
<1>20. ByPeople(c) = At(registry, lists, on, whereabouts)!ByPeople(c)
  BY <1>15, <1>18 DEF ByPeople, At!ByPeople
<1>21. ByDefault(c) = At(registry, lists, on, whereabouts)!ByDefault(c)
  BY <1>18 DEF ByDefault, At!ByDefault, ImplicitDeliveries, At!ImplicitDeliveries, OfKind, At!OfKind
<1>22. AllDisabled(c) = At(registry, lists, on, whereabouts)!AllDisabled(c)
  BY <1>16, <1>19 DEF AllDisabled, At!AllDisabled
<1>23. AllGlobalEnabled(c) = At(registry, lists, on, whereabouts)!AllGlobalEnabled(c)
  BY <1>16, <1>19, <1>21 DEF AllGlobalEnabled, At!AllGlobalEnabled
<1>24. Selected(c) = At(registry, lists, on, whereabouts)!Selected(c)
  BY <1>16, <1>19, <1>20, <1>22, <1>23 DEF Selected, At!Selected
<1>25. \A ds : Ranked(ds) = At(registry, lists, on, whereabouts)!Ranked(ds)
  BY DEF Ranked, At!Ranked, RankOf, At!RankOf
<1>26. PersonalRecipients(c) = At(registry, lists, on, whereabouts)!PersonalRecipients(c)
  BY <1>15, <1>23, <1>24 DEF PersonalRecipients, At!PersonalRecipients
<1>. QED
  BY <1>12, <1>24, <1>25, <1>26 DEF OutcomeAt, Outcome, At!Outcome

\* Every notification was selected by the flags and whereabouts it noted, from the registry
\* and the lists of the startup.
SelectedByItsView ==
    \A n \in log : n.outcome = OutcomeAt(registry, lists, n.view.on, n.view.whereabouts, n.call)

\* Switching leaves no trace: whatever happened since, when everything is as it was for a
\* notification, the same call is given the same deliveries for the same people.
THEOREM NothingIsRemembered == Spec => []SelectionHasNoMemory
<1>1. Init => SelectedByItsView
  BY DEF Init, SelectedByItsView
<1>2. SelectedByItsView /\ [Next]_vars => SelectedByItsView'
  <2> SUFFICES ASSUME SelectedByItsView, [Next]_vars PROVE SelectedByItsView'
    OBVIOUS
  <2>1. ASSUME UNCHANGED <<registry, lists, log>> PROVE SelectedByItsView'
    BY <2>1 DEF SelectedByItsView
  <2>2. ASSUME NEW c \in Calls, Notify(c) PROVE SelectedByItsView'
    <3>1. registry' = registry /\ lists' = lists
      BY <2>2 DEF Notify
    <3>2. ASSUME NEW n \in log'
          PROVE  n.outcome = OutcomeAt(registry, lists, n.view.on, n.view.whereabouts, n.call)
      <4>1. CASE n \in log
        BY <4>1 DEF SelectedByItsView
      <4>2. CASE n \notin log
        <5>1. n.call = c /\ n.view.on = on /\ n.view.whereabouts = whereabouts /\ n.outcome = Outcome(c)
          BY <2>2, <3>2, <4>2 DEF Notify, View
        <5>. QED  BY <5>1, OutcomeFromThese
      <4>. QED  BY <4>1, <4>2
    <3>. QED  BY <3>1, <3>2 DEF SelectedByItsView
  <2>3. ASSUME NEW e \in Used, SetEntity(e) PROVE SelectedByItsView'
    BY <2>1, <2>3 DEF SetEntity
  <2>4. ASSUME NEW e \in Entities, Listen(e) PROVE SelectedByItsView'
    BY <2>1, <2>4 DEF Listen
  <2>5. CASE RefreshEntities
    BY <2>1, <2>5 DEF RefreshEntities
  <2>6. ASSUME NEW p \in Movers, Move(p) PROVE SelectedByItsView'
    BY <2>1, <2>6 DEF Move
  <2>7. CASE UNCHANGED vars
    BY <2>1, <2>7 DEF vars
  <2>. QED  BY <2>2, <2>3, <2>4, <2>5, <2>6, <2>7 DEF Next
<1>3. SelectedByItsView => SelectionHasNoMemory
  <2>1. SUFFICES ASSUME SelectedByItsView, NEW n \in log, n.view = View
                 PROVE  Outcome(n.call) = n.outcome
    BY DEF SelectionHasNoMemory
  <2>2. n.view.on = on /\ n.view.whereabouts = whereabouts
    BY <2>1 DEF View
  <2>. QED  BY <2>1, <2>2, OutcomeFromThese DEF SelectedByItsView
<1>. QED  BY <1>1, <1>2, <1>3, PTL DEF Spec

=============================================================================
