----------------------------- MODULE MCEnvelopes -----------------------------
(***************************************************************************)
(* Instances of Envelopes for TLC: two people, one with an address that is *)
(* not valid and a disabled phone, one with personal targets that have     *)
(* data; two pushes of one transport, of which the second leaves out what  *)
(* others had, and mail that chooses its addresses.                        *)
(***************************************************************************)
EXTENDS Envelopes

MCNames == {"ann", "bob", "ann_phone", "bob_phone", "bob_tablet", "ann@", "bob@", "bob!", "hall"}
MCValidates ==
    [c \in {"entity_id", "device_id", "email", "phone", "mobile_app_id", "person_id"} |->
        CASE c = "person_id" -> {"ann", "bob"}
          [] c = "mobile_app_id" -> {"ann_phone", "bob_phone", "bob_tablet"}
          [] c = "email" -> {"ann@", "bob@"}
          [] OTHER -> {}]
Person(n) == <<"person_id", n>>
Mobile(n) == <<"mobile_app_id", n>>
Mail(n) == <<"email", n>>

MCDevicesOf == [ann |-> {"ann_phone"}, bob |-> {"bob_phone", "bob_tablet"}]
MCRecipients ==
    [ann |-> [contacts |-> {Mail("ann@")}, data |-> [urgency |-> "low"]],
     bob |-> [contacts |-> {Mail("bob!")}, target |-> {<<"area_id", "hall">>}, discovery |-> TRUE,
              registered |-> {"bob_tablet"}, disabled |-> {"bob_tablet"}]]
MCPersonal ==
    [ann |-> [push1 |-> [enabled |-> TRUE, at |-> <<Mobile("ann_phone")>>, data |-> [sound |-> "a"]],
              mail |-> [enabled |-> TRUE, at |-> <<>>, data |-> [sound |-> "a"]]],
     bob |-> [push1 |-> [enabled |-> TRUE, at |-> <<Mobile("bob_phone"), Mail("bob@")>>,
                         data |-> [sound |-> "b"]],
              mail |-> [enabled |-> FALSE, at |-> <<Mail("bob@")>>, data |-> NoData]]]
Default ==
    [required |-> "always", usage |-> "no_action", occupancy |-> "all", target |-> {},
     categories |-> {"mobile_app_id"}, select |-> NoRule, data |-> NoData, unique |-> FALSE,
     message_usage |-> "STANDARD", message |-> FALSE, title |-> FALSE, spoken |-> FALSE]
MCClassDefaults ==
    [push |-> Default,
     smtp |-> [Default EXCEPT !.categories = {"email", "person_id", "_UNKNOWN_"}]]
MCTransportGiven ==
    [push |-> <<>>, smtp |-> [usage |-> "merge_always", message_usage |-> "COMBINE_TITLE"]]
MCGiven ==
    [push1 |-> [transport |-> "push", occupancy |-> "only_in", data |-> [urgency |-> "low"]],
     push2 |-> [transport |-> "push", unique |-> TRUE, usage |-> "no_delivery", spoken |-> TRUE,
                required |-> "optional", target |-> {Mobile("bob_tablet")}],
     mail |-> [transport |-> "smtp", target |-> {Person("ann")},
               select |-> [include |-> {"anyone"}, exclude |-> {"hallway"}]]]
MCDigitless == [d \in DOMAIN MCGiven |-> IF d = "mail" THEN "mail" ELSE "push"]
MCMatches == [anyone |-> {"ann", "bob", "ann@", "bob@", "hall"}, hallway |-> {"hall"}]

NoScenario == [at |-> {}, data |-> NoData, template |-> "none"]
Plain ==
    [selected |-> DOMAIN MCGiven, target |-> {}, recipients |-> {"ann", "bob"},
     personal |-> [d \in DOMAIN MCGiven |-> {}], scenario |-> [d \in DOMAIN MCGiven |-> NoScenario],
     overrides |-> <<>>, data |-> NoData, title |-> TRUE, spoken |-> FALSE]
MCCalls ==
    {Plain,
     [Plain EXCEPT !.recipients = {"bob"}, !.data = [urgency |-> "high"],
                   !.overrides = [push |-> [at |-> {}, data |-> NoData, message |-> TRUE]]],
     [Plain EXCEPT !.target = {Person("bob"), <<"_UNKNOWN_", "hall">>},
                   !.spoken = TRUE, !.title = FALSE,
                   !.scenario["mail"] = [at |-> {Mail("bob@"), Person("ann")},
                                         data |-> [urgency |-> "high"], template |-> "ok"]],
     [Plain EXCEPT !.personal["mail"] = {"bob", "hall"},
                   !.scenario["push1"] = [NoScenario EXCEPT !.template = "fails"],
                   !.overrides = [mail |-> [at |-> {Person("ann"), Mobile("ann_phone"),
                                                    <<"area_id", "hall">>},
                                            data |-> [urgency |-> "low"], message |-> TRUE]]]}
MCSnoozedSets == {{}, {Mobile("ann_phone")}, {Person("bob")}}
=============================================================================
