------------------------- MODULE MCDeliverySelection -------------------------
(***************************************************************************)
(* Instances of DeliverySelection for TLC: a push of its own transport's   *)
(* making, mail, a chime only for scenarios, a text for one person and a   *)
(* fallback, and a delivery that is not valid; scenarios for when all are  *)
(* away, for the night, and one that names the delivery that is not valid. *)
(***************************************************************************)
EXTENDS DeliverySelection

MCTransports == {"mobile", "smtp", "bell", "none"}
MCDeliveries == {"DEFAULT_mobile", "mail", "chime", "text", "sms"}
MCScenarios == {"away", "night", "wrong"}
MCPeople == {"ann", "bob"}
MCTransportOf ==
    [DEFAULT_mobile |-> "mobile", mail |-> "smtp", chime |-> "bell", text |-> "smtp", sms |-> "bell"]
MCConf ==
    [mail |-> [enabled |-> "unset", selection |-> {"default"}, rank |-> "first", valid |-> TRUE],
     chime |-> [enabled |-> "on", selection |-> {"scenario"}, rank |-> "any", valid |-> TRUE],
     text |-> [enabled |-> "unset", selection |-> {"fallback"}, rank |-> "last", valid |-> TRUE],
     sms |-> [enabled |-> "on", selection |-> {"default"}, rank |-> "any", valid |-> FALSE]]
MCAutoOf == [t \in MCTransports |-> IF t = "mobile" THEN "DEFAULT_mobile" ELSE NoDelivery]
Entry(k, e) == [key |-> k, enabled |-> e]
MCEntries ==
    [away |-> <<Entry("chime", "unset"), Entry(".*i.*", "unset")>>,
     night |-> <<Entry("m.*", "false"), Entry("mail", "null"), Entry("chime", "false")>>,
     wrong |-> <<Entry("sms", "true")>>]
MCMatches ==
    [k \in MCDeliveries \cup {".*i.*", "m.*"} |->
        CASE k = ".*i.*" -> {"mail", "chime", "DEFAULT_mobile"}
          [] k = "m.*" -> {"mail"} [] OTHER -> {k}]
MCCondition == [away |-> {{"ALL_AWAY"}}, night |-> {{"ALL_AWAY"}, {"ALL_HOME"}}, wrong |-> {{}}]
MCRaises == [away |-> {}, night |-> {{"ALL_AWAY"}}, wrong |-> {}]
MCScenarioOrder == <<"away", "night", "wrong">>
MCMediaOf ==
    [away |-> [camera |-> "porch", clip |-> NoMedia], night |-> [camera |-> "yard", clip |-> "loop"],
     wrong |-> NoMediaAtAll]
MCPersonalOf == [ann |-> {"text"}, bob |-> {"DEFAULT_mobile"}]
MCSwitchable == (MCTransports \cup MCDeliveries \cup MCScenarios \cup MCPeople) \ {"DEFAULT_mobile"}
MCTransportsOn == {MCTransports, {"bell", "mobile"}}

Nothing == [d \in MCDeliveries |-> "absent"]
Plain ==
    [targeted |-> FALSE, persons |-> {}, recipients |-> MCPeople, form |-> "none",
     asks |-> Nothing, mode |-> "unset", apply |-> <<>>, require |-> {}, constrain |-> {},
     media |-> NoMediaAtAll, implied |-> NoMediaAtAll]
MCCalls ==
    {Plain,
     [Plain EXCEPT !.form = "list", !.asks["chime"] = "on", !.apply = <<"night">>],
     [Plain EXCEPT !.form = "map", !.asks["mail"] = "off", !.apply = <<"away", "night">>],
     [Plain EXCEPT !.mode = "fixed", !.form = "name", !.asks["text"] = "on", !.apply = <<"wrong">>,
                   !.require = {"wrong"}],
     [Plain EXCEPT !.targeted = TRUE, !.persons = {"ann"}, !.apply = <<"away">>,
                   !.constrain = {"night"}, !.implied = [camera |-> NoMedia, clip |-> "attached"]],
     [Plain EXCEPT !.require = {"away"}]}

=============================================================================
