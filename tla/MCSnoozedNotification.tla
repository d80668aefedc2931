----------------------- MODULE MCSnoozedNotification -----------------------
(***************************************************************************)
(* Instances of SnoozedNotification for TLC.  Bob has a phone and an       *)
(* e-mail address, jane an e-mail address; "mail" has a default target     *)
(* that it adds to its recipients, "push" one that it uses when no one     *)
(* else can be reached.                                                    *)
(***************************************************************************)
EXTENDS SnoozedNotification

MCPeople == {"bob", "jane"}
MCDevices == {"phone"}
MCOwnersOf == [phone |-> {"bob"}]
MCDeliveries == {"mail", "push"}
MCTransports == {"Email", "Push"}
MCTransportOf == [mail |-> "Email", push |-> "Push"]
MCPriorities == {"critical", "medium"}

MCNames == MCDevices \cup MCDeliveries \cup MCTransports \cup MCPriorities
MCParts == [n \in MCNames |-> 1]
MCFirstPart == [n \in MCNames |-> n]

MCAddresses == {"phone", "bob@", "jane@"}
MCAddressesOf == [bob |-> {"phone", "bob@"}, jane |-> {"jane@"}]
MCAccepts == [mail |-> {"bob@", "jane@"}, push |-> {"phone"}]
MCDefaultTarget == [mail |-> {"bob"}, push |-> {"phone"}]
MCTargetUsage == [mail |-> "merge_always", push |-> "no_delivery"]

NoOverride == [d \in MCDeliveries |-> {}]

MCCalls ==
    [priority : MCPriorities, target : {{}, {"jane"}, {"phone"}}, scenario : {{}},
     override : {NoOverride}]
    \cup [priority : {"medium"}, target : {{}, {"jane"}}, scenario : {{"bob"}},
          override : {NoOverride, [NoOverride EXCEPT !["push"] = {"bob"}]}]

\* Calls that name no target, for what the documentation says.
MCPlainCalls ==
    [priority : {"medium"}, target : {{}}, scenario : {{}}, override : {NoOverride}]

=============================================================================
