------------------------------ MODULE MCSnoozer ------------------------------
(***************************************************************************)
(* Instances of Snoozer for TLC: two people, one of them with a phone, an  *)
(* e-mail delivery, and two pushes, the name of one of which is split in   *)
(* two at its underscore, the first part being the name of the other.      *)
(***************************************************************************)
EXTENDS Snoozer

MCPeople == {"bob", "jane"}
MCDevices == {"phone"}
MCOwnersOf == [phone |-> {"bob"}]
MCDeliveries == {"mail", "push", "push_tv"}
MCTransports == {"Email", "Push"}
MCTransportOf == [mail |-> "Email", push |-> "Push", push_tv |-> "Push"]
MCPriorities == {"critical", "medium"}

MCNames == MCDevices \cup MCDeliveries \cup MCTransports \cup MCPriorities
MCParts == [n \in MCNames |-> IF n = "push_tv" THEN 2 ELSE 1]
MCFirstPart == [n \in MCNames |-> IF n = "push_tv" THEN "push" ELSE n]

=============================================================================
