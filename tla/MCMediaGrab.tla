----------------------------- MODULE MCMediaGrab -----------------------------
(***************************************************************************)
(* Instances of MediaGrab for TLC: a notification with two deliveries that *)
(* need a picture of the yard, for whose camera the one at the gate stands *)
(* in, and another that turns the gate's camera elsewhere.                 *)
(***************************************************************************)
EXTENDS MediaGrab

MCNotifications == {"motion", "bell"}
MCGrabs == {"motion_task", "motion_mail", "motion_push", "bell_task"}
MCNotificationOf == [g \in MCGrabs |-> IF g = "bell_task" THEN "bell" ELSE "motion"]
MCPrefetchOf == [motion |-> "motion_task", bell |-> "bell_task"]
MCCameras == {"yard", "gate"}
MCRequests == {[motion |-> m, bell |-> "gate"] : m \in {"yard", "feed", "sketch"}}
MCAlternativesOf == [yard |-> <<"gate">>, gate |-> <<>>]
MCPresets == {"home", "drive", "door"}
MCHome == [c \in MCCameras |-> "home"]
MCPresetOf == [motion |-> "drive", bell |-> "door"]

=============================================================================
