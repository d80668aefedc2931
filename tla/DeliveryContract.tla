-------------------------- MODULE DeliveryContract --------------------------
(***************************************************************************)
(* What one notification promises its caller, whatever its deliveries,     *)
(* transports, snapshots and timers do: first the deliveries selected for  *)
(* it are attempted; only when none of them reached anyone may others be   *)
(* tried as fallbacks; and once the notification is closed nothing more is *)
(* sent for it.  Notification.tla is shown to implement this module.       *)
(***************************************************************************)
CONSTANT Deliveries       \* the deliveries the integration is configured with

VARIABLES
    selected,             \* the deliveries chosen for this notification
    stage,                \* how far the notification has got
    reached               \* the deliveries that have reached someone

vars == <<selected, stage, reached>>

Stages == {"selected", "fallback", "closed"}

\* The variables keep to their sets.
TypeOK ==
    /\ selected \in SUBSET Deliveries
    /\ stage \in Stages
    /\ reached \in SUBSET Deliveries

Init ==
    /\ selected \in SUBSET Deliveries
    /\ stage = "selected"
    /\ reached = {}

\* A selected delivery reaches someone.
ReachSelected ==
    /\ stage = "selected"
    /\ \E d \in selected : reached' = reached \cup {d}
    /\ UNCHANGED <<selected, stage>>

\* Nothing selected reached anyone: turn to the fallbacks.
FallBack ==
    /\ stage = "selected"
    /\ reached = {}
    /\ stage' = "fallback"
    /\ UNCHANGED <<selected, reached>>

\* A fallback, which is never one of the selected deliveries, reaches someone.
ReachFallback ==
    /\ stage = "fallback"
    /\ \E d \in Deliveries \ selected : reached' = reached \cup {d}
    /\ UNCHANGED <<selected, stage>>

Close ==
    /\ stage # "closed"
    /\ stage' = "closed"
    /\ UNCHANGED <<selected, reached>>

Next == ReachSelected \/ FallBack \/ ReachFallback \/ Close

Spec == Init /\ [][Next]_vars

=============================================================================
