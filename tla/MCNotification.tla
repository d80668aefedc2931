--------------------------- MODULE MCNotification ---------------------------
(***************************************************************************)
(* Instances of Notification for TLC.  A chime that needs no snapshot, a   *)
(* push delivery that does, and mail, over three transports.               *)
(***************************************************************************)
EXTENDS Notification

MCDeliveries == {"chime", "push", "email"}
MCTransports == {"Chime", "Push", "Text"}
MCTransportOf == [chime |-> "Chime", push |-> "Push", email |-> "Text"]

=============================================================================
