--------------------------- MODULE MCNotifications ---------------------------
(* Instances of Notifications for TLC.                                     *)
EXTENDS Notifications

SomeWishes == {{}, {"in_app", "email"}, {"sms"}}
=============================================================================
