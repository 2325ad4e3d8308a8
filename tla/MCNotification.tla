---------------------------- MODULE MCNotification ----------------------------
(* Instances of Notification for TLC.                                      *)
EXTENDS Notification, TLC

\* The renter never set a preference; the host wants text messages only.
MCPreferences == [p \in Parties |-> IF p = "renter" THEN NULL ELSE {"sms"}]
===============================================================================
