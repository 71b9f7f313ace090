------------------------- MODULE MCLiveNotifications -------------------------
(* Instances of LiveNotifications for TLC. *)
EXTENDS LiveNotifications

CONSTANTS s1, s2

MCWatched == [s \in Socket |-> "t1"]
MCHome == [k \in Ticket |-> "completed-0"]
=============================================================================
