---------------------------- MODULE MCOfflineAlarm ----------------------------
(* Two clients, and rules that share the time of a client's last alarm.    *)
EXTENDS OfflineAlarm

TwoRules == <<[reads |-> "presence", interval |-> 1], [reads |-> "load", interval |-> 0]>>
PresenceRule == <<[reads |-> "presence", interval |-> 1]>>
===============================================================================
