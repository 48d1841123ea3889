---------------------------- MODULE MCMonthTraffic ----------------------------
(* One client whose counter is low or high.                                *)
EXTENDS MonthTraffic
===============================================================================
