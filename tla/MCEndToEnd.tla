------------------------------ MODULE MCEndToEnd ------------------------------
(* A server without monitors: they play no part in who is online.          *)
EXTENDS EndToEnd

NoMonitors == {<<>>}
===============================================================================
