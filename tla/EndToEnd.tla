-------------------------------- MODULE EndToEnd --------------------------------
(***************************************************************************)
(* From a machine to a message on somebody's phone: the client and the     *)
(* server (ClientLink), the status the server publishes every second, and  *)
(* the bot that watches it (StatusBot).                                    *)
(***************************************************************************)
EXTENDS ClientLink, StatusBot

CONSTANT User                     \* the machine's entry in the status

ASSUME UserAssumption == Servers = {User}

VARIABLE published                \* online4 or online6 in stats.json

allVars == <<vars, published, botVars>>

(* JSONUpdateThread writes the table as it is.                             *)
Publish ==
    /\ published' = Online
    /\ UNCHANGED <<vars, botVars>>

Poll ==
    /\ Send2tg(User, published)
    /\ UNCHANGED <<vars, published>>

(* The status cannot be fetched while the server's container restarts.     *)
BotRestarts ==
    /\ ~calm
    /\ Restart
    /\ UNCHANGED <<vars, published>>

LinkStep ==
    /\ Next
    /\ UNCHANGED <<published, botVars>>

InitAll == Init /\ BotInit /\ published = FALSE

NextAll == LinkStep \/ Publish \/ Poll \/ BotRestarts

(* The status is published and polled again and again.                     *)
SpecAll ==
    /\ InitAll /\ [][NextAll]_allVars
    /\ Fairness
    /\ WF_allVars(Publish) /\ WF_allVars(Poll)

-------------------------------------------------------------------------------

(* A machine that stays down is reported: its session ends although nobody *)
(* may have closed it, the status shows that, and the bot tells it, however*)
(* often the machine came and went before.                                 *)
OutageNoticed == calm /\ pc = "off" ~> User \in offs
===============================================================================
