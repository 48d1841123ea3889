------------------------------- MODULE StatusBot -------------------------------
(***************************************************************************)
(* The Telegram bot.  It fetches the published status every three seconds  *)
(* and calls send2tg for every entry in it, which keeps a list of servers  *)
(* that are reported off and two counters per server, so that a server is  *)
(* reported when it was seen off, or on again, often enough.               *)
(*                                                                         *)
(* A server is what the bot knows of it: its display name.  Entries of one *)
(* name, entries that are missing and the order of entries are covered,    *)
(* because any entry may be handled next.                                  *)
(***************************************************************************)
EXTENDS Naturals

CONSTANTS
    Servers,       \* i["name"] of the entries
    Patience       \* 10 polls

ASSUME PatienceAssumption == Patience \in Nat

VARIABLES
    offs,          \* servers reported off
    counterOff,    \* polls that saw a server off
    counterOn      \* polls that saw it on again

botVars == <<offs, counterOff, counterOn>>

BotTypeOK ==
    /\ offs \subseteq Servers
    /\ counterOff \in [Servers -> 0 .. Patience]
    /\ counterOn \in [Servers -> 0 .. Patience]

Zero == [s \in Servers |-> 0]

BotInit == offs = {} /\ counterOff = Zero /\ counterOn = Zero

(* Faulty variant: a server reported on starts its next absence with the   *)
(* count of its return.                                                    *)
SeenOnUncleared(s) ==
    IF s \notin offs THEN UNCHANGED botVars
    ELSE IF counterOn[s] < Patience
    THEN /\ counterOn' = [counterOn EXCEPT ![s] = @ + 1]
         /\ UNCHANGED <<offs, counterOff>>
    ELSE /\ offs' = offs \ {s}
         /\ UNCHANGED <<counterOff, counterOn>>

SeenOn(s) ==
    IF s \notin offs THEN UNCHANGED botVars
    ELSE IF counterOn[s] < Patience
    THEN /\ counterOn' = [counterOn EXCEPT ![s] = @ + 1]
         /\ UNCHANGED <<offs, counterOff>>
    ELSE /\ offs' = offs \ {s}
         /\ counterOn' = [counterOn EXCEPT ![s] = 0]
         /\ UNCHANGED counterOff

SeenOff(s) ==
    IF s \in offs THEN UNCHANGED botVars
    ELSE IF counterOff[s] < Patience
    THEN /\ counterOff' = [counterOff EXCEPT ![s] = @ + 1]
         /\ UNCHANGED <<offs, counterOn>>
    ELSE /\ offs' = offs \cup {s}
         /\ counterOff' = [counterOff EXCEPT ![s] = 0]
         /\ UNCHANGED counterOn

Send2tg(s, online) == IF online THEN SeenOn(s) ELSE SeenOff(s)

(* A status that cannot be fetched ends the bot, and docker starts it      *)
(* again: nothing it knew is kept.                                         *)
Restart == offs' = {} /\ counterOff' = Zero /\ counterOn' = Zero

BotNext == (\E s \in Servers, online \in BOOLEAN : Send2tg(s, online)) \/ Restart

BotSpec == BotInit /\ [][BotNext]_botVars

-------------------------------------------------------------------------------

(* Only one of the two counters of a server is in use at a time.           *)
OneCounter ==
    \A s \in Servers : IF s \in offs THEN counterOff[s] = 0 ELSE counterOn[s] = 0

(* The list and the two counters amount to one suspicion per server: its   *)
(* notices alternate, each after more than ten polls against the last one. *)
(* The polls need not be consecutive: seeing the server as it was reported *)
(* does not take any of them back.                                         *)
Watch == INSTANCE Suspicion WITH
        told <- [s \in Servers |-> IF s \in offs THEN "off" ELSE "on"],
        doubt <- [s \in Servers |-> counterOff[s] + counterOn[s]]

ImplementsSuspicion == Watch!Spec
===============================================================================
