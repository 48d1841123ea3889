------------------------------- MODULE Suspicion -------------------------------
(***************************************************************************)
(* What a watcher promises to those it tells about servers: of each it has *)
(* last said that it is on or off, and it says the other only when it was  *)
(* contradicted Patience times before since then.  What it said alternates *)
(* per server; nothing it sees of one server is counted for another.       *)
(***************************************************************************)
EXTENDS Naturals

CONSTANTS
    Servers,       \* who is watched
    Patience       \* contradictions that are ignored

VARIABLES
    told,          \* what was last said of each server, "on" at first
    doubt          \* how often that was contradicted since

vars == <<told, doubt>>

Opposite(state) == IF state = "on" THEN "off" ELSE "on"

Init ==
    /\ told = [s \in Servers |-> "on"]
    /\ doubt = [s \in Servers |-> 0]

Doubt(s) ==
    /\ doubt[s] < Patience
    /\ doubt' = [doubt EXCEPT ![s] = @ + 1]
    /\ UNCHANGED told

Tell(s) ==
    /\ doubt[s] = Patience
    /\ told' = [told EXCEPT ![s] = Opposite(@)]
    /\ doubt' = [doubt EXCEPT ![s] = 0]

(* A watcher that is started again has said nothing yet.                   *)
Forget ==
    /\ told' = [s \in Servers |-> "on"]
    /\ doubt' = [s \in Servers |-> 0]

Next == (\E s \in Servers : Doubt(s) \/ Tell(s)) \/ Forget

Spec == Init /\ [][Next]_vars
===============================================================================
