----------------------------- MODULE MCClientLink -----------------------------
(* A monitor that a reload adds, removes or gives another target.          *)
EXTENDS ClientLink, TLC

CONSTANTS x, y

OneMonitor == {<<>>, <<[name |-> "a", target |-> x]>>, <<[name |-> "a", target |-> y]>>}

(* The targets and the connections play the same parts.                    *)
Alike == Permutations(Targets) \cup Permutations(Conns)
===============================================================================
