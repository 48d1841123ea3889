-------------------------------- MODULE BanList --------------------------------
(***************************************************************************)
(* What a pool of bans promises: a table from what is banned to the time   *)
(* its ban expires, of bounded size.  An update removes every ban that has *)
(* expired and no other.                                                   *)
(***************************************************************************)
EXTENDS Integers, FiniteSets, Functions

CONSTANTS
    Data,          \* what can be banned: addresses or ranges
    Capacity,      \* bans the pool has room for
    Expiries,      \* times at which a ban may expire
    Never          \* expiry of a ban that does not expire

VARIABLES
    bans,          \* function from the banned data to their expiry
    now            \* the clock, in seconds

Banned == DOMAIN bans

Without(S) == Restrict(bans, Banned \ S)

Init == bans = [d \in {} |-> Never] /\ now = 0

(* A ban is renewed, or added if there is room; the others stay.            *)
Ban(d) ==
    /\ UNCHANGED now
    /\ d \in Banned' /\ bans'[d] \in Expiries \cup {Never}
    /\ Cardinality(Banned') <= Capacity
    /\ Without({d})' = Without({d})

Unban(d) == UNCHANGED now /\ bans' = Without({d})

Expire ==
    /\ UNCHANGED now
    /\ bans' = Without({d \in Banned : bans[d] # Never /\ bans[d] < now})

UnbanAll == UNCHANGED now /\ bans' = Without(Banned)

Tick == now' = now + 1 /\ UNCHANGED bans

Next ==
    \/ Tick \/ UnbanAll \/ Expire
    \/ \E d \in Data : Unban(d) \/ Ban(d)

Spec == Init /\ [][Next]_<<bans, now>>
================================================================================
