------------------------------- MODULE Presence -------------------------------
(***************************************************************************)
(* What the sessions of the server amount to for the people who configure  *)
(* it: every entry of the clients table is held by at most one peer, which *)
(* presented the credentials of that very entry and keeps it until it      *)
(* leaves.  A new table starts with everybody gone.                        *)
(***************************************************************************)
EXTENDS Integers, Sequences

CONSTANTS
    Entries,       \* indexes of the clients table, from 0
    Tables,        \* possible tables: sequences of credentials
    Peers,         \* addresses peers connect from
    Nobody         \* no peer holds the entry

VARIABLES
    table,         \* the table in force
    holder         \* who holds each entry, and the credential it presented

presence == <<table, holder>>

Empty == [i \in Entries |-> Nobody]

Init == table \in Tables /\ holder = Empty

Come(i, p) ==
    /\ i < Len(table)
    /\ holder[i] = Nobody
    /\ holder' = [holder EXCEPT ![i] = [peer |-> p, cred |-> table[i + 1]]]
    /\ UNCHANGED table

Leave(i) ==
    /\ holder' = [holder EXCEPT ![i] = Nobody]
    /\ UNCHANGED table

Reload(t) == holder' = Empty /\ table' = t

Close == holder' = Empty /\ UNCHANGED table

Next ==
    \/ \E i \in Entries, p \in Peers : Come(i, p)
    \/ \E i \in Entries : Leave(i)
    \/ \E t \in Tables : Reload(t)
    \/ Close

Spec == Init /\ [][Next]_presence
===============================================================================
