------------------------------ MODULE OfflineAlarm ------------------------------
(***************************************************************************)
(* The alarms of the server.  The main loop evaluates the watchdog rules   *)
(* on every report of a client (WatchdogMessage).  On every disconnect it  *)
(* creates a thread that sleeps and then evaluates them for a client that  *)
(* is still gone (offlineAlarmThread).  All threads are given one and the  *)
(* same argument structure, and all of them and the main loop compare and  *)
(* set the time of a client's last alarm without a lock.                   *)
(*                                                                         *)
(* Abstractions: a rule either reads the load of a connected client, and   *)
(* does not compile in an alarm thread, or reads its presence (online4 and *)
(* online6), which is set and cleared with m_Connected.  A time stamp is   *)
(* its age.  A reload fills the table with the same clients again, or      *)
(* gives the indexes to others, as when the list was reordered.            *)
(***************************************************************************)
EXTENDS Integers, Sequences

CONSTANTS
    Clients,       \* indexes of m_aClients in use
    Rules,         \* m_aCWatchDogs up to "NULL": what a rule reads, m_aInterval
    Threads,       \* bound: alarm threads at a time, numbered from 1
    Delay,         \* 25 s of sleep, in ticks of the clock
    MaxHold,       \* bound: ticks between time() and the use of its result
    Cap            \* bound: ages saturate here, where no guard can tell them apart

ASSUME AlarmAssumption ==
    /\ Clients \subseteq Nat
    /\ Rules \in Seq([reads : {"load", "presence"}, interval : Nat]) /\ Rules # <<>>
    /\ Threads \subseteq Nat \ {0}
    /\ Delay \in Nat /\ MaxHold \in Nat /\ Cap \in Nat
    /\ \A k \in DOMAIN Rules : Rules[k].interval + MaxHold < Cap

Main == 0                         \* the main loop among those that evaluate
Evaluators == Threads \cup {Main}

VARIABLES
    connected,     \* CClient::m_Connected, and m_Stats.m_Online4 or 6
    alarmAge,      \* age of CClient::m_AlarmLastTime
    arg,           \* m_OfflineAlarmThreadData.m_ReloadRequired
    task,          \* where the main loop and each alarm thread are
    dropAge,       \* history: time since a client that is gone dropped
    sentAge,       \* history: age of the last alarm about a client
    overlapped,    \* history: of these, two alarms were under way at a time
    outage         \* history: what became of the present outage of a client

tables == <<connected, alarmAge, arg>>
history == <<dropAge, sentAge, overlapped, outage>>
vars == <<tables, task, history>>

NotYet == -1                      \* no client, no drop

Idle == [pc |-> "none", client |-> NotYet, rule |-> 1, wait |-> 0, stamp |-> 0,
         over |-> FALSE]

(* over, history: the outage a thread is about ended; its client came back *)
(* or a reload gave the index to another.                                  *)
Tasks ==
    [pc : {"none", "dropping", "created", "asleep", "rules", "set"},
     client : Clients \cup {NotYet}, rule : DOMAIN Rules, wait : 0 .. Delay,
     stamp : 0 .. MaxHold, over : BOOLEAN]

(* settled: an alarm about it, or one too shortly before.  lost: its       *)
(* thread was given another client.                                        *)
Outages == {"none", "pending", "awaited", "settled", "lost"}

TypeOK ==
    /\ connected \in [Clients -> BOOLEAN]
    /\ alarmAge \in [Clients -> 0 .. Cap]
    /\ arg \in Clients \cup {NotYet}
    /\ task \in [Evaluators -> Tasks]
    /\ dropAge \in [Clients -> NotYet .. Delay]
    /\ sentAge \in [Clients -> 0 .. Cap]
    /\ overlapped \subseteq Clients
    /\ outage \in [Clients -> Outages]

-------------------------------------------------------------------------------
(* The main loop.                                                          *)

OnNewClient(c) ==
    /\ task[Main].pc = "none"
    /\ ~connected[c]
    /\ connected' = [connected EXCEPT ![c] = TRUE]
    /\ outage' = [outage EXCEPT ![c] = "none"]
    /\ dropAge' = [dropAge EXCEPT ![c] = NotYet]
    /\ task' = [e \in Evaluators |-> [task[e] EXCEPT !.over = @ \/ task[e].client = c]]
    /\ UNCHANGED <<alarmAge, arg, sentAge, overlapped>>

FreeThread(t) == task[t].pc = "none" /\ \A u \in Threads : u < t => task[u].pc # "none"

(* What the thread of an earlier disconnect has not read yet is replaced.  *)
OnDelClient(c) ==
    \E t \in Threads :
        /\ FreeThread(t)
        /\ connected' = [connected EXCEPT ![c] = FALSE]
        /\ arg' = c
        /\ task' = [task EXCEPT ![t] = [Idle EXCEPT !.pc = "created"]]
        /\ dropAge' = [dropAge EXCEPT ![c] = 0]
        /\ outage' = [d \in Clients |-> IF d = c THEN "pending"
                                        ELSE IF outage[d] = "pending" THEN "lost"
                                        ELSE outage[d]]
        /\ UNCHANGED <<alarmAge, sentAge, overlapped>>

Leave(c) == task[Main].pc = "none" /\ connected[c] /\ OnDelClient(c)

(* A reload drops the connected clients one after the other, then zeroes   *)
(* the table.                                                              *)
Reload ==
    /\ task[Main].pc = "none"
    /\ task' = [task EXCEPT ![Main].pc = "dropping"]
    /\ UNCHANGED <<tables, history>>

ReloadDrop(c) ==
    /\ task[Main].pc = "dropping"
    /\ connected[c] /\ \A d \in Clients : d < c => ~connected[d]
    /\ OnDelClient(c)

SameClients ==
    /\ task' = [task EXCEPT ![Main] = Idle]
    /\ UNCHANGED <<dropAge, outage>>

(* The threads that are there will look at indexes that have nothing to do *)
(* with the clients that dropped, for which nobody looks any more.         *)
OtherClients ==
    /\ task' = [e \in Evaluators |->
            IF e = Main \/ task[e].pc = "none" THEN Idle
            ELSE [task[e] EXCEPT !.over = TRUE]]
    /\ dropAge' = [c \in Clients |-> NotYet]
    /\ outage' = [c \in Clients |-> "none"]

ReloadTable ==
    /\ task[Main].pc = "dropping"
    /\ \A c \in Clients : ~connected[c]
    /\ alarmAge' = [c \in Clients |-> Cap]
    /\ sentAge' = [c \in Clients |-> Cap]
    /\ SameClients \/ OtherClients
    /\ UNCHANGED <<connected, arg, overlapped>>

WatchdogMessage(c) ==
    /\ task[Main].pc = "none"
    /\ connected[c]
    /\ task' = [task EXCEPT ![Main] = [Idle EXCEPT !.pc = "rules", !.client = c]]
    /\ UNCHANGED <<tables, history>>

-------------------------------------------------------------------------------
(* An alarm thread, up to its loop over the rules.                         *)

Start(t) ==
    /\ task[t].pc = "created"
    /\ task' = [task EXCEPT ![t] =
            [task[t] EXCEPT !.pc = "asleep", !.client = arg, !.wait = Delay,
                            !.over = @ \/ connected[arg]]]
    /\ outage' = [outage EXCEPT ![arg] = IF @ = "pending" THEN "awaited" ELSE @]
    /\ UNCHANGED <<tables, dropAge, sentAge, overlapped>>

(* Faulty variants: the argument is read after the sleep; the loop over    *)
(* the rules starts with the second.                                       *)
WakeForArg(t) ==
    /\ task[t].pc = "asleep" /\ task[t].wait = 0
    /\ task' = [task EXCEPT ![t] = IF connected[arg] THEN Idle
                                   ELSE [@ EXCEPT !.pc = "rules", !.client = arg]]
    /\ UNCHANGED <<tables, history>>

WakeAtSecondRule(t) ==
    /\ task[t].pc = "asleep" /\ task[t].wait = 0
    /\ task' = [task EXCEPT ![t] = IF connected[@.client] \/ Len(Rules) = 1 THEN Idle
                                   ELSE [@ EXCEPT !.pc = "rules", !.rule = 2]]
    /\ UNCHANGED <<tables, history>>

Wake(t) ==
    /\ task[t].pc = "asleep" /\ task[t].wait = 0
    /\ task' = [task EXCEPT ![t] = IF connected[@.client] THEN Idle
                                   ELSE [@ EXCEPT !.pc = "rules"]]
    /\ UNCHANGED <<tables, history>>

-------------------------------------------------------------------------------
(* The loop over the rules, in the main loop and in an alarm thread alike. *)

Rule(e) == Rules[task[e].rule]

Sending(e, c) == task[e].pc = "set" /\ task[e].client = c

(* Faulty variant: the end of the rules is not noticed.                    *)
NextRuleUnended(e) == [task[e] EXCEPT !.pc = "rules", !.rule = @ + 1, !.stamp = 0]

NextRule(e) ==
    IF task[e].rule < Len(Rules)
    THEN [task[e] EXCEPT !.pc = "rules", !.rule = @ + 1, !.stamp = 0]
    ELSE Idle

MayHold(e) ==
    IF Rule(e).reads = "load" THEN e = Main ELSE ~connected[task[e].client]

(* Presence is known to the server, the load is what the report says.      *)
MustHold(e) == Rule(e).reads = "presence" /\ MayHold(e)

RuleFails(e) ==
    /\ task[e].pc = "rules"
    /\ ~MustHold(e)
    /\ task' = [task EXCEPT ![e] = NextRule(e)]
    /\ UNCHANGED <<tables, history>>

(* Faulty variant: the limit itself counts as exceeded.                    *)
ExceedsOrEquals(e) == alarmAge[task[e].client] >= Rule(e).interval

Exceeds(e) == alarmAge[task[e].client] > Rule(e).interval

(* The rule holds, but the last alarm was sent too recently.               *)
RuleSilenced(e) ==
    /\ task[e].pc = "rules"
    /\ MayHold(e) /\ ~Exceeds(e)
    /\ task' = [task EXCEPT ![e] = NextRule(e)]
    /\ outage' = [outage EXCEPT ![task[e].client] = IF @ = "awaited" THEN "settled" ELSE @]
    /\ UNCHANGED <<tables, dropAge, sentAge, overlapped>>

(* The clock was read and the comparison passed; the stamp is not set yet. *)
RuleFires(e) ==
    /\ task[e].pc = "rules"
    /\ MayHold(e) /\ Exceeds(e)
    /\ task' = [task EXCEPT ![e].pc = "set"]
    /\ overlapped' = overlapped \cup
            {c \in {task[e].client} : \E f \in Evaluators : Sending(f, c)}
    /\ UNCHANGED <<tables, dropAge, sentAge, outage>>

(* m_AlarmLastTime is set and the callback called; sending may take long,  *)
(* but touches nothing that is shared.                                     *)
SendAlarm(e) ==
    LET c == task[e].client
    IN  /\ task[e].pc = "set"
        /\ alarmAge' = [alarmAge EXCEPT ![c] = task[e].stamp]
        /\ sentAge' = [sentAge EXCEPT ![c] = IF @ < task[e].stamp THEN @ ELSE task[e].stamp]
        /\ outage' = [outage EXCEPT ![c] = IF @ = "none" THEN @ ELSE "settled"]
        /\ task' = [task EXCEPT ![e] = NextRule(e)]
        /\ UNCHANGED <<connected, arg, dropAge, overlapped>>

-------------------------------------------------------------------------------

Older(age, limit) == IF age < limit THEN age + 1 ELSE age

(* Nothing is left of the last alarm about c.                              *)
Settled(c) ==
    alarmAge[c] = Cap /\ sentAge[c] = Cap /\ \A e \in Evaluators : ~Sending(e, c)

Tick ==
    /\ \A e \in Evaluators : task[e].pc = "set" => task[e].stamp < MaxHold
    /\ alarmAge' = [c \in Clients |-> Older(alarmAge[c], Cap)]
    /\ sentAge' = [c \in Clients |-> Older(sentAge[c], Cap)]
    /\ dropAge' = [c \in Clients |-> IF dropAge[c] = NotYet THEN NotYet
                                     ELSE Older(dropAge[c], Delay)]
    /\ task' = [e \in Evaluators |->
                    [task[e] EXCEPT !.wait = IF @ > 0 THEN @ - 1 ELSE 0,
                                    !.stamp = IF task[e].pc = "set" THEN @ + 1 ELSE 0]]
    /\ overlapped' = {c \in overlapped : ~Settled(c)}
    /\ UNCHANGED <<connected, arg, outage>>

(* Run starts with a table nobody is connected to.  The structure of the   *)
(* alarm threads is first written by the first disconnect.                 *)
Init ==
    /\ connected = [c \in Clients |-> FALSE]
    /\ alarmAge = [c \in Clients |-> Cap]
    /\ arg = NotYet
    /\ task = [e \in Evaluators |-> Idle]
    /\ dropAge = [c \in Clients |-> NotYet]
    /\ sentAge = [c \in Clients |-> Cap]
    /\ overlapped = {}
    /\ outage = [c \in Clients |-> "none"]

Evaluate(e) == RuleFails(e) \/ RuleSilenced(e) \/ RuleFires(e) \/ SendAlarm(e)

AlarmThread(t) == Start(t) \/ Wake(t) \/ Evaluate(t)

MainLoop ==
    \/ \E c \in Clients :
          OnNewClient(c) \/ Leave(c) \/ ReloadDrop(c) \/ WatchdogMessage(c)
    \/ Reload \/ ReloadTable
    \/ Evaluate(Main)

Next == MainLoop \/ (\E t \in Threads : AlarmThread(t)) \/ Tick

Spec == Init /\ [][Next]_vars

(* Threads are scheduled, calls of the callback time out after 6 s, time   *)
(* passes.  Whether anyone connects or leaves is left open.                *)
FairSpec ==
    /\ Spec
    /\ WF_vars(Tick)
    /\ \A t \in Threads : WF_vars(AlarmThread(t))
    /\ WF_vars(Evaluate(Main))

-------------------------------------------------------------------------------

(* An alarm thread only reports clients whose last drop is at least the    *)
(* delay ago: a machine that just dropped out has its time to come back.   *)
(* This is so for a client that stayed away: of one that came back and     *)
(* dropped again while the thread slept, the thread reports the second drop*)
(* too early, as it looks at m_Connected once.  Nor is it true of a thread *)
(* that is there when a reload gives the indexes to other clients.         *)
DelayKept ==
    \A t \in Threads :
        task[t].pc \in {"rules", "set"} /\ ~task[t].over => dropAge[task[t].client] = Delay

(* An alarm that is about to be sent although its stamp is too close to    *)
(* that of the last one about the same client.                             *)
Hasty(e) ==
    task[e].pc = "set" /\ sentAge[task[e].client] - task[e].stamp <= Rule(e).interval

(* As long as no two evaluations of one client's rules overlap between the *)
(* comparison and the assignment, any two alarms about it are further      *)
(* apart than the interval of the later one, whoever sent them and         *)
(* whichever rules they are about.  A reload forgets the last alarms.      *)
SpacedUnlessOverlapped ==
    \A e \in Evaluators : Hasty(e) => task[e].client \in overlapped

(* "watchdog interval: minimal interval between notifications", README.    *)
MinimalInterval == \A e \in Evaluators : ~Hasty(e)

(* Every client that went offline comes back, is reported, or had an alarm *)
(* within the interval, unless another disconnect replaced the argument of *)
(* its thread, or a reload put another client in its place.                *)
OutageSettled ==
    \A c \in Clients : outage[c] \in {"pending", "awaited"} ~>
                       outage[c] \in {"none", "settled", "lost"}

(* The README has a rule that reports a machine that is down: every        *)
(* disconnect is looked at by an alarm thread.                             *)
NoOutageLost == \A c \in Clients : outage[c] # "lost"

===============================================================================
