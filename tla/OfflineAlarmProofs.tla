--------------------------- MODULE OfflineAlarmProofs ---------------------------
(***************************************************************************)
(* Theorems about OfflineAlarm: the invariants of its run hold for any     *)
(* number of clients, rules and threads, any delay and any time between    *)
(* the reading of the clock and the use of the result.                     *)
(***************************************************************************)
EXTENDS OfflineAlarm, TLAPS

(* Who may be where, and what is known of it there.                        *)
Placed ==
    /\ task[Main].pc \in {"none", "dropping", "rules", "set"}
    /\ \A t \in Threads : task[t].pc # "dropping"
    /\ \A t \in Threads : task[t].pc = "created" => arg \in Clients
    /\ \A e \in Evaluators : task[e].pc \in {"asleep", "rules", "set"} => task[e].client \in Clients
    /\ \A e \in Evaluators : task[e].pc # "set" => task[e].stamp = 0

(* The client whose outage a thread is about is still gone, and what the   *)
(* thread has to sleep is made up for by the time since that one dropped.  *)
DelayCounted ==
    \A t \in Threads : ~task[t].over =>
        /\ task[t].pc = "created" => connected[arg] \/ dropAge[arg] >= 0
        /\ task[t].pc \in {"asleep", "rules", "set"} => ~connected[task[t].client]
        /\ task[t].pc = "asleep" => dropAge[task[t].client] + task[t].wait >= Delay
        /\ task[t].pc = "asleep" => dropAge[task[t].client] >= 0
        /\ task[t].pc \in {"rules", "set"} => dropAge[task[t].client] = Delay

(* Unless alarms about a client overlapped: m_AlarmLastTime is the time of *)
(* the last one, at most one is under way, and it is far enough from that. *)
LastAlarmKnown ==
    \A c \in Clients \ overlapped :
        /\ sentAge[c] = alarmAge[c]
        /\ \A e, f \in Evaluators : Sending(e, c) /\ Sending(f, c) => e = f
        /\ \A e \in Evaluators : Sending(e, c) => alarmAge[c] - task[e].stamp > Rule(e).interval

IInv == TypeOK /\ Placed /\ DelayCounted /\ LastAlarmKnown

(* An element of a sequence over S is in S.                                *)
LEMMA ElementOfSequence ==
    ASSUME NEW S, NEW q \in Seq(S), NEW k \in 1 .. Len(q)
    PROVE  q[k] \in S
OBVIOUS

(* What most steps need of the constants.                                  *)
LEMMA Bounds ==
    /\ Clients \subseteq Nat /\ Threads \subseteq Nat \ {0}
    /\ Delay \in Nat /\ MaxHold \in Nat /\ Cap \in Nat
BY AlarmAssumption DEF AlarmAssumption

USE Bounds

-------------------------------------------------------------------------------
(* The rule an evaluator is at, and where it goes from there.              *)
LEMMA RuleTaken ==
    ASSUME TypeOK, NEW e \in Evaluators
    PROVE  Rule(e).interval \in Nat /\ Rule(e).interval + MaxHold < Cap
<1>1. task[e].rule \in DOMAIN Rules
  BY DEF TypeOK, Tasks
<1>2. Rule(e) \in [reads : {"load", "presence"}, interval : Nat]
  <2>1. task[e].rule \in 1 .. Len(Rules)
    BY <1>1, AlarmAssumption DEF AlarmAssumption
  <2>2. Rules[task[e].rule] \in [reads : {"load", "presence"}, interval : Nat]
    BY <2>1, ElementOfSequence, AlarmAssumption DEF AlarmAssumption
  <2>3. QED
    BY <2>2 DEF Rule
<1>3. QED
  BY <1>1, <1>2, AlarmAssumption DEF Rule, AlarmAssumption

(* What an evaluator is between two tasks is well-typed.                   *)
LEMMA IdleIsTask == Idle \in Tasks
<1>1. 1 \in DOMAIN Rules
  BY AlarmAssumption DEF AlarmAssumption
<1>2. QED
  BY <1>1 DEF Idle, Tasks, NotYet

(* After a rule comes the next one, or the end.                            *)
LEMMA NextTask ==
    ASSUME TypeOK, NEW e \in Evaluators
    PROVE  /\ NextRule(e) \in Tasks
           /\ NextRule(e).stamp = 0
           /\ NextRule(e).pc \in {"none", "rules"}
           /\ NextRule(e).pc = "rules" =>
                 NextRule(e).client = task[e].client /\ NextRule(e).over = task[e].over
<1>1. task[e] \in Tasks
  BY DEF TypeOK
<1>2. CASE task[e].rule < Len(Rules)
  <2>1. task[e].rule + 1 \in DOMAIN Rules /\ 0 \in 0 .. MaxHold
    BY <1>1, <1>2, AlarmAssumption DEF Tasks, AlarmAssumption
  <2>2. NextRule(e) = [task[e] EXCEPT !.pc = "rules", !.rule = task[e].rule + 1, !.stamp = 0]
    BY <1>2 DEF NextRule
  <2>3. QED
    BY <1>1, <2>1, <2>2 DEF Tasks
<1>3. CASE ~(task[e].rule < Len(Rules))
  BY <1>3, IdleIsTask DEF NextRule, Idle
<1>4. QED
  BY <1>2, <1>3

(* One evaluator turns to a rule or ends, and nothing else happens to the  *)
(* times and the argument.                                                 *)
LEMMA EvaluatorMoves ==
    ASSUME IInv, NEW e \in Evaluators, NEW v \in Tasks,
           task' = [task EXCEPT ![e] = v],
           UNCHANGED <<connected, alarmAge, arg, dropAge, sentAge, overlapped>>,
           v.stamp = 0,
           v.pc \in {"none", "rules"} \/ (e = Main /\ v.pc = "dropping"),
           v.pc = "rules" =>
              /\ v.client \in Clients
              /\ e \in Threads /\ ~v.over => dropAge[v.client] = Delay /\ ~connected[v.client]
    PROVE  task' \in [Evaluators -> Tasks] /\ Placed' /\ DelayCounted' /\ LastAlarmKnown'
<1>1. task' \in [Evaluators -> Tasks]
  BY DEF IInv, TypeOK
<1>2. /\ task'[e] = v
      /\ \A f \in Evaluators \ {e} : task'[f] = task[f]
  BY DEF IInv, TypeOK
<1>3. Main \notin Threads /\ Threads \subseteq Evaluators /\ Main \in Evaluators
  BY DEF Main, Evaluators
<1>4. Placed'
  BY <1>2, <1>3 DEF IInv, Placed
<1>5. DelayCounted'
  BY <1>2, <1>3 DEF IInv, DelayCounted
<1>6. \A f \in Evaluators, c \in Clients : Sending(f, c)' => f # e /\ Sending(f, c) /\ task'[f] = task[f]
  BY <1>2 DEF Sending
<1>7. \A f \in Evaluators : task'[f] = task[f] => Rule(f)' = Rule(f)
  BY DEF Rule
<1>8. LastAlarmKnown'
  BY <1>6, <1>7 DEF IInv, LastAlarmKnown
<1>9. QED
  BY <1>1, <1>4, <1>5, <1>8

-------------------------------------------------------------------------------
(* The main loop.                                                          *)
LEMMA StepOnNewClient ==
    ASSUME IInv, NEW c \in Clients, OnNewClient(c)
    PROVE  IInv'
<1>1. ASSUME NEW e \in Evaluators
      PROVE  /\ task'[e] \in Tasks
             /\ task'[e].pc = task[e].pc /\ task'[e].client = task[e].client
             /\ task'[e].rule = task[e].rule /\ task'[e].wait = task[e].wait
             /\ task'[e].stamp = task[e].stamp
             /\ task'[e].over = (task[e].over \/ task[e].client = c)
  <2>1. task[e] \in Tasks
    BY DEF IInv, TypeOK
  <2>2. task'[e] = [task[e] EXCEPT !.over = task[e].over \/ task[e].client = c]
    BY <2>1 DEF OnNewClient, Tasks
  <2>3. QED
    BY <2>1, <2>2 DEF Tasks
<1>2. /\ connected' = [connected EXCEPT ![c] = TRUE]
      /\ dropAge' = [dropAge EXCEPT ![c] = NotYet]
      /\ outage' = [outage EXCEPT ![c] = "none"]
      /\ UNCHANGED <<alarmAge, arg, sentAge, overlapped>>
  BY DEF OnNewClient
<1>3. Threads \subseteq Evaluators /\ Main \in Evaluators
  BY DEF Evaluators
<1>4. TypeOK'
  <2>1. task' \in [Evaluators -> Tasks]
    BY <1>1 DEF OnNewClient
  <2>2. QED
    BY <1>2, <2>1 DEF IInv, TypeOK, Outages, NotYet
<1>5. Placed'
  BY <1>1, <1>2, <1>3 DEF IInv, Placed
<1>6. DelayCounted'
  <2>1. \A d \in Clients : d # c => connected'[d] = connected[d] /\ dropAge'[d] = dropAge[d]
    BY <1>2 DEF IInv, TypeOK
  <2>2. connected'[c]
    BY <1>2 DEF IInv, TypeOK
  <2>3. ASSUME NEW t \in Threads, ~task'[t].over
        PROVE  /\ ~task[t].over /\ task[t].client # c
               /\ task'[t].pc = "created" => arg \in Clients
               /\ task'[t].pc \in {"asleep", "rules", "set"} => task[t].client \in Clients
    BY <2>3, <1>1, <1>3 DEF IInv, Placed
  <2>4. QED
    BY <1>1, <1>2, <1>3, <2>1, <2>2, <2>3 DEF IInv, DelayCounted
<1>7. \A e \in Evaluators : Rule(e)' = Rule(e) /\ \A d \in Clients : Sending(e, d)' = Sending(e, d)
  BY <1>1 DEF Rule, Sending
<1>8. LastAlarmKnown'
  BY <1>1, <1>2, <1>7 DEF IInv, LastAlarmKnown
<1>9. QED
  BY <1>4, <1>5, <1>6, <1>8 DEF IInv

(* A disconnect replaces the argument and starts a thread.                 *)
LEMMA StepOnDelClient ==
    ASSUME IInv, NEW c \in Clients, connected[c], OnDelClient(c)
    PROVE  IInv'
<1>1. PICK t \in Threads :
        /\ task[t].pc = "none"
        /\ task' = [task EXCEPT ![t] = [Idle EXCEPT !.pc = "created"]]
  BY DEF OnDelClient, FreeThread
<1>2. /\ connected' = [connected EXCEPT ![c] = FALSE]
      /\ arg' = c
      /\ dropAge' = [dropAge EXCEPT ![c] = 0]
      /\ outage' = [d \in Clients |-> IF d = c THEN "pending"
                                      ELSE IF outage[d] = "pending" THEN "lost"
                                      ELSE outage[d]]
      /\ UNCHANGED <<alarmAge, sentAge, overlapped>>
  BY DEF OnDelClient
<1>3. Main \notin Threads /\ t \in Evaluators /\ Threads \subseteq Evaluators
  BY DEF Main, Evaluators
<1>4. [Idle EXCEPT !.pc = "created"] \in Tasks
  BY IdleIsTask DEF Tasks
<1>5. task' \in [Evaluators -> Tasks]
  BY <1>1, <1>3, <1>4 DEF IInv, TypeOK
<1>6. TypeOK'
  <2>1. dropAge \in [Clients -> NotYet .. Delay] /\ 0 \in NotYet .. Delay
    BY DEF IInv, TypeOK, NotYet
  <2>2. dropAge' \in [Clients -> NotYet .. Delay]
    BY <1>2, <2>1
  <2>3. outage' \in [Clients -> Outages]
    BY <1>2 DEF IInv, TypeOK, Outages
  <2>4. connected' \in [Clients -> BOOLEAN] /\ arg' \in Clients \cup {NotYet}
    BY <1>2 DEF IInv, TypeOK
  <2>5. QED
    BY <1>2, <1>5, <2>2, <2>3, <2>4 DEF IInv, TypeOK
<1>7. /\ task'[t] = [Idle EXCEPT !.pc = "created"]
      /\ \A f \in Evaluators \ {t} : task'[f] = task[f]
  BY <1>1, <1>3 DEF IInv, TypeOK
<1>8. task'[t].pc = "created" /\ task'[t].stamp = 0
  BY <1>7 DEF Idle
<1>9. Placed'
  <2>1. task'[Main] = task[Main]
    BY <1>3, <1>7 DEF Evaluators
  <2>2. \A u \in Threads : task'[u].pc # "dropping"
    BY <1>3, <1>7, <1>8 DEF IInv, Placed
  <2>3. \A e \in Evaluators :
           /\ task'[e].pc \in {"asleep", "rules", "set"} => task'[e].client \in Clients
           /\ task'[e].pc # "set" => task'[e].stamp = 0
    BY <1>7, <1>8 DEF IInv, Placed
  <2>4. QED
    BY <1>2, <2>1, <2>2, <2>3 DEF IInv, Placed
<1>10. \A d \in Clients : d # c => dropAge'[d] = dropAge[d] /\ connected'[d] = connected[d]
  BY <1>2 DEF IInv, TypeOK
<1>11. dropAge'[c] = 0
  BY <1>2 DEF IInv, TypeOK
<1>12. DelayCounted'
  <2>1. ASSUME NEW u \in Threads, ~task'[u].over, u # t
        PROVE  /\ task'[u] = task[u]
               /\ task[u].pc \in {"asleep", "rules", "set"} =>
                     task[u].client \in Clients /\ ~connected[task[u].client]
    BY <2>1, <1>3, <1>7 DEF IInv, Placed, DelayCounted
  <2>2. \A u \in Threads : task'[u].pc = "created" => dropAge'[arg'] >= 0
    BY <1>2, <1>11
  <2>3. \A u \in Threads : ~task'[u].over /\ task'[u].pc \in {"asleep", "rules", "set"} =>
           /\ u # t /\ task'[u] = task[u] /\ task[u].client # c
           /\ dropAge'[task[u].client] = dropAge[task[u].client]
           /\ ~connected'[task[u].client]
    BY <2>1, <1>8, <1>10
  <2>4. QED
    BY <2>2, <2>3 DEF IInv, DelayCounted
<1>13. LastAlarmKnown'
  <2>1. \A f \in Evaluators, d \in Clients :
            Sending(f, d)' => Sending(f, d) /\ task'[f] = task[f] /\ Rule(f)' = Rule(f)
    BY <1>7, <1>8 DEF Sending, Rule
  <2>2. QED
    BY <2>1, <1>2 DEF IInv, LastAlarmKnown
<1>14. QED
  BY <1>6, <1>9, <1>12, <1>13 DEF IInv

(* A reload begins to drop the clients.                                    *)
LEMMA StepReload ==
    ASSUME IInv, Reload
    PROVE  IInv'
<1>1. Main \in Evaluators /\ task[Main] \in Tasks /\ task[Main].stamp = 0
  BY DEF Evaluators, IInv, TypeOK, Reload, Placed
<1>2. [task[Main] EXCEPT !.pc = "dropping"] \in Tasks
  BY <1>1 DEF Tasks
<1>3. task' = [task EXCEPT ![Main] = [task[Main] EXCEPT !.pc = "dropping"]]
  BY DEF Reload
<1>4. task' \in [Evaluators -> Tasks] /\ Placed' /\ DelayCounted' /\ LastAlarmKnown'
  <2> DEFINE v == [task[Main] EXCEPT !.pc = "dropping"]
  <2>1. v.pc = "dropping" /\ v.stamp = 0
    BY <1>1 DEF Tasks
  <2> HIDE DEF v
  <2>2. QED
    BY <1>1, <1>2, <1>3, <2>1, EvaluatorMoves DEF Reload, tables, history, v
<1>5. QED
  BY <1>4 DEF IInv, TypeOK, Reload, tables, history

(* The table is zeroed: every last alarm is long ago.                      *)
LEMMA StepReloadTable ==
    ASSUME IInv, ReloadTable
    PROVE  IInv'
<1>1. Main \in Evaluators /\ Main \notin Threads /\ Threads \subseteq Evaluators
  BY DEF Main, Evaluators
<1>2. /\ task' \in [Evaluators -> Tasks]
      /\ task'[Main] = Idle
      /\ \A t \in Threads :
            task'[t] = IF OtherClients
                       THEN IF task[t].pc = "none" THEN Idle ELSE [task[t] EXCEPT !.over = TRUE]
                       ELSE task[t]
  <2>1. CASE SameClients /\ ~OtherClients
    BY <1>1, <2>1, IdleIsTask DEF IInv, TypeOK, SameClients
  <2>2. CASE OtherClients
    <3>1. \A e \in Evaluators : [task[e] EXCEPT !.over = TRUE] \in Tasks
      BY DEF IInv, TypeOK, Tasks
    <3>2. QED
      BY <1>1, <2>2, <3>1, IdleIsTask DEF OtherClients
  <2>3. QED
    BY <2>1, <2>2 DEF ReloadTable
<1>3. TypeOK'
  <2>1. dropAge' \in [Clients -> NotYet .. Delay] /\ outage' \in [Clients -> Outages]
    BY DEF IInv, TypeOK, ReloadTable, SameClients, OtherClients, NotYet, Outages
  <2>2. QED
    BY <1>2, <2>1 DEF IInv, TypeOK, ReloadTable
<1>4. Placed'
  <2>1. \A e \in Evaluators :
           /\ task'[e].pc = IF e = Main THEN "none" ELSE task[e].pc
           /\ task'[e].pc # "none" => task'[e].client = task[e].client
           /\ task'[e].pc # "none" => task'[e].stamp = task[e].stamp
           /\ task'[e].pc = "none" => task'[e].stamp = 0
    BY <1>1, <1>2 DEF IInv, TypeOK, Tasks, Placed, Evaluators, Idle
  <2>2. QED
    BY <1>1, <2>1 DEF IInv, Placed, ReloadTable
<1>5. DelayCounted'
  <2>1. ASSUME NEW t \in Threads, ~task'[t].over, task'[t].pc # "none"
        PROVE  task'[t] = task[t] /\ dropAge' = dropAge /\ connected' = connected
    <3>1. task[t] \in Tasks /\ [task[t] EXCEPT !.over = TRUE].over /\ Idle.pc = "none"
      BY <1>1 DEF IInv, TypeOK, Tasks, Idle
    <3>2. ~OtherClients
      <4>1. SUFFICES ASSUME OtherClients PROVE FALSE
        OBVIOUS
      <4>2. task'[t] = IF task[t].pc = "none" THEN Idle ELSE [task[t] EXCEPT !.over = TRUE]
        BY <1>2, <4>1
      <4>3. QED
        BY <2>1, <3>1, <4>2
    <3>3. QED
      BY <1>2, <3>2 DEF ReloadTable, SameClients
  <2>2. QED
    BY <2>1 DEF IInv, DelayCounted, ReloadTable
<1>6. \A f \in Evaluators, c \in Clients :
          Sending(f, c)' => Sending(f, c) /\ task'[f].stamp = task[f].stamp /\ Rule(f)' = Rule(f)
  BY <1>1, <1>2 DEF Sending, Rule, Idle, Evaluators, IInv, TypeOK, Tasks
<1>7. \A f \in Evaluators : Cap - task[f].stamp > Rule(f).interval
  <2>1. ASSUME NEW f \in Evaluators
        PROVE  Cap - task[f].stamp > Rule(f).interval
    <3>1. task[f].stamp \in 0 .. MaxHold
      BY DEF IInv, TypeOK, Tasks
    <3>2. Rule(f).interval \in Nat /\ Rule(f).interval + MaxHold < Cap
      BY RuleTaken DEF IInv
    <3>3. QED
      BY <3>1, <3>2
  <2>2. QED
    BY <2>1
<1>8. \A c \in Clients : alarmAge'[c] = Cap /\ sentAge'[c] = Cap
  BY DEF ReloadTable
<1>9. LastAlarmKnown'
  BY <1>6, <1>7, <1>8 DEF IInv, LastAlarmKnown, ReloadTable
<1>10. QED
  BY <1>3, <1>4, <1>5, <1>9 DEF IInv

(* The main loop turns to the rules after a report.                        *)
LEMMA StepWatchdogMessage ==
    ASSUME IInv, NEW c \in Clients, WatchdogMessage(c)
    PROVE  IInv'
<1> DEFINE v == [Idle EXCEPT !.pc = "rules", !.client = c]
<1>1. Main \in Evaluators /\ Main \notin Threads
  BY DEF Main, Evaluators
<1>2. v \in Tasks /\ v.pc = "rules" /\ v.client = c /\ v.stamp = 0
  BY IdleIsTask DEF Idle, Tasks
<1>3. task' = [task EXCEPT ![Main] = v]
  BY DEF WatchdogMessage
<1> HIDE DEF v
<1>4. task' \in [Evaluators -> Tasks] /\ Placed' /\ DelayCounted' /\ LastAlarmKnown'
  BY <1>1, <1>2, <1>3, EvaluatorMoves DEF WatchdogMessage, tables, history
<1>5. QED
  BY <1>4 DEF IInv, TypeOK, WatchdogMessage, tables, history

-------------------------------------------------------------------------------
(* An alarm thread up to its loop over the rules.                          *)
LEMMA StepStart ==
    ASSUME IInv, NEW t \in Threads, Start(t)
    PROVE  IInv'
<1> DEFINE v == [task[t] EXCEPT !.pc = "asleep", !.client = arg, !.wait = Delay,
                               !.over = @ \/ connected[arg]]
<1>1. t \in Evaluators /\ t # Main /\ Threads \subseteq Evaluators /\ Main \in Evaluators
  BY DEF Main, Evaluators
<1>2. /\ arg \in Clients /\ dropAge[arg] \in NotYet .. Delay
      /\ ~task[t].over => connected[arg] \/ dropAge[arg] >= 0
  BY DEF IInv, TypeOK, Placed, DelayCounted, Start
<1>3. /\ v \in Tasks /\ v.pc = "asleep" /\ v.client = arg /\ v.wait = Delay /\ v.stamp = 0
      /\ v.over = (task[t].over \/ connected[arg])
  <2>1. task[t] \in Tasks /\ task[t].stamp = 0 /\ Delay \in 0 .. Delay
    BY <1>1 DEF IInv, TypeOK, Placed, Start
  <2>2. connected[arg] \in BOOLEAN
    BY <1>2 DEF IInv, TypeOK
  <2>3. QED
    BY <1>2, <2>1, <2>2 DEF Tasks
<1>4. task' = [task EXCEPT ![t] = v]
  BY DEF Start
<1> HIDE DEF v
<1>5. /\ task'[t] = v
      /\ \A f \in Evaluators \ {t} : task'[f] = task[f]
      /\ task' \in [Evaluators -> Tasks]
  BY <1>1, <1>3, <1>4 DEF IInv, TypeOK
<1>6. TypeOK'
  BY <1>5 DEF IInv, TypeOK, Outages, Start, tables
<1>7. Placed'
  BY <1>1, <1>2, <1>3, <1>5 DEF IInv, Placed, Start, tables
<1>8. DelayCounted'
  <2>1. ~v.over => ~task[t].over /\ ~connected[arg]
    BY <1>3, Zenon
  <2>2. ~v.over => dropAge[arg] >= 0 /\ dropAge[arg] + Delay >= Delay
    BY <2>1, <1>2 DEF NotYet
  <2>3. QED
    BY <2>1, <2>2, <1>1, <1>2, <1>3, <1>5 DEF IInv, DelayCounted, Start, tables
<1>9. \A f \in Evaluators, c \in Clients :
          Sending(f, c)' => Sending(f, c) /\ task'[f] = task[f] /\ Rule(f)' = Rule(f)
  BY <1>3, <1>5 DEF Sending, Rule
<1>10. LastAlarmKnown'
  BY <1>9 DEF IInv, LastAlarmKnown, Start, tables
<1>11. QED
  BY <1>6, <1>7, <1>8, <1>10 DEF IInv

(* It wakes up: all of its delay has passed since the drop.                *)
LEMMA StepWake ==
    ASSUME IInv, NEW t \in Threads, Wake(t)
    PROVE  IInv'
<1> DEFINE v == IF connected[task[t].client] THEN Idle ELSE [task[t] EXCEPT !.pc = "rules"]
<1>1. t \in Evaluators /\ task[t] \in Tasks
  BY DEF Evaluators, IInv, TypeOK
<1>2. task[t].client \in Clients /\ task[t].stamp = 0
  BY <1>1 DEF IInv, Placed, Wake
<1>3. ~task[t].over => dropAge[task[t].client] = Delay /\ ~connected[task[t].client]
  <2>1. dropAge[task[t].client] \in NotYet .. Delay
    BY <1>2 DEF IInv, TypeOK
  <2>2. ~task[t].over => dropAge[task[t].client] + 0 >= Delay /\ ~connected[task[t].client]
    BY DEF IInv, DelayCounted, Wake
  <2>3. QED
    BY <2>1, <2>2 DEF NotYet
<1>4. /\ v \in Tasks /\ v.stamp = 0 /\ v.pc \in {"none", "rules"}
      /\ v.pc = "rules" => v.client = task[t].client /\ v.over = task[t].over
  BY <1>1, <1>2, IdleIsTask DEF Idle, Tasks
<1>5. task' = [task EXCEPT ![t] = v]
  BY DEF Wake
<1> HIDE DEF v
<1>6. task' \in [Evaluators -> Tasks] /\ Placed' /\ DelayCounted' /\ LastAlarmKnown'
  BY <1>1, <1>2, <1>3, <1>4, <1>5, EvaluatorMoves DEF Wake, tables, history
<1>7. QED
  BY <1>6 DEF IInv, TypeOK, Wake, tables, history

-------------------------------------------------------------------------------
(* The loop over the rules.                                                *)
LEMMA StepNextRule ==
    ASSUME IInv, NEW e \in Evaluators,
           task[e].pc \in {"rules", "set"},
           task' = [task EXCEPT ![e] = NextRule(e)],
           UNCHANGED <<connected, alarmAge, arg, dropAge, sentAge, overlapped>>
    PROVE  task' \in [Evaluators -> Tasks] /\ Placed' /\ DelayCounted' /\ LastAlarmKnown'
<1>1. /\ task[e].client \in Clients
      /\ e \in Threads /\ ~task[e].over =>
            dropAge[task[e].client] = Delay /\ ~connected[task[e].client]
  BY DEF IInv, Placed, DelayCounted
<1>2. QED
  BY <1>1, NextTask, EvaluatorMoves DEF IInv

(* A rule does not hold.                                                   *)
LEMMA StepRuleFails ==
    ASSUME IInv, NEW e \in Evaluators, RuleFails(e)
    PROVE  IInv'
<1>1. task' \in [Evaluators -> Tasks] /\ Placed' /\ DelayCounted' /\ LastAlarmKnown'
  BY StepNextRule DEF RuleFails, tables, history
<1>2. QED
  BY <1>1 DEF IInv, TypeOK, RuleFails, tables, history

(* A rule holds, but the last alarm was too recent.                        *)
LEMMA StepRuleSilenced ==
    ASSUME IInv, NEW e \in Evaluators, RuleSilenced(e)
    PROVE  IInv'
<1>1. task' \in [Evaluators -> Tasks] /\ Placed' /\ DelayCounted' /\ LastAlarmKnown'
  BY StepNextRule DEF RuleSilenced, tables
<1>2. outage' \in [Clients -> Outages]
  BY DEF IInv, TypeOK, RuleSilenced, Outages
<1>3. QED
  BY <1>1, <1>2 DEF IInv, TypeOK, RuleSilenced, tables

(* The comparison passes: two that pass make an overlap.                   *)
LEMMA StepRuleFires ==
    ASSUME IInv, NEW e \in Evaluators, RuleFires(e)
    PROVE  IInv'
<1> DEFINE c == task[e].client
           v == [task[e] EXCEPT !.pc = "set"]
<1>1. /\ task[e] \in Tasks /\ c \in Clients /\ task[e].stamp = 0
      /\ Threads \subseteq Evaluators /\ Main \notin Threads /\ Main \in Evaluators
  BY DEF IInv, TypeOK, Placed, RuleFires, Main, Evaluators
<1>2. /\ v \in Tasks /\ v.pc = "set" /\ v.client = c /\ v.stamp = 0 /\ v.rule = task[e].rule
      /\ v.over = task[e].over
  BY <1>1 DEF Tasks
<1>3. task' = [task EXCEPT ![e] = v]
  BY DEF RuleFires
<1> HIDE DEF v
<1>4. /\ task'[e] = v
      /\ \A f \in Evaluators \ {e} : task'[f] = task[f]
      /\ task' \in [Evaluators -> Tasks]
  BY <1>2, <1>3 DEF IInv, TypeOK
<1>5. TypeOK'
  BY <1>1, <1>4 DEF IInv, TypeOK, RuleFires, tables
<1>6. Placed'
  BY <1>1, <1>2, <1>4 DEF IInv, Placed, RuleFires, tables
<1>7. DelayCounted'
  BY <1>1, <1>2, <1>4 DEF IInv, DelayCounted, RuleFires, tables
<1>8. LastAlarmKnown'
  <2>1. /\ \A f \in Evaluators : Rule(f)' = Rule(f) /\ task'[f].stamp = task[f].stamp
        /\ \A f \in Evaluators \ {e}, d \in Clients : Sending(f, d)' = Sending(f, d)
        /\ \A d \in Clients : Sending(e, d)' => d = c
    BY <1>1, <1>2, <1>4 DEF Rule, Sending
  <2>2. alarmAge' = alarmAge /\ sentAge' = sentAge /\ overlapped \subseteq overlapped'
    BY DEF RuleFires, tables
  <2>3. c \notin overlapped' => \A f \in Evaluators : ~Sending(f, c)
    BY DEF RuleFires
  <2>4. alarmAge[c] - task[e].stamp > Rule(e).interval
    BY <1>1 DEF RuleFires, Exceeds, IInv, TypeOK
  <2>5. ASSUME NEW d \in Clients \ overlapped'
        PROVE  /\ sentAge'[d] = alarmAge'[d]
               /\ \A f, g \in Evaluators : Sending(f, d)' /\ Sending(g, d)' => f = g
               /\ \A f \in Evaluators : Sending(f, d)' => alarmAge'[d] - task'[f].stamp > Rule(f)'.interval
    <3>1. d \in Clients \ overlapped
      BY <2>2
    <3>2. CASE d = c
      <4>1. sentAge[c] = alarmAge[c] /\ \A f \in Evaluators : ~Sending(f, c)
        BY <3>1, <3>2, <2>3, <2>5 DEF IInv, LastAlarmKnown
      <4>2. \A f \in Evaluators : Sending(f, d)' => f = e
        BY <3>2, <4>1, <2>1
      <4>3. alarmAge'[c] - task'[e].stamp > Rule(e)'.interval
        BY <2>1, <2>2, <2>4
      <4>4. sentAge'[d] = alarmAge'[d]
        BY <3>2, <4>1, <2>2
      <4>5. \A f \in Evaluators : Sending(f, d)' => alarmAge'[d] - task'[f].stamp > Rule(f)'.interval
        BY <3>2, <4>2, <4>3, <2>2
      <4>6. QED
        BY <4>2, <4>4, <4>5
    <3>3. CASE d # c
      BY <3>1, <3>3, <2>1, <2>2 DEF IInv, LastAlarmKnown
    <3>4. QED
      BY <3>2, <3>3
  <2>6. QED
    BY <2>5 DEF LastAlarmKnown
<1>9. QED
  BY <1>5, <1>6, <1>7, <1>8 DEF IInv

(* The stamp is set: it is the latest unless alarms overlapped.            *)
LEMMA StepSendAlarm ==
    ASSUME IInv, NEW e \in Evaluators, SendAlarm(e)
    PROVE  IInv'
<1> DEFINE c == task[e].client
<1>1. /\ c \in Clients /\ task[e].stamp \in 0 .. MaxHold /\ Sending(e, c)
      /\ Threads \subseteq Evaluators /\ Main \notin Threads /\ Main \in Evaluators
  BY DEF IInv, TypeOK, Tasks, Placed, SendAlarm, Sending, Main, Evaluators
<1>2. /\ alarmAge' = [alarmAge EXCEPT ![c] = task[e].stamp]
      /\ sentAge' = [sentAge EXCEPT ![c] = IF @ < task[e].stamp THEN @ ELSE task[e].stamp]
      /\ outage' = [outage EXCEPT ![c] = IF @ = "none" THEN @ ELSE "settled"]
      /\ task' = [task EXCEPT ![e] = NextRule(e)]
      /\ UNCHANGED <<connected, arg, dropAge, overlapped>>
  BY DEF SendAlarm
<1>3. /\ NextRule(e) \in Tasks
      /\ NextRule(e).stamp = 0
      /\ NextRule(e).pc \in {"none", "rules"}
      /\ NextRule(e).pc = "rules" =>
            NextRule(e).client = c /\ NextRule(e).over = task[e].over
  BY NextTask DEF IInv
<1>4. /\ task'[e] = NextRule(e)
      /\ \A f \in Evaluators \ {e} : task'[f] = task[f]
      /\ task' \in [Evaluators -> Tasks]
  BY <1>2, <1>3 DEF IInv, TypeOK
<1>5. task[e].stamp \in 0 .. Cap
  <2>1. Rule(e).interval \in Nat /\ Rule(e).interval + MaxHold < Cap
    BY RuleTaken DEF IInv
  <2>2. QED
    BY <1>1, <2>1
<1>6. TypeOK'
  <2>1. alarmAge' \in [Clients -> 0 .. Cap] /\ sentAge' \in [Clients -> 0 .. Cap]
    BY <1>2, <1>5 DEF IInv, TypeOK
  <2>2. outage' \in [Clients -> Outages]
    BY <1>2 DEF IInv, TypeOK, Outages
  <2>3. QED
    BY <1>2, <1>4, <2>1, <2>2 DEF IInv, TypeOK
<1>7. Placed'
  BY <1>1, <1>2, <1>3, <1>4 DEF IInv, Placed
<1>8. DelayCounted'
  <2>1. e \in Threads /\ ~task[e].over => dropAge[c] = Delay /\ ~connected[c]
    BY DEF IInv, DelayCounted, SendAlarm
  <2>2. QED
    BY <2>1, <1>1, <1>2, <1>3, <1>4 DEF IInv, DelayCounted
<1>9. LastAlarmKnown'
  <2>1. \A f \in Evaluators, d \in Clients :
            Sending(f, d)' => f # e /\ Sending(f, d) /\ task'[f] = task[f] /\ Rule(f)' = Rule(f)
    BY <1>3, <1>4 DEF Sending, Rule
  <2>2. ASSUME NEW d \in Clients \ overlapped'
        PROVE  /\ sentAge'[d] = alarmAge'[d]
               /\ \A f, g \in Evaluators : Sending(f, d)' /\ Sending(g, d)' => f = g
               /\ \A f \in Evaluators : Sending(f, d)' => alarmAge'[d] - task'[f].stamp > Rule(f)'.interval
    <3>1. CASE d = c
      <4>1. /\ sentAge[c] = alarmAge[c]
            /\ alarmAge[c] - task[e].stamp > Rule(e).interval
            /\ \A f \in Evaluators : Sending(f, c) => f = e
        BY <3>1, <1>1, <1>2, <2>2 DEF IInv, LastAlarmKnown
      <4>2. sentAge[c] \in 0 .. Cap /\ Rule(e).interval \in Nat
        BY <1>1, RuleTaken DEF IInv, TypeOK
      <4>3. ~(sentAge[c] < task[e].stamp)
        BY <4>1, <4>2, <1>1
      <4>4. sentAge'[c] = task[e].stamp /\ alarmAge'[c] = task[e].stamp
        BY <4>3, <1>1, <1>2 DEF IInv, TypeOK
      <4>5. QED
        BY <3>1, <4>1, <4>4, <2>1
    <3>2. CASE d # c
      <4>1. sentAge'[d] = sentAge[d] /\ alarmAge'[d] = alarmAge[d] /\ d \in Clients \ overlapped
        BY <3>2, <1>2, <2>2 DEF IInv, TypeOK
      <4>2. QED
        BY <4>1, <2>1 DEF IInv, LastAlarmKnown
    <3>3. QED
      BY <3>1, <3>2
  <2>3. QED
    BY <2>2 DEF LastAlarmKnown
<1>10. QED
  BY <1>6, <1>7, <1>8, <1>9 DEF IInv

-------------------------------------------------------------------------------
(* The clock.                                                              *)
LEMMA OlderIsBounded ==
    ASSUME NEW low \in Int, NEW limit \in Int, NEW age \in low .. limit
    PROVE  Older(age, limit) \in low .. limit
BY DEF Older

(* Ages and stamps grow together, sleeping threads wait less.              *)
LEMMA StepTick ==
    ASSUME IInv, Tick
    PROVE  IInv'
<1>1. /\ \A c \in Clients : alarmAge'[c] = Older(alarmAge[c], Cap) /\ sentAge'[c] = Older(sentAge[c], Cap)
      /\ \A c \in Clients : dropAge'[c] = IF dropAge[c] = NotYet THEN NotYet ELSE Older(dropAge[c], Delay)
      /\ overlapped' = {c \in overlapped : ~Settled(c)}
      /\ UNCHANGED <<connected, arg, outage>>
  BY DEF Tick
<1>2. ASSUME NEW e \in Evaluators
      PROVE  /\ task'[e] \in Tasks
             /\ task'[e].pc = task[e].pc /\ task'[e].client = task[e].client /\ task'[e].rule = task[e].rule
             /\ task'[e].over = task[e].over
             /\ task'[e].wait = IF task[e].wait > 0 THEN task[e].wait - 1 ELSE 0
             /\ task'[e].stamp = IF task[e].pc = "set" THEN task[e].stamp + 1 ELSE 0
  <2>1. /\ task[e] \in Tasks
        /\ task[e].pc = "set" => task[e].stamp < MaxHold
        /\ task'[e] = [task[e] EXCEPT !.wait = IF task[e].wait > 0 THEN task[e].wait - 1 ELSE 0,
                                      !.stamp = IF task[e].pc = "set" THEN task[e].stamp + 1 ELSE 0]
    BY DEF IInv, TypeOK, Tick, Tasks
  <2>2. /\ (IF task[e].wait > 0 THEN task[e].wait - 1 ELSE 0) \in 0 .. Delay
        /\ (IF task[e].pc = "set" THEN task[e].stamp + 1 ELSE 0) \in 0 .. MaxHold
    BY <2>1 DEF Tasks
  <2>3. QED
    BY <2>1, <2>2 DEF Tasks
<1>3. Threads \subseteq Evaluators /\ Main \in Evaluators
  BY DEF Evaluators
<1>4. TypeOK'
  <2>1. task' \in [Evaluators -> Tasks]
    BY <1>2 DEF Tick
  <2>2. alarmAge' \in [Clients -> 0 .. Cap] /\ sentAge' \in [Clients -> 0 .. Cap]
    <3>1. \A c \in Clients : /\ Older(alarmAge[c], Cap) \in 0 .. Cap
                             /\ Older(sentAge[c], Cap) \in 0 .. Cap
      BY OlderIsBounded DEF IInv, TypeOK
    <3>2. QED
      BY <3>1 DEF Tick
  <2>3. dropAge' \in [Clients -> NotYet .. Delay]
    <3>1. NotYet \in Int /\ NotYet \in NotYet .. Delay
      BY DEF NotYet
    <3>2. \A c \in Clients : Older(dropAge[c], Delay) \in NotYet .. Delay
      BY <3>1, OlderIsBounded DEF IInv, TypeOK
    <3>3. QED
      BY <3>1, <3>2 DEF Tick
  <2>4. QED
    BY <1>1, <2>1, <2>2, <2>3 DEF IInv, TypeOK
<1>5. Placed'
  BY <1>1, <1>2, <1>3 DEF IInv, Placed
<1>6. DelayCounted'
  <2>1. ASSUME NEW c \in Clients, dropAge[c] >= 0
        PROVE  dropAge'[c] = (IF dropAge[c] < Delay THEN dropAge[c] + 1 ELSE dropAge[c])
               /\ dropAge[c] \in 0 .. Delay
    <3>1. dropAge[c] \in NotYet .. Delay
      BY DEF IInv, TypeOK
    <3>2. dropAge[c] \in 0 .. Delay /\ dropAge[c] # NotYet
      BY <3>1, <2>1 DEF NotYet
    <3>3. QED
      BY <1>1, <3>2 DEF Older
  <2>2. ASSUME NEW t \in Threads, ~task[t].over
        PROVE  /\ task'[t].pc = "created" => connected'[arg'] \/ dropAge'[arg'] >= 0
               /\ task'[t].pc \in {"asleep", "rules", "set"} => ~connected'[task'[t].client]
               /\ task'[t].pc = "asleep" => dropAge'[task'[t].client] + task'[t].wait >= Delay
               /\ task'[t].pc = "asleep" => dropAge'[task'[t].client] >= 0
               /\ task'[t].pc \in {"rules", "set"} => dropAge'[task'[t].client] = Delay
    <3>1. task[t] \in Tasks /\ t \in Evaluators
      BY <1>3 DEF IInv, TypeOK
    <3>2. CASE task[t].pc = "created"
      <4>1. /\ arg \in Clients /\ arg' = arg /\ connected' = connected
            /\ connected[arg] \/ dropAge[arg] >= 0
        BY <2>2, <3>2, <1>1 DEF IInv, Placed, DelayCounted
      <4>2. connected'[arg'] \/ dropAge'[arg'] >= 0
        <5>1. CASE connected[arg]
          BY <4>1, <5>1
        <5>2. CASE dropAge[arg] >= 0
          BY <4>1, <5>2, <2>1
        <5>3. QED
          BY <4>1, <5>1, <5>2
      <4>3. QED
        BY <3>1, <3>2, <4>2, <1>2
    <3>3. CASE task[t].pc = "asleep"
      <4>1. /\ task[t].client \in Clients /\ dropAge[task[t].client] >= 0
            /\ dropAge[task[t].client] + task[t].wait >= Delay
            /\ task[t].wait \in 0 .. Delay /\ ~connected[task[t].client] /\ connected' = connected
        BY <2>2, <3>1, <3>3, <1>1 DEF IInv, Placed, DelayCounted, Tasks
      <4>2. /\ task'[t].pc = "asleep" /\ task'[t].client = task[t].client
            /\ task'[t].wait = IF task[t].wait > 0 THEN task[t].wait - 1 ELSE 0
        BY <3>1, <3>3, <1>2
      <4>3. /\ dropAge[task[t].client] \in 0 .. Delay
            /\ dropAge'[task[t].client] = IF dropAge[task[t].client] < Delay
                                         THEN dropAge[task[t].client] + 1
                                         ELSE dropAge[task[t].client]
        BY <4>1, <2>1
      <4>4. dropAge'[task[t].client] + task'[t].wait >= Delay /\ dropAge'[task[t].client] >= 0
        BY <4>1, <4>2, <4>3
      <4>5. QED
        BY <4>1, <4>2, <4>4
    <3>4. CASE task[t].pc \in {"rules", "set"}
      <4>1. /\ task[t].client \in Clients /\ dropAge[task[t].client] = Delay
            /\ ~connected[task[t].client] /\ connected' = connected
        BY <2>2, <3>1, <3>4, <1>1 DEF IInv, Placed, DelayCounted
      <4>2. dropAge[task[t].client] >= 0 /\ ~(Delay < Delay)
        BY <4>1
      <4>3. dropAge'[task[t].client] = Delay
        BY <4>1, <4>2, <2>1
      <4>4. QED
        BY <3>1, <3>4, <4>1, <4>3, <1>2
    <3>5. QED
      BY <3>1, <3>2, <3>3, <3>4, <1>2
  <2>3. \A t \in Threads : task'[t].over = task[t].over
    BY <1>2, <1>3
  <2>4. QED
    BY <2>2, <2>3 DEF DelayCounted
<1>7. LastAlarmKnown'
  <2>1. \A e \in Evaluators : Rule(e)' = Rule(e) /\ \A c \in Clients : Sending(e, c)' = Sending(e, c)
    BY <1>2 DEF Rule, Sending
  <2>2. ASSUME NEW c \in Clients \ overlapped'
        PROVE  /\ sentAge[c] = alarmAge[c]
               /\ \A e, f \in Evaluators : Sending(e, c) /\ Sending(f, c) => e = f
               /\ \A e \in Evaluators : Sending(e, c) => alarmAge[c] - task[e].stamp > Rule(e).interval
    BY <1>1, <2>2 DEF Settled, IInv, LastAlarmKnown
  <2>3. ASSUME NEW c \in Clients \ overlapped', NEW e \in Evaluators, Sending(e, c)
        PROVE  alarmAge'[c] - task'[e].stamp > Rule(e).interval
    <3>1. alarmAge[c] - task[e].stamp > Rule(e).interval
      BY <2>2, <2>3
    <3>2. /\ alarmAge[c] \in 0 .. Cap /\ task[e].stamp \in 0 .. MaxHold
          /\ task[e].stamp < MaxHold /\ task[e].pc = "set"
      BY <2>3 DEF IInv, TypeOK, Tasks, Sending, Tick
    <3>3. Rule(e).interval \in Nat /\ Rule(e).interval + MaxHold < Cap
      BY RuleTaken DEF IInv
    <3>4. task'[e].stamp = task[e].stamp + 1
      BY <3>2, <1>2
    <3>5. alarmAge'[c] = IF alarmAge[c] < Cap THEN alarmAge[c] + 1 ELSE alarmAge[c]
      BY <1>1 DEF Older
    <3>6. CASE alarmAge[c] < Cap
      BY <3>1, <3>2, <3>3, <3>4, <3>5, <3>6
    <3>7. CASE ~(alarmAge[c] < Cap)
      <4>1. alarmAge'[c] = Cap
        BY <3>2, <3>5, <3>7
      <4>2. QED
        BY <4>1, <3>2, <3>3, <3>4
    <3>8. QED
      BY <3>6, <3>7
  <2>4. \A c \in Clients \ overlapped' : sentAge'[c] = alarmAge'[c]
    BY <1>1, <2>2
  <2>5. QED
    BY <2>1, <2>2, <2>3, <2>4 DEF LastAlarmKnown
<1>8. QED
  BY <1>4, <1>5, <1>6, <1>7 DEF IInv

-------------------------------------------------------------------------------
(* What the lemmas establish is an invariant of the specification.         *)
THEOREM AlarmsAreTimed == Spec => []IInv
<1>1. Init => IInv
  <2> SUFFICES ASSUME Init PROVE IInv
    OBVIOUS
  <2>1. TypeOK
    BY IdleIsTask DEF Init, TypeOK, NotYet, Outages
  <2>2. \A e \in Evaluators : task[e].pc = "none" /\ task[e].stamp = 0
    BY DEF Init, Idle
  <2>3. Placed /\ DelayCounted
    BY <2>2 DEF Placed, DelayCounted, Evaluators
  <2>4. LastAlarmKnown
    BY <2>2 DEF LastAlarmKnown, Sending, Init
  <2>5. QED
    BY <2>1, <2>3, <2>4 DEF IInv
<1>2. IInv /\ [Next]_vars => IInv'
  <2> SUFFICES ASSUME IInv, [Next]_vars PROVE IInv'
    OBVIOUS
  <2>1. ASSUME NEW e \in Evaluators, Evaluate(e)
        PROVE  IInv'
    BY <2>1, StepRuleFails, StepRuleSilenced, StepRuleFires, StepSendAlarm DEF Evaluate
  <2>2. CASE MainLoop
    <3>1. ASSUME NEW c \in Clients,
                 OnNewClient(c) \/ Leave(c) \/ ReloadDrop(c) \/ WatchdogMessage(c)
          PROVE  IInv'
      BY <3>1, StepOnNewClient, StepOnDelClient, StepWatchdogMessage DEF Leave, ReloadDrop
    <3>2. CASE Reload \/ ReloadTable
      BY <3>2, StepReload, StepReloadTable
    <3>3. CASE Evaluate(Main)
      BY <3>3, <2>1 DEF Evaluators
    <3>4. QED
      BY <2>2, <3>1, <3>2, <3>3 DEF MainLoop
  <2>3. ASSUME NEW t \in Threads, AlarmThread(t)
        PROVE  IInv'
    <3>1. t \in Evaluators
      BY DEF Evaluators
    <3>2. QED
      BY <2>3, <3>1, <2>1, StepStart, StepWake DEF AlarmThread
  <2>4. CASE Tick
    BY <2>4, StepTick
  <2>5. CASE UNCHANGED vars
    BY <2>5 DEF vars, tables, history, IInv, TypeOK, Placed, DelayCounted, LastAlarmKnown, Sending, Rule
  <2>6. QED
    BY <2>2, <2>3, <2>4, <2>5 DEF Next
<1>3. QED
  BY <1>1, <1>2, PTL DEF Spec

(* Every variable keeps its type, whoever connects, leaves or is reported. *)
THEOREM AlarmTypes == Spec => []TypeOK
BY AlarmsAreTimed, PTL DEF IInv

(* offlineAlarmThread never reports a client whose last drop is less than  *)
(* 25 s ago, although its argument may have been replaced, unless that     *)
(* client came back in between or a reload gave its index to another.      *)
THEOREM DelayAlwaysKept == Spec => []DelayKept
<1>1. IInv => DelayKept
  BY DEF IInv, DelayCounted, DelayKept
<1>2. QED
  BY <1>1, AlarmsAreTimed, PTL

(* Alarms about a client are further apart than the interval unless two    *)
(* evaluations overlapped between the comparison and the assignment.       *)
THEOREM AlarmsAreSpaced == Spec => []SpacedUnlessOverlapped
<1>1. IInv => SpacedUnlessOverlapped
  <2> SUFFICES ASSUME IInv, NEW e \in Evaluators, Hasty(e), task[e].client \notin overlapped
               PROVE  FALSE
    BY DEF SpacedUnlessOverlapped
  <2>1. task[e].client \in Clients /\ task[e].stamp \in 0 .. MaxHold /\ Rule(e).interval \in Nat
    BY RuleTaken DEF IInv, Placed, Hasty, TypeOK, Tasks
  <2>2. /\ sentAge[task[e].client] = alarmAge[task[e].client]
        /\ alarmAge[task[e].client] - task[e].stamp > Rule(e).interval
    BY <2>1 DEF IInv, LastAlarmKnown, Sending, Hasty
  <2>3. alarmAge[task[e].client] \in 0 .. Cap
    BY <2>1 DEF IInv, TypeOK
  <2>4. QED
    BY <2>1, <2>2, <2>3 DEF Hasty
<1>2. QED
  BY <1>1, AlarmsAreTimed, PTL

================================================================================
