---------------------------- MODULE StatusBotProofs ----------------------------
(***************************************************************************)
(* Theorems about StatusBot: for any servers and any patience, the list    *)
(* and the counters of the bot implement the suspicion of Suspicion.       *)
(***************************************************************************)
EXTENDS StatusBot, TLAPS

USE PatienceAssumption DEF PatienceAssumption

BotInv == BotTypeOK /\ OneCounter

(* Nothing is counted when the bot starts.                                 *)
LEMMA Start == BotInit => BotInv
BY DEF BotInit, BotInv, BotTypeOK, OneCounter, Zero

(* Seeing a server on counts its return, or ends its absence.              *)
LEMMA StepSeenOn ==
    ASSUME BotInv, NEW s \in Servers, SeenOn(s)
    PROVE  BotInv'
<1>1. CASE s \notin offs
  BY <1>1 DEF SeenOn, BotInv, BotTypeOK, OneCounter, botVars
<1>2. CASE s \in offs /\ counterOn[s] < Patience
  <2>1. /\ counterOn' = [counterOn EXCEPT ![s] = counterOn[s] + 1]
        /\ UNCHANGED <<offs, counterOff>>
    BY <1>2 DEF SeenOn
  <2>2. BotTypeOK'
    BY <1>2, <2>1 DEF BotInv, BotTypeOK
  <2>3. OneCounter'
    BY <1>2, <2>1 DEF BotInv, BotTypeOK, OneCounter
  <2>4. QED
    BY <2>2, <2>3 DEF BotInv
<1>3. CASE s \in offs /\ ~(counterOn[s] < Patience)
  <2>1. /\ offs' = offs \ {s}
        /\ counterOn' = [counterOn EXCEPT ![s] = 0]
        /\ UNCHANGED counterOff
    BY <1>3 DEF SeenOn
  <2>2. BotTypeOK'
    BY <2>1 DEF BotInv, BotTypeOK
  <2>3. OneCounter'
    BY <2>1 DEF BotInv, BotTypeOK, OneCounter
  <2>4. QED
    BY <2>2, <2>3 DEF BotInv
<1>4. QED
  BY <1>1, <1>2, <1>3

(* Seeing it off counts its absence, or begins it.                         *)
LEMMA StepSeenOff ==
    ASSUME BotInv, NEW s \in Servers, SeenOff(s)
    PROVE  BotInv'
<1>1. CASE s \in offs
  BY <1>1 DEF SeenOff, BotInv, BotTypeOK, OneCounter, botVars
<1>2. CASE s \notin offs /\ counterOff[s] < Patience
  <2>1. /\ counterOff' = [counterOff EXCEPT ![s] = counterOff[s] + 1]
        /\ UNCHANGED <<offs, counterOn>>
    BY <1>2 DEF SeenOff
  <2>2. BotTypeOK'
    BY <1>2, <2>1 DEF BotInv, BotTypeOK
  <2>3. OneCounter'
    BY <1>2, <2>1 DEF BotInv, BotTypeOK, OneCounter
  <2>4. QED
    BY <2>2, <2>3 DEF BotInv
<1>3. CASE s \notin offs /\ ~(counterOff[s] < Patience)
  <2>1. /\ offs' = offs \cup {s}
        /\ counterOff' = [counterOff EXCEPT ![s] = 0]
        /\ UNCHANGED counterOn
    BY <1>3 DEF SeenOff
  <2>2. BotTypeOK'
    BY <2>1 DEF BotInv, BotTypeOK
  <2>3. OneCounter'
    BY <2>1 DEF BotInv, BotTypeOK, OneCounter
  <2>4. QED
    BY <2>2, <2>3 DEF BotInv
<1>4. QED
  BY <1>1, <1>2, <1>3

(* Types and the use of one counter at a time go together.                 *)
THEOREM CountersOfBot == BotSpec => []BotInv
<1>1. BotInv /\ [BotNext]_botVars => BotInv'
  <2> SUFFICES ASSUME BotInv, [BotNext]_botVars PROVE BotInv'
    OBVIOUS
  <2>1. ASSUME NEW s \in Servers, NEW online \in BOOLEAN, Send2tg(s, online)
        PROVE  BotInv'
    BY <2>1, StepSeenOn, StepSeenOff DEF Send2tg
  <2>2. CASE Restart
    BY <2>2 DEF Restart, BotInv, BotTypeOK, OneCounter, Zero
  <2>3. CASE UNCHANGED botVars
    BY <2>3 DEF botVars, BotInv, BotTypeOK, OneCounter
  <2>4. QED
    BY <2>1, <2>2, <2>3 DEF BotNext
<1>2. QED
  BY <1>1, Start, PTL DEF BotSpec

-------------------------------------------------------------------------------
(* What is said of a server, and how often it was contradicted.            *)
told == [s \in Servers |-> IF s \in offs THEN "off" ELSE "on"]
doubt == [s \in Servers |-> counterOff[s] + counterOn[s]]

(* A poll that contradicts the list is doubted, or told; another changes   *)
(* nothing.                                                                *)
LEMMA SeenOnIsSuspicion ==
    ASSUME BotInv, NEW s \in Servers, SeenOn(s)
    PROVE  Watch!Doubt(s) \/ Watch!Tell(s) \/ UNCHANGED <<told, doubt>>
<1>1. counterOn[s] \in 0 .. Patience /\ counterOff[s] \in 0 .. Patience
  BY DEF BotInv, BotTypeOK
<1>2. CASE s \notin offs
  BY <1>2 DEF SeenOn, botVars, told, doubt
<1>3. CASE s \in offs /\ counterOn[s] < Patience
  <2>1. /\ counterOn' = [counterOn EXCEPT ![s] = counterOn[s] + 1]
        /\ UNCHANGED <<offs, counterOff>>
    BY <1>3 DEF SeenOn
  <2>2. counterOff[s] = 0
    BY <1>3 DEF BotInv, OneCounter
  <2>3. doubt' = [doubt EXCEPT ![s] = doubt[s] + 1]
    <3>1. \A t \in Servers : doubt'[t] = IF t = s THEN doubt[s] + 1 ELSE doubt[t]
      BY <2>1, <1>1 DEF doubt, BotInv, BotTypeOK
    <3>2. QED
      BY <3>1 DEF doubt
  <2>4. told' = told /\ doubt[s] < Patience
    BY <1>1, <1>3, <2>1, <2>2 DEF told, doubt
  <2>5. Watch!Doubt(s)
    BY <2>3, <2>4 DEF Watch!Doubt, told, doubt
  <2>6. QED
    BY <2>5
<1>4. CASE s \in offs /\ ~(counterOn[s] < Patience)
  <2>1. /\ offs' = offs \ {s}
        /\ counterOn' = [counterOn EXCEPT ![s] = 0]
        /\ UNCHANGED counterOff
    BY <1>4 DEF SeenOn
  <2>2. counterOff[s] = 0 /\ counterOn[s] = Patience
    BY <1>1, <1>4 DEF BotInv, OneCounter
  <2>3. doubt' = [doubt EXCEPT ![s] = 0] /\ doubt[s] = Patience
    <3>1. \A t \in Servers : doubt'[t] = IF t = s THEN 0 ELSE doubt[t]
      BY <2>1, <2>2, <1>1 DEF doubt, BotInv, BotTypeOK
    <3>2. doubt[s] = Patience
      BY <2>2, <1>1 DEF doubt
    <3>3. QED
      BY <3>1, <3>2 DEF doubt
  <2>4. told' = [told EXCEPT ![s] = "on"] /\ told[s] = "off"
    BY <1>4, <2>1 DEF told
  <2>5. Watch!Tell(s)
    BY <2>3, <2>4 DEF Watch!Tell, Watch!Opposite, told, doubt
  <2>6. QED
    BY <2>5
<1>5. QED
  BY <1>2, <1>3, <1>4

(* The same for a poll that sees the server off.                           *)
LEMMA SeenOffIsSuspicion ==
    ASSUME BotInv, NEW s \in Servers, SeenOff(s)
    PROVE  Watch!Doubt(s) \/ Watch!Tell(s) \/ UNCHANGED <<told, doubt>>
<1>1. counterOn[s] \in 0 .. Patience /\ counterOff[s] \in 0 .. Patience
  BY DEF BotInv, BotTypeOK
<1>2. CASE s \in offs
  BY <1>2 DEF SeenOff, botVars, told, doubt
<1>3. CASE s \notin offs /\ counterOff[s] < Patience
  <2>1. /\ counterOff' = [counterOff EXCEPT ![s] = counterOff[s] + 1]
        /\ UNCHANGED <<offs, counterOn>>
    BY <1>3 DEF SeenOff
  <2>2. counterOn[s] = 0
    BY <1>3 DEF BotInv, OneCounter
  <2>3. doubt' = [doubt EXCEPT ![s] = doubt[s] + 1]
    <3>1. \A t \in Servers : doubt'[t] = IF t = s THEN doubt[s] + 1 ELSE doubt[t]
      BY <2>1, <1>1 DEF doubt, BotInv, BotTypeOK
    <3>2. QED
      BY <3>1 DEF doubt
  <2>4. told' = told /\ doubt[s] < Patience
    BY <1>1, <1>3, <2>1, <2>2 DEF told, doubt
  <2>5. Watch!Doubt(s)
    BY <2>3, <2>4 DEF Watch!Doubt, told, doubt
  <2>6. QED
    BY <2>5
<1>4. CASE s \notin offs /\ ~(counterOff[s] < Patience)
  <2>1. /\ offs' = offs \cup {s}
        /\ counterOff' = [counterOff EXCEPT ![s] = 0]
        /\ UNCHANGED counterOn
    BY <1>4 DEF SeenOff
  <2>2. counterOn[s] = 0 /\ counterOff[s] = Patience
    BY <1>1, <1>4 DEF BotInv, OneCounter
  <2>3. doubt' = [doubt EXCEPT ![s] = 0] /\ doubt[s] = Patience
    <3>1. \A t \in Servers : doubt'[t] = IF t = s THEN 0 ELSE doubt[t]
      BY <2>1, <2>2, <1>1 DEF doubt, BotInv, BotTypeOK
    <3>2. doubt[s] = Patience
      BY <2>2, <1>1 DEF doubt
    <3>3. QED
      BY <3>1, <3>2 DEF doubt
  <2>4. told' = [told EXCEPT ![s] = "off"] /\ told[s] = "on"
    BY <1>4, <2>1 DEF told
  <2>5. Watch!Tell(s)
    BY <2>3, <2>4 DEF Watch!Tell, Watch!Opposite, told, doubt
  <2>6. QED
    BY <2>5
<1>5. QED
  BY <1>2, <1>3, <1>4

-------------------------------------------------------------------------------
(* The counters stay within the patience of send2tg.                       *)
THEOREM BotTypes == BotSpec => []BotTypeOK
BY CountersOfBot, PTL DEF BotInv

(* A server that is reported on has no count of its return, one that is    *)
(* reported off none of its absence.                                       *)
THEOREM OneCounterInUse == BotSpec => []OneCounter
BY CountersOfBot, PTL DEF BotInv

(* The notices of the bot about a server alternate, each after more polls  *)
(* against the one before than its patience.                               *)
THEOREM BotImplementsSuspicion == BotSpec => ImplementsSuspicion
<1>1. BotInit => Watch!Init
  BY DEF BotInit, Watch!Init, Zero
<1>2. BotInv /\ [BotNext]_botVars => [Watch!Next]_Watch!vars
  <2> SUFFICES ASSUME BotInv, [BotNext]_botVars PROVE [Watch!Next]_Watch!vars
    OBVIOUS
  <2>1. ASSUME NEW s \in Servers, NEW online \in BOOLEAN, Send2tg(s, online)
        PROVE  [Watch!Next]_Watch!vars
    <3>1. Watch!Doubt(s) \/ Watch!Tell(s) \/ UNCHANGED <<told, doubt>>
      BY <2>1, SeenOnIsSuspicion, SeenOffIsSuspicion DEF Send2tg
    <3>2. QED
      BY <3>1 DEF Watch!Next, Watch!vars, told, doubt
  <2>2. CASE Restart
    BY <2>2 DEF Restart, Zero, Watch!Next, Watch!Forget
  <2>3. CASE UNCHANGED botVars
    BY <2>3 DEF botVars, Watch!vars
  <2>4. QED
    BY <2>1, <2>2, <2>3 DEF BotNext
<1>3. QED
  BY <1>1, <1>2, CountersOfBot, PTL DEF BotSpec, ImplementsSuspicion, Watch!Spec
===============================================================================
