---------------------------- MODULE SessionsProofs ----------------------------
(* The invariants of Sessions hold for every number of slots, every set of *)
(* addresses, credentials and configurations, and every value of the time  *)
(* limits.                                                                 *)
EXTENDS Sessions, TLAPS

(* A closed connection has no address: keeps OneConnectionPerAddress       *)
(* inductive when slots are freed and taken again.                         *)
FreeSlotsHaveNoPeer == \A s \in Slots : net[s] = "OFFLINE" <=> peer[s] = NoAddr

(* What a step must preserve beside the types.                             *)
Agreement ==
    /\ SlotsAgree
    /\ SessionsBound
    /\ ClientsAgree
    /\ CurrentCredentials
    /\ OneConnectionPerAddress
    /\ FreeSlotsHaveNoPeer

IInv == TypeOK /\ Agreement

USE TablesAssumption

-------------------------------------------------------------------------------
(* ClientNetToClient finds the one client bound to a slot, and -1 for a    *)
(* slot nobody is bound to.                                                *)
LEMMA LookupFinds ==
    ASSUME IInv, NEW s \in Slots
    PROVE  /\ \A i \in Ids : clientNetID[i] = s => ClientNetToClient(s) = i
           /\ ClientNetToClient(s) \in Ids \cup {-1}
<1>1. ASSUME NEW i \in Ids, clientNetID[i] = s
      PROVE  ClientNetToClient(s) = i
  <2>1. \A j \in Ids : clientNetID[j] = s => j = i
    BY <1>1 DEF IInv, Agreement, SessionsBound, Slots, NoSlot
  <2>2. /\ clientNetID[i] = s
        /\ \A j \in Ids : j < i => clientNetID[j] # s
    BY <1>1, <2>1 DEF Ids
  <2>3. QED
    BY <1>1, <2>1, <2>2 DEF ClientNetToClient
<1>2. CASE \E i \in Ids : clientNetID[i] = s
  BY <1>1, <1>2
<1>3. CASE ~\E i \in Ids : clientNetID[i] = s
  BY <1>3 DEF ClientNetToClient
<1>4. QED
  BY <1>1, <1>2, <1>3

(* A step that leaves the three layers alone preserves their agreement.    *)
LEMMA LayersUntouched ==
    ASSUME IInv,
           UNCHANGED <<net, peer, srv, clientNetID, connected, reported, cfg, login>>,
           pc' # "stopped" => pc # "stopped"
    PROVE  /\ SlotsAgree' /\ SessionsBound' /\ ClientsAgree'
           /\ CurrentCredentials' /\ OneConnectionPerAddress' /\ FreeSlotsHaveNoPeer'
BY DEF IInv, Agreement, SlotsAgree, SessionsBound, ClientsAgree, CurrentCredentials,
       OneConnectionPerAddress, FreeSlotsHaveNoPeer, Active

(* Drop frees the slot and unbinds the client it belonged to, if any; all  *)
(* other slots and clients keep what they have.                            *)
DropEffect(s) ==
    /\ net' = [net EXCEPT ![s] = "OFFLINE"]
    /\ peer' = [peer EXCEPT ![s] = NoAddr]
    /\ inbox' = [inbox EXCEPT ![s] = <<>>]
    /\ srv' = [srv EXCEPT ![s] = "EMPTY"]
    /\ age' = [age EXCEPT ![s] = 0]
    /\ login' = [login EXCEPT ![s] = Logout]
    /\ \A i \in Ids :
          /\ clientNetID[i] = s =>
                /\ clientNetID'[i] = NoSlot /\ ~connected'[i] /\ ~reported'[i]
                /\ alarmID' = i
          /\ clientNetID[i] # s =>
                /\ clientNetID'[i] = clientNetID[i]
                /\ connected'[i] = connected[i] /\ reported'[i] = reported[i]
    /\ (\A i \in Ids : clientNetID[i] # s) => UNCHANGED alarmID

DropTypes ==
    /\ clientNetID' \in [Ids -> Slots \cup {NoSlot}]
    /\ connected' \in [Ids -> BOOLEAN]
    /\ reported' \in [Ids -> BOOLEAN]
    /\ alarmID' \in Ids \cup {-1, NoAlarm}

LEMMA DropFrees ==
    ASSUME IInv, NEW s \in Slots, Drop(s)
    PROVE  DropEffect(s) /\ DropTypes
<1> DEFINE i0 == ClientNetToClient(s)
<1>1. /\ net' = [net EXCEPT ![s] = "OFFLINE"]
      /\ peer' = [peer EXCEPT ![s] = NoAddr]
      /\ inbox' = [inbox EXCEPT ![s] = <<>>]
  BY DEF Drop, Disconnect, IInv, TypeOK
<1>2. /\ srv' = [srv EXCEPT ![s] = "EMPTY"]
      /\ age' = [age EXCEPT ![s] = 0]
      /\ login' = [login EXCEPT ![s] = Logout]
  BY DEF Drop, DelClientCallback, Forget, IInv, TypeOK
<1>3. CASE srv[s] = "AUTHED"
  <2>1. PICK i \in Ids : clientNetID[i] = s
    BY <1>3 DEF IInv, Agreement, SessionsBound
  <2>2. i0 = i
    BY <2>1, LookupFinds
  <2>3. /\ alarmID' = i
        /\ clientNetID' = [clientNetID EXCEPT ![i] = NoSlot]
        /\ connected' = [connected EXCEPT ![i] = FALSE]
        /\ reported' = [reported EXCEPT ![i] = FALSE]
    BY <1>3, <2>2 DEF Drop, DelClientCallback, OnDelClient
  <2>4. \A j \in Ids : j # i => clientNetID[j] # s
    BY <2>1 DEF IInv, Agreement, SessionsBound, Slots, NoSlot
  <2>5. QED
    BY <1>1, <1>2, <2>1, <2>3, <2>4 DEF IInv, TypeOK, DropEffect, DropTypes
<1>4. CASE srv[s] # "AUTHED"
  <2>1. UNCHANGED <<clientNetID, connected, reported, alarmID>>
    BY <1>4 DEF Drop, DelClientCallback, mainVars
  <2>2. \A i \in Ids : clientNetID[i] # s
    BY <1>4 DEF IInv, Agreement, SessionsBound
  <2>3. QED
    BY <1>1, <1>2, <2>1, <2>2 DEF IInv, TypeOK, DropEffect, DropTypes
<1>5. QED
  BY <1>3, <1>4

(* Dropping a connection preserves the agreement of the layers.            *)
LEMMA DropAgrees ==
    ASSUME IInv, NEW s \in Slots, Drop(s), pc # "stopped", UNCHANGED cfg
    PROVE  /\ SlotsAgree' /\ SessionsBound' /\ ClientsAgree'
           /\ CurrentCredentials' /\ OneConnectionPerAddress' /\ FreeSlotsHaveNoPeer'
<1>0. DropEffect(s) /\ DropTypes
  BY DropFrees
<1> USE <1>0 DEF IInv, Agreement, TypeOK, DropEffect, DropTypes
<1>1. SlotsAgree' /\ FreeSlotsHaveNoPeer'
  BY PeersAssumption DEF SlotsAgree, FreeSlotsHaveNoPeer
<1>2. SessionsBound'
  <2> USE DEF SessionsBound
  <2>1. \A i \in Ids : clientNetID'[i] = IF clientNetID[i] = s THEN NoSlot ELSE clientNetID[i]
    OBVIOUS
  <2>2. ASSUME NEW t \in Slots
        PROVE  srv'[t] = "AUTHED" <=> \E i \in Ids : clientNetID'[i] = t
    <3>1. \A i \in Ids : clientNetID'[i] = t <=> clientNetID[i] = t /\ t # s
      BY <2>1 DEF NoSlot, Slots
    <3>2. srv'[t] = "AUTHED" <=> srv[t] = "AUTHED" /\ t # s
      OBVIOUS
    <3>3. QED
      BY <3>1, <3>2
  <2>3. ASSUME NEW i \in Ids, NEW j \in Ids, clientNetID'[i] = clientNetID'[j], i # j
        PROVE  clientNetID'[i] = NoSlot
    BY <2>1, <2>3
  <2>4. QED
    BY <2>2, <2>3
<1>3. ClientsAgree'
  BY DEF ClientsAgree, NoSlot, Slots
<1>4. CurrentCredentials'
  BY DEF CurrentCredentials, Active, NoSlot, Slots
<1>5. OneConnectionPerAddress'
  BY PeersAssumption DEF OneConnectionPerAddress, FreeSlotsHaveNoPeer
<1>6. QED
  BY <1>1, <1>2, <1>3, <1>4, <1>5

-------------------------------------------------------------------------------
(* One lemma per action that changes a layer.                              *)

LEMMA InitAgrees == Init => IInv
<1> SUFFICES ASSUME Init PROVE IInv
  OBVIOUS
<1>1. TypeOK
  <2>1. 0 \in Slots /\ 0 \in 0 .. AgeCap /\ Logout \in Lines
    BY TimesAssumption DEF Slots, AgeCap, Lines
  <2>2. inbox \in [Slots -> Seq(Lines)] /\ banLeft \in [Ips -> Int]
    BY DEF Init, NotBanned
  <2>3. /\ net \in [Slots -> {"OFFLINE", "ONLINE", "ERROR"}]
        /\ peer \in [Slots -> Addrs \cup {NoAddr}]
        /\ srv \in [Slots -> {"EMPTY", "CONNECTED", "AUTHED"}]
        /\ clientNetID \in [Ids -> Slots \cup {NoSlot}]
        /\ connected \in [Ids -> BOOLEAN] /\ reported \in [Ids -> BOOLEAN]
    BY DEF Init
  <2>4. age \in [Slots -> 0 .. AgeCap] /\ login \in [Slots -> Lines]
    BY <2>1 DEF Init
  <2>5. QED
    BY <2>1, <2>2, <2>3, <2>4 DEF Init, TypeOK
<1>2. Agreement
  BY DEF Init, Agreement, SlotsAgree, SessionsBound, ClientsAgree, CurrentCredentials,
         OneConnectionPerAddress, FreeSlotsHaveNoPeer, Slots, Ids, NoSlot
<1>3. QED
  BY <1>1, <1>2 DEF IInv

(* A new connection takes a free slot: nobody is bound to it yet.          *)
LEMMA NewClientAgrees ==
    ASSUME IInv, NEW a \in Addrs, NEW s \in Slots, NewClient(a, s)
    PROVE  IInv'
<1> USE DEF IInv, Agreement, NewClient, mainVars, sigVars
<1>1. /\ net[s] = "OFFLINE" /\ net' \in [Slots -> {"OFFLINE", "ONLINE", "ERROR"}]
      /\ net'[s] # "OFFLINE" /\ \A t \in Slots : t # s => net'[t] = net[t]
  BY DEF FirstFree, AfterSend, TypeOK
<1>2. TypeOK'
  BY <1>1, TimesAssumption DEF TypeOK, AgeCap, Goto, Slots
<1>3. SlotsAgree' /\ FreeSlotsHaveNoPeer'
  BY <1>1, PeersAssumption DEF TypeOK, SlotsAgree, FreeSlotsHaveNoPeer
<1>4. srv[s] = "EMPTY"
  BY <1>1 DEF SlotsAgree
<1>5. SessionsBound' /\ ClientsAgree'
  BY <1>4 DEF TypeOK, SessionsBound, ClientsAgree
<1>6. CurrentCredentials'
  BY DEF TypeOK, CurrentCredentials, Active
<1>7. \A t \in Slots : peer[t] # a
  BY <1>1, PeersAssumption DEF TypeOK, SameAddress, FreeSlotsHaveNoPeer
<1>8. OneConnectionPerAddress'
  BY <1>1, <1>7, PeersAssumption DEF TypeOK, OneConnectionPerAddress
<1>9. QED
  BY <1>2, <1>3, <1>5, <1>6, <1>8

(* Authentication binds a slot nobody is bound to, to a client that is     *)
(* offline, under the credential this client has in the configuration.     *)
LEMMA AuthenticateAgrees ==
    ASSUME IInv, NEW s \in Slots, NEW i \in Ids, Authenticate(s, i)
    PROVE  IInv'
<1> USE DEF IInv, Agreement, Authenticate, sigVars
<1>1. /\ net[s] = "ONLINE" /\ inbox[s] # <<>> /\ pc = "recv"
      /\ Head(inbox[s]) \in Lines /\ Tail(inbox[s]) \in Seq(Lines)
  BY DEF NextLine, Readable, TypeOK
<1>2. /\ net' \in [Slots -> {"OFFLINE", "ONLINE", "ERROR"}]
      /\ \A t \in Slots : net'[t] = "OFFLINE" <=> net[t] = "OFFLINE"
  BY <1>1 DEF AfterSend, TypeOK
<1>3. Active(i) /\ cfg[i + 1] = Head(inbox[s]) /\ clientNetID[i] = NoSlot
  BY DEF LastMatch, Matching, Free
<1>4. TypeOK'
  <2>1. /\ age' \in [Slots -> 0 .. AgeCap]
        /\ inbox' \in [Slots -> Seq(Lines)]
        /\ login' \in [Slots -> Lines]
    BY <1>1, TimesAssumption DEF TypeOK, AgeCap
  <2>2. /\ srv' \in [Slots -> {"EMPTY", "CONNECTED", "AUTHED"}]
        /\ clientNetID' \in [Ids -> Slots \cup {NoSlot}]
        /\ connected' \in [Ids -> BOOLEAN]
    BY DEF TypeOK
  <2>3. QED
    BY <1>2, <2>1, <2>2 DEF TypeOK
<1>5. SlotsAgree' /\ FreeSlotsHaveNoPeer'
  BY <1>1, <1>2 DEF TypeOK, SlotsAgree, FreeSlotsHaveNoPeer
<1>6. \A j \in Ids : clientNetID[j] # s
  BY DEF SessionsBound
<1>7. SessionsBound'
  <2>1. \A j \in Ids : clientNetID'[j] = IF j = i THEN s ELSE clientNetID[j]
    BY DEF TypeOK
  <2>2. \A t \in Slots : srv'[t] = "AUTHED" <=> t = s \/ srv[t] = "AUTHED"
    BY DEF TypeOK
  <2>3. ASSUME NEW t \in Slots
        PROVE  srv'[t] = "AUTHED" <=> \E j \in Ids : clientNetID'[j] = t
    <3>1. CASE t = s
      BY <3>1, <2>1, <2>2
    <3>2. CASE t # s
      <4>1. \A j \in Ids : clientNetID'[j] = t <=> clientNetID[j] = t
        BY <3>2, <2>1, <1>3 DEF NoSlot, Slots
      <4>2. QED
        BY <3>2, <4>1, <2>2 DEF SessionsBound
    <3>3. QED
      BY <3>1, <3>2
  <2>4. ASSUME NEW j \in Ids, NEW k \in Ids, clientNetID'[j] = clientNetID'[k], j # k
        PROVE  clientNetID'[j] = NoSlot
    BY <2>1, <2>4, <1>6 DEF SessionsBound
  <2>5. QED
    BY <2>3, <2>4 DEF SessionsBound
<1>8. ClientsAgree'
  BY DEF TypeOK, ClientsAgree, NoSlot, Slots
<1>9. CurrentCredentials'
  BY <1>3, <1>6 DEF TypeOK, CurrentCredentials, Active
<1>10. OneConnectionPerAddress'
  BY <1>2 DEF TypeOK, OneConnectionPerAddress
<1>11. QED
  BY <1>4, <1>5, <1>7, <1>8, <1>9, <1>10

(* A reload closes exactly the slots of the clients it unbinds.            *)
LEMMA ReadConfigAgrees ==
    ASSUME IInv, ReadConfig
    PROVE  IInv'
<1> DEFINE dropped == {i \in Ids : Active(i) /\ connected[i]}
           closing == {clientNetID[i] : i \in dropped}
<1> USE DEF IInv, Agreement
<1>1. \A s \in Slots : s \in closing <=> srv[s] = "AUTHED"
  BY DEF SessionsBound, ClientsAgree, CurrentCredentials, NoSlot, Slots
<1>2. /\ net' = [s \in Slots |-> IF s \in closing THEN "OFFLINE" ELSE net[s]]
      /\ peer' = [s \in Slots |-> IF s \in closing THEN NoAddr ELSE peer[s]]
      /\ inbox' = [s \in Slots |-> IF s \in closing THEN <<>> ELSE inbox[s]]
      /\ srv' = [s \in Slots |-> IF s \in closing THEN "EMPTY" ELSE srv[s]]
      /\ age' = [s \in Slots |-> IF s \in closing THEN 0 ELSE age[s]]
      /\ login' = [s \in Slots |-> IF s \in closing THEN Logout ELSE login[s]]
  BY DEF ReadConfig, Disconnect, Forget
<1>3. /\ clientNetID' = [i \in Ids |-> NoSlot]
      /\ connected' = [i \in Ids |-> FALSE]
      /\ reported' = [i \in Ids |-> FALSE]
      /\ cfg' = file /\ file # Broken /\ pc = "top" /\ pc' = "clear" /\ cur' = 0
      /\ UNCHANGED <<banLeft, file, reload, running>>
      /\ alarmID' \in Ids \cup {alarmID}
  BY DEF ReadConfig, Goto, sigVars
<1>4. TypeOK'
  BY <1>2, <1>3, TimesAssumption DEF TypeOK, Lines, AgeCap, Slots
<1>5. SlotsAgree' /\ FreeSlotsHaveNoPeer'
  BY <1>2, <1>3 DEF TypeOK, SlotsAgree, FreeSlotsHaveNoPeer
<1>6. SessionsBound' /\ ClientsAgree' /\ CurrentCredentials'
  BY <1>1, <1>2, <1>3 DEF TypeOK, SessionsBound, ClientsAgree, CurrentCredentials,
                          NoSlot, Slots
<1>7. OneConnectionPerAddress'
  BY <1>2, PeersAssumption DEF TypeOK, OneConnectionPerAddress, FreeSlotsHaveNoPeer
<1>8. QED
  BY <1>4, <1>5, <1>6, <1>7

-------------------------------------------------------------------------------

Steps == {"top", "clear", "unban", "accept", "read", "recv", "timeout"}

LEMMA NextSlotInRange ==
    ASSUME TypeOK, NEW step \in Steps, NextSlot(step), pc \in Steps
    PROVE  pc' \in Steps /\ cur' \in Slots
BY DEF TypeOK, NextSlot, Goto, Slots

LEMMA BanPeerTyped ==
    ASSUME TypeOK, NEW s, NEW ticks \in Nat, BanPeer(s, ticks)
    PROVE  banLeft' \in [Ips -> Int]
<1> DEFINE ip == Ip[peer[s]]
<1>1. banLeft' = banLeft \/ banLeft' = [banLeft EXCEPT ![ip] = ticks]
  BY DEF BanPeer, WithBan
<1>2. ASSUME NEW x PROVE [banLeft EXCEPT ![x] = ticks] \in [Ips -> Int]
  <2>1. banLeft \in [Ips -> Int] /\ ticks \in Int
    BY DEF TypeOK
  <2>2. QED
    BY <2>1
<1>3. QED
  BY <1>1, <1>2 DEF TypeOK

(* Any action that drops one connection and otherwise moves the program    *)
(* counter and the bans.                                                   *)
LEMMA DropStep ==
    ASSUME IInv, NEW s \in Slots, Drop(s), pc # "stopped",
           UNCHANGED <<cfg, sigVars>>,
           pc' \in Steps, cur' \in Slots, banLeft' \in [Ips -> Int]
    PROVE  IInv'
<1>1. DropEffect(s) /\ DropTypes
  BY DropFrees
<1>2. 0 \in 0 .. AgeCap /\ Logout \in Lines
  BY TimesAssumption DEF AgeCap, Lines
<1>3. /\ net' \in [Slots -> {"OFFLINE", "ONLINE", "ERROR"}]
      /\ peer' \in [Slots -> Addrs \cup {NoAddr}]
      /\ inbox' \in [Slots -> Seq(Lines)]
      /\ srv' \in [Slots -> {"EMPTY", "CONNECTED", "AUTHED"}]
      /\ age' \in [Slots -> 0 .. AgeCap]
      /\ login' \in [Slots -> Lines]
  BY <1>1, <1>2 DEF IInv, TypeOK, DropEffect
<1>4. TypeOK'
  BY <1>1, <1>3 DEF IInv, TypeOK, DropTypes, Steps, sigVars
<1>5. Agreement'
  BY DropAgrees DEF Agreement
<1>6. QED
  BY <1>4, <1>5 DEF IInv

(* Any action that leaves the layers alone.                                *)
LEMMA QuietStep ==
    ASSUME IInv, TypeOK',
           UNCHANGED <<net, peer, srv, clientNetID, connected, reported, cfg, login>>,
           pc' # "stopped" => pc # "stopped"
    PROVE  IInv'
BY LayersUntouched DEF IInv, Agreement

(* A reply may fail and a report may be stored, for a bound client.        *)
LEMMA HandleMessageAgrees ==
    ASSUME IInv, NEW s \in Slots, HandleMessage(s)
    PROVE  IInv'
<1> USE DEF IInv, Agreement, HandleMessage, sigVars
<1>1. /\ net[s] = "ONLINE" /\ inbox[s] # <<>> /\ pc = "recv"
      /\ Tail(inbox[s]) \in Seq(Lines)
  BY DEF NextLine, Readable, TypeOK
<1>2. /\ net' \in [Slots -> {"OFFLINE", "ONLINE", "ERROR"}]
      /\ \A t \in Slots : net'[t] = "OFFLINE" <=> net[t] = "OFFLINE"
  BY <1>1 DEF AfterSend, TypeOK
<1>3. PICK i \in Ids : clientNetID[i] = s
  BY DEF SessionsBound
<1>4. reported' = reported \/ reported' = [reported EXCEPT ![i] = TRUE]
  <2>1. ClientNetToClient(s) = i
    BY <1>3, LookupFinds
  <2>2. QED
    BY <2>1
<1>5. /\ age' \in [Slots -> 0 .. AgeCap]
      /\ inbox' \in [Slots -> Seq(Lines)]
      /\ reported' \in [Ids -> BOOLEAN]
  <2>1. reported' \in [Ids -> BOOLEAN]
    BY <1>4 DEF TypeOK
  <2>2. age' \in [Slots -> 0 .. AgeCap]
    BY TimesAssumption DEF TypeOK, AgeCap
  <2>3. inbox' \in [Slots -> Seq(Lines)]
    BY <1>1 DEF TypeOK
  <2>4. QED
    BY <2>1, <2>2, <2>3
<1>6. TypeOK'
  BY <1>2, <1>5 DEF TypeOK
<1>7. ClientsAgree'
  <2>1. connected[i]
    BY <1>3 DEF ClientsAgree, NoSlot, Slots
  <2>2. QED
    BY <1>4, <2>1 DEF TypeOK, ClientsAgree
<1>8. SlotsAgree' /\ FreeSlotsHaveNoPeer' /\ OneConnectionPerAddress'
  BY <1>1, <1>2 DEF SlotsAgree, FreeSlotsHaveNoPeer, OneConnectionPerAddress
<1>9. SessionsBound' /\ CurrentCredentials'
  BY DEF SessionsBound, CurrentCredentials, Active
<1>10. QED
  BY <1>6, <1>7, <1>8, <1>9

(* Closing the server leaves the upper layers as they are; the lower one   *)
(* no longer has to agree with them.                                       *)
LEMMA CloseAgrees ==
    ASSUME IInv, Close
    PROVE  IInv'
<1> USE DEF IInv, Agreement, Close, Goto, Disconnect, mainVars, sigVars
<1>1. TypeOK'
  <2>1. inbox' \in [Slots -> Seq(Lines)]
    BY DEF TypeOK
  <2>2. net' \in [Slots -> {"OFFLINE", "ONLINE", "ERROR"}] /\ peer' \in [Slots -> Addrs \cup {NoAddr}]
    BY DEF TypeOK
  <2>3. QED
    BY <2>1, <2>2 DEF TypeOK, Slots
<1>2. /\ SlotsAgree' /\ FreeSlotsHaveNoPeer' /\ OneConnectionPerAddress'
      /\ SessionsBound' /\ ClientsAgree' /\ CurrentCredentials'
  BY DEF SlotsAgree, FreeSlotsHaveNoPeer, OneConnectionPerAddress, SessionsBound,
         ClientsAgree, CurrentCredentials, Active
<1>3. QED
  BY <1>1, <1>2

-------------------------------------------------------------------------------
(* Every step preserves the inductive invariant.                           *)
LEMMA NextAgrees == IInv /\ [Next]_vars => IInv'
<1> SUFFICES ASSUME IInv, [Next]_vars PROVE IInv'
  OBVIOUS
<1> USE DEF netVars, mainVars, sigVars
<1>0. TypeOK /\ 0 \in Slots
  BY DEF IInv, Slots
<1>1. CASE Close
  BY <1>1, CloseAgrees
<1>2. CASE ReadConfigFails \/ NoReload \/ NoNewClient \/ RecvDone
  <2>1. TypeOK'
    BY <1>0, <1>2 DEF ReadConfigFails, NoReload, NoNewClient, RecvDone, Goto, TypeOK
  <2>2. QED
    BY <1>2, <2>1, QuietStep DEF ReadConfigFails, NoReload, NoNewClient, RecvDone, Goto
<1>3. CASE ReadConfig
  BY <1>3, ReadConfigAgrees
<1>4. CASE ReloadDone \/ BanUpdate
  <2>1. banLeft' \in [Ips -> Int]
    BY <1>0, <1>4 DEF ReloadDone, BanUpdate, NotBanned, TypeOK
  <2>2. TypeOK'
    BY <1>0, <1>4, <2>1 DEF ReloadDone, BanUpdate, Goto, TypeOK
  <2>3. QED
    BY <1>4, <2>2, QuietStep DEF ReloadDone, BanUpdate, Goto
<1>5. CASE \E a \in Addrs, s \in Slots : NewClient(a, s)
  BY <1>5, NewClientAgrees
<1>6. CASE ReadNothing
  <2>1. pc' \in Steps /\ cur' \in Slots
    BY <1>0, <1>6, NextSlotInRange DEF ReadNothing, Steps
  <2>2. TypeOK'
    BY <1>0, <1>6, <2>1 DEF ReadNothing, TypeOK, Steps
  <2>3. QED
    BY <1>6, <2>2, QuietStep DEF ReadNothing
<1>7. CASE \E batch \in Batches : ReadLines(batch)
  <2>1. PICK batch \in Batches : ReadLines(batch)
    BY <1>7
  <2>2. pc' \in Steps /\ cur' \in Slots
    BY <1>0, <2>1, NextSlotInRange DEF ReadLines, Steps
  <2>3. inbox' \in [Slots -> Seq(Lines)]
    BY <1>0, <2>1, LinesAssumption DEF ReadLines, TypeOK
  <2>4. TypeOK'
    BY <1>0, <2>1, <2>2, <2>3 DEF ReadLines, TypeOK, Steps
  <2>5. QED
    BY <2>1, <2>4, QuietStep DEF ReadLines
<1>8. CASE DropBroken
  <2>1. pc' \in Steps /\ cur' \in Slots
    BY <1>0, <1>8, NextSlotInRange DEF DropBroken, Steps
  <2>2. QED
    BY <1>0, <1>8, <2>1, DropStep DEF DropBroken, TypeOK
<1>9. ASSUME NEW s \in Slots, RejectMalformed(s) \/ RejectCredentials(s)
      PROVE  IInv'
  <2>1. banLeft' \in [Ips -> Int]
    BY <1>0, <1>9, BanPeerTyped, TimesAssumption DEF RejectMalformed, RejectCredentials
  <2>2. pc = "recv" /\ pc' \in Steps /\ cur' \in Slots
    BY <1>0, <1>9 DEF RejectMalformed, RejectCredentials, NextLine, Goto, Steps, TypeOK
  <2>3. QED
    BY <1>9, <2>1, <2>2, DropStep DEF RejectMalformed, RejectCredentials
<1>10. ASSUME NEW s \in Slots, NEW i \in Ids, RejectSecondConnection(s, i)
       PROVE  IInv'
  BY <1>0, <1>10, DropStep DEF RejectSecondConnection, NextLine, Steps, TypeOK
<1>11. ASSUME NEW s \in Slots, LogoutLine(s)
       PROVE  IInv'
  BY <1>0, <1>11, DropStep DEF LogoutLine, NextLine, Steps, TypeOK
<1>12. ASSUME NEW s \in Slots, NEW i \in Ids, Authenticate(s, i)
       PROVE  IInv'
  BY <1>12, AuthenticateAgrees
<1>13. ASSUME NEW s \in Slots, HandleMessage(s)
       PROVE  IInv'
  BY <1>13, HandleMessageAgrees
<1>14. CASE TimeoutAuth \/ TimeoutIdle
  <2>1. pc' \in Steps /\ cur' \in Slots
    BY <1>0, <1>14, NextSlotInRange DEF TimeoutAuth, TimeoutIdle, Steps
  <2>2. banLeft' \in [Ips -> Int]
    BY <1>0, <1>14, BanPeerTyped, TimesAssumption DEF TimeoutAuth, TimeoutIdle, TypeOK
  <2>3. QED
    BY <1>0, <1>14, <2>1, <2>2, DropStep DEF TimeoutAuth, TimeoutIdle, TypeOK
<1>15. CASE NoTimeout
  <2>1. pc' \in Steps /\ cur' \in Slots
    BY <1>0, <1>15, NextSlotInRange DEF NoTimeout, Steps
  <2>2. TypeOK'
    BY <1>0, <1>15, <2>1 DEF NoTimeout, TypeOK, Steps
  <2>3. QED
    BY <1>15, <2>2, QuietStep DEF NoTimeout
<1>16. CASE Tick
  <2>1. age' \in [Slots -> 0 .. AgeCap] /\ banLeft' \in [Ips -> Int]
    BY <1>0, <1>16, TimesAssumption DEF Tick, TypeOK, AgeCap
  <2>2. TypeOK'
    BY <1>0, <1>16, <2>1 DEF Tick, TypeOK
  <2>3. QED
    BY <1>16, <2>2, QuietStep DEF Tick
<1>17. CASE ExitFunc \/ \E f \in Configs \cup {Broken} : ReloadFunc(f)
  <2>1. TypeOK'
    BY <1>0, <1>17 DEF ExitFunc, ReloadFunc, TypeOK
  <2>2. QED
    BY <1>17, <2>1, QuietStep DEF ExitFunc, ReloadFunc
<1>18. CASE UNCHANGED vars
  <2>1. TypeOK'
    BY <1>0, <1>18 DEF vars, TypeOK
  <2>2. QED
    BY <1>18, <2>1, QuietStep DEF vars
<1>19. QED
  BY <1>1, <1>2, <1>3, <1>4, <1>5, <1>6, <1>7, <1>8, <1>9, <1>10, <1>11, <1>12,
     <1>13, <1>14, <1>15, <1>16, <1>17, <1>18 DEF Next, MainLoop, Environment

(* The slots, the authentication states and the clients table agree in     *)
(* every reachable state, whatever the peers, the clock and the signals do. *)
THEOREM SessionsAgree == Spec => []IInv
<1>1. QED
  BY InitAgrees, NextAgrees, PTL DEF Spec

(* The types of the variables of the main loop.                            *)
THEOREM TypeCorrect == Spec => []TypeOK
<1>1. IInv => TypeOK
  BY DEF IInv
<1>2. QED
  BY <1>1, SessionsAgree, PTL

(* The layers of the server never disagree on which slots are in use.      *)
THEOREM SlotsNeverDisagree == Spec => []SlotsAgree
<1>1. IInv => SlotsAgree
  BY DEF IInv, Agreement
<1>2. QED
  BY <1>1, SessionsAgree, PTL

(* Every authenticated slot belongs to exactly one client, and every       *)
(* client's published state to its slot: the lookups by slot never fail.   *)
THEOREM BindingIsOneToOne == Spec => [](SessionsBound /\ ClientsAgree)
<1>1. IInv => SessionsBound /\ ClientsAgree
  BY DEF IInv, Agreement
<1>2. QED
  BY <1>1, SessionsAgree, PTL

(* What other threads read of a client: it is connected exactly while it   *)
(* is bound to a slot, and no report outlives that.                        *)
THEOREM PublishedIsBound == Spec => []ClientsAgree
BY BindingIsOneToOne, PTL

(* No session outlives the configuration whose credentials it presented.   *)
THEOREM CredentialsStayCurrent == Spec => []CurrentCredentials
<1>1. IInv => CurrentCredentials
  BY DEF IInv, Agreement
<1>2. QED
  BY <1>1, SessionsAgree, PTL

(* No two connections have the same peer address.                          *)
THEOREM AddressesStayDistinct == Spec => []OneConnectionPerAddress
<1>1. IInv => OneConnectionPerAddress
  BY DEF IInv, Agreement
<1>2. QED
  BY <1>1, SessionsAgree, PTL

-------------------------------------------------------------------------------
(* A step either drops one connection, reloads, closes the server,         *)
(* authenticates a session, or lets every session be.                      *)
SessionsKept ==
    /\ UNCHANGED <<clientNetID, connected, alarmID, cfg>>
    /\ \A i \in Ids : clientNetID[i] # NoSlot =>
          LET s == clientNetID[i]
          IN  /\ net'[s] = "OFFLINE" <=> net[s] = "OFFLINE"
              /\ peer'[s] = peer[s] /\ login'[s] = login[s]

LEMMA StepKinds ==
    ASSUME IInv, [Next]_vars
    PROVE  \/ \E s \in Slots : Drop(s) /\ UNCHANGED cfg
           \/ ReadConfig
           \/ Close
           \/ \E s \in Slots, i \in Ids : Authenticate(s, i)
           \/ SessionsKept
<1> USE DEF netVars, mainVars
<1>0. TypeOK
  BY DEF IInv
<1>1. CASE DropBroken \/ TimeoutAuth \/ TimeoutIdle
  BY <1>0, <1>1 DEF DropBroken, TimeoutAuth, TimeoutIdle, TypeOK
<1>2. ASSUME NEW s \in Slots,
             \/ RejectMalformed(s) \/ RejectCredentials(s) \/ LogoutLine(s)
             \/ \E i \in Ids : RejectSecondConnection(s, i)
      PROVE  Drop(s) /\ UNCHANGED cfg
  BY <1>2 DEF RejectMalformed, RejectCredentials, RejectSecondConnection, LogoutLine
<1>3. ASSUME NEW a \in Addrs, NEW s \in Slots, NewClient(a, s)
      PROVE  SessionsKept
  <2>1. \A i \in Ids : clientNetID[i] # s
    BY <1>3 DEF IInv, Agreement, SlotsAgree, SessionsBound, NewClient, FirstFree
  <2>2. \A t \in Slots : t # s =>
           net'[t] = net[t] /\ peer'[t] = peer[t] /\ login'[t] = login[t]
    BY <1>0, <1>3 DEF NewClient, AfterSend, TypeOK
  <2>3. QED
    BY <1>0, <1>3, <2>1, <2>2 DEF SessionsKept, NewClient, TypeOK
<1>4. ASSUME NEW s \in Slots, HandleMessage(s)
      PROVE  SessionsKept
  <2>1. \A t \in Slots : net'[t] = "OFFLINE" <=> net[t] = "OFFLINE"
    BY <1>0, <1>4 DEF HandleMessage, AfterSend, NextLine, Readable, TypeOK
  <2>2. QED
    BY <1>0, <1>4, <2>1 DEF SessionsKept, HandleMessage, TypeOK
<1>5. CASE \/ ReadConfigFails \/ ReloadDone \/ NoReload \/ BanUpdate \/ NoNewClient
           \/ ReadNothing \/ RecvDone \/ NoTimeout \/ Tick \/ ExitFunc \/ UNCHANGED vars
           \/ \E batch \in Batches : ReadLines(batch)
           \/ \E f \in Configs \cup {Broken} : ReloadFunc(f)
  <2>1. UNCHANGED <<net, peer, login, clientNetID, connected, alarmID, cfg>>
    BY <1>5 DEF ReadConfigFails, ReloadDone, NoReload, BanUpdate, NoNewClient, ReadNothing,
                RecvDone, NoTimeout, Tick, ExitFunc, ReadLines, ReloadFunc, vars
  <2>2. QED
    BY <2>1 DEF SessionsKept
<1>6. QED
  BY <1>1, <1>2, <1>3, <1>4, <1>5 DEF Next, MainLoop, Environment

(* The offline alarm is always raised for a client that goes offline in    *)
(* that step, and none goes offline without it.                            *)
THEOREM AlarmsNameLeavers == Spec => AlarmNamesLeaver
<1> DEFINE leaving == {i \in Ids : connected[i] /\ ~connected'[i]}
           Alarm == alarmID' # alarmID \/ leaving # {} => alarmID' \in leaving
<1>1. ASSUME IInv, [Next]_vars PROVE Alarm
  <2> USE <1>1
  <2>0. /\ \A i \in Ids : connected[i] <=> clientNetID[i] # NoSlot
        /\ \A i, j \in Ids : clientNetID[i] = clientNetID[j] /\ i # j => clientNetID[i] = NoSlot
        /\ TypeOK
    BY DEF IInv, Agreement, ClientsAgree, SessionsBound
  <2>1. ASSUME NEW s \in Slots, Drop(s) PROVE Alarm
    <3>1. DropEffect(s)
      BY <2>1, DropFrees
    <3>2. CASE \A i \in Ids : clientNetID[i] # s
      BY <3>1, <3>2 DEF DropEffect
    <3>3. ASSUME NEW i \in Ids, clientNetID[i] = s PROVE alarmID' \in leaving
      BY <2>0, <3>1, <3>3 DEF DropEffect, NoSlot, Slots
    <3>4. QED
      BY <3>2, <3>3
  <2>2. CASE ReadConfig
    <3> DEFINE dropped == {i \in Ids : Active(i) /\ connected[i]}
               alarmed == {i \in dropped : srv[clientNetID[i]] = "AUTHED"}
    <3>1. \A i \in Ids : connected[i] <=> i \in alarmed
      BY <2>0 DEF IInv, Agreement, CurrentCredentials, SessionsBound, TypeOK
    <3>2. /\ connected' = [i \in Ids |-> FALSE]
          /\ IF alarmed = {} THEN alarmID' = alarmID ELSE alarmID' \in alarmed
      BY <2>2 DEF ReadConfig
    <3>3. leaving = alarmed
      BY <3>1, <3>2
    <3>4. QED
      BY <3>2, <3>3
  <2>3. CASE Close \/ SessionsKept
    BY <2>3 DEF Close, mainVars, SessionsKept
  <2>4. ASSUME NEW s \in Slots, NEW i \in Ids, Authenticate(s, i) PROVE Alarm
    BY <2>0, <2>4 DEF Authenticate, TypeOK
  <2>5. QED
    BY <2>1, <2>2, <2>3, <2>4, StepKinds
<1>2. IInv /\ [Next]_vars => [Alarm]_vars
  BY <1>1
<1>3. QED
  BY <1>2, SessionsAgree, PTL DEF Spec, AlarmNamesLeaver

-------------------------------------------------------------------------------
(* Refinement.  Who holds what is read off the binding, the slots and the  *)
(* presented credentials.                                                  *)

Holders == [i \in Ids |-> HolderOf(i)]

LEMMA InitialHolders == Init => P!Init
BY DEF Init, P!Init, P!Empty, HolderOf

(* A step maps to the arrival or departure of one peer, to a reload, to    *)
(* the end, or to nothing.                                                 *)
LEMMA HolderStep ==
    ASSUME IInv, IInv', [Next]_vars
    PROVE  [P!Next]_(P!presence)
<1>0. /\ TypeOK /\ TypeOK' /\ cfg \in Configs /\ cfg' \in Configs
      /\ \A i \in Ids : clientNetID[i] # NoSlot => clientNetID[i] \in Slots
      /\ \A i, j \in Ids : clientNetID[i] = clientNetID[j] /\ i # j => clientNetID[i] = NoSlot
  BY DEF IInv, Agreement, SessionsBound, TypeOK
<1>1. CASE SessionsKept
  <2>1. \A i \in Ids : HolderOf(i)' = HolderOf(i)
    BY <1>1 DEF SessionsKept, HolderOf
  <2>2. Holders' = Holders /\ cfg' = cfg
    BY <1>1, <2>1 DEF SessionsKept, Holders
  <2>3. QED
    BY <2>2 DEF P!presence, Holders
<1>2. ASSUME NEW s \in Slots, Drop(s), UNCHANGED cfg PROVE [P!Next]_(P!presence)
  <2>1. DropEffect(s)
    BY <1>2, DropFrees
  <2>2. \A i \in Ids : clientNetID[i] # s => HolderOf(i)' = HolderOf(i)
    BY <1>0, <2>1 DEF DropEffect, HolderOf, TypeOK
  <2>3. \A i \in Ids : clientNetID[i] = s => HolderOf(i)' = NoAddr
    BY <2>1 DEF DropEffect, HolderOf
  <2>4. CASE \E i \in Ids : clientNetID[i] = s
    <3>1. PICK i \in Ids : clientNetID[i] = s
      BY <2>4
    <3>2. \A j \in Ids : j # i => clientNetID[j] # s
      BY <1>0, <3>1 DEF NoSlot, Slots
    <3>3. Holders' = [Holders EXCEPT ![i] = NoAddr]
      BY <2>2, <2>3, <3>1, <3>2 DEF Holders
    <3>4. P!Leave(i)
      BY <1>2, <3>3 DEF P!Leave, Holders
    <3>5. QED
      BY <3>4 DEF P!Next
  <2>5. CASE \A i \in Ids : clientNetID[i] # s
    <3>1. Holders' = Holders
      BY <2>2, <2>5 DEF Holders
    <3>2. QED
      BY <1>2, <3>1 DEF P!presence, Holders
  <2>6. QED
    BY <2>4, <2>5
<1>3. CASE ReadConfig
  <2>1. \A i \in Ids : HolderOf(i)' = NoAddr
    BY <1>3 DEF ReadConfig, HolderOf
  <2>2. Holders' = [i \in Ids |-> NoAddr]
    BY <2>1 DEF Holders
  <2>3. P!Reload(cfg')
    BY <2>2 DEF P!Reload, P!Empty, Holders
  <2>4. QED
    BY <1>0, <2>3 DEF P!Next
<1>4. CASE Close
  <2>1. \A i \in Ids : HolderOf(i)' = NoAddr
    BY <1>0, <1>4 DEF Close, Disconnect, HolderOf, mainVars
  <2>2. Holders' = [i \in Ids |-> NoAddr]
    BY <2>1 DEF Holders
  <2>3. P!Close
    BY <1>4, <2>2 DEF P!Close, P!Empty, Holders, Close
  <2>4. QED
    BY <2>3 DEF P!Next
<1>5. ASSUME NEW s \in Slots, NEW i \in Ids, Authenticate(s, i)
      PROVE  [P!Next]_(P!presence)
  <2>1. /\ clientNetID[i] = NoSlot /\ i < Len(cfg) /\ cfg[i + 1] = Head(inbox[s])
        /\ net[s] = "ONLINE" /\ cfg' = cfg
    BY <1>5 DEF Authenticate, Free, LastMatch, Matching, Active, NextLine, Readable
  <2>2. peer[s] \in Addrs /\ \A j \in Ids : clientNetID[j] # s
    <3>1. peer[s] # NoAddr
      BY <2>1 DEF IInv, Agreement, FreeSlotsHaveNoPeer
    <3>2. srv[s] = "CONNECTED"
      BY <1>5 DEF Authenticate
    <3>3. \A j \in Ids : clientNetID[j] # s
      BY <3>2 DEF IInv, Agreement, SessionsBound
    <3>4. QED
      BY <1>0, <3>1, <3>3 DEF TypeOK
  <2>3. /\ \A t \in Slots : net'[t] = "OFFLINE" <=> net[t] = "OFFLINE"
        /\ peer' = peer
        /\ clientNetID' = [clientNetID EXCEPT ![i] = s]
        /\ login' = [login EXCEPT ![s] = Head(inbox[s])]
    BY <1>0, <1>5, <2>1 DEF Authenticate, AfterSend, TypeOK
  <2>4. HolderOf(i) = NoAddr
    BY <2>1 DEF HolderOf
  <2>5. HolderOf(i)' = [peer |-> peer[s], cred |-> cfg[i + 1]]
    <3>1. clientNetID'[i] = s /\ login'[s] = cfg[i + 1]
      BY <1>0, <2>1, <2>3 DEF TypeOK
    <3>2. s # NoSlot /\ net'[s] # "OFFLINE" /\ peer'[s] = peer[s]
      BY <2>1, <2>3 DEF NoSlot, Slots
    <3>3. QED
      BY <3>1, <3>2 DEF HolderOf
  <2>6. \A j \in Ids : j # i => HolderOf(j)' = HolderOf(j)
    <3>1. SUFFICES ASSUME NEW j \in Ids, j # i PROVE HolderOf(j)' = HolderOf(j)
      OBVIOUS
    <3>2. clientNetID'[j] = clientNetID[j] /\ clientNetID[j] # s
      BY <1>0, <2>2, <2>3, <3>1 DEF TypeOK
    <3>3. CASE clientNetID[j] = NoSlot
      BY <3>2, <3>3 DEF HolderOf
    <3>4. CASE clientNetID[j] # NoSlot
      <4>1. clientNetID[j] \in Slots
        BY <1>0, <3>4
      <4>2. login'[clientNetID[j]] = login[clientNetID[j]]
        BY <1>0, <2>3, <3>2, <4>1 DEF TypeOK
      <4>3. QED
        BY <2>3, <3>2, <4>1, <4>2 DEF HolderOf
    <3>5. QED
      BY <3>3, <3>4
  <2>7. Holders' = [Holders EXCEPT ![i] = [peer |-> peer[s], cred |-> cfg[i + 1]]]
    BY <2>5, <2>6 DEF Holders
  <2>8. Holders[i] = NoAddr
    BY <2>4 DEF Holders
  <2>9. P!Come(i, peer[s])
    BY <2>1, <2>7, <2>8 DEF P!Come, Holders
  <2>10. QED
    BY <2>2, <2>9 DEF P!Next
<1>6. QED
  BY <1>1, <1>2, <1>3, <1>4, <1>5, StepKinds

(* The three tables implement Presence: one peer per configured client,    *)
(* admitted with that client's credentials and kept until it leaves.       *)
THEOREM SessionsImplementPresence == Spec => ImplementsPresence
<1>1. Init => P!Init
  BY InitialHolders
<1>2. IInv /\ IInv' /\ [Next]_vars => [P!Next]_(P!presence)
  BY HolderStep
<1>3. QED
  BY <1>1, <1>2, SessionsAgree, PTL DEF Spec, ImplementsPresence, P!Spec
===============================================================================
