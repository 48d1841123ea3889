------------------------------- MODULE Sessions -------------------------------
(***************************************************************************)
(* The sessions of the monitoring server: the connection slots of          *)
(* CNetwork, the per-slot authentication state of CServer and the table    *)
(* of configured clients of CMain, as they are driven by the single main   *)
(* loop of CMain::Run.  The three layers describe the same connection      *)
(* three times and are kept together only by the order of the calls in     *)
(* Accept, Drop, Update, Timeout and ReadConfig.                           *)
(*                                                                         *)
(* One pass of the loop is split at its steps (the variables pc and cur),  *)
(* so that time, signals and peers move between any two of them.           *)
(* Abstractions: a line is a credential, a logout or something else; a     *)
(* time stamp is the age since it was taken; a peer's bytes arrive as a    *)
(* batch of whole lines (the framing has a module of its own).             *)
(***************************************************************************)
EXTENDS Integers, Sequences, FiniteSets

CONSTANTS
    MaxClients,    \* NET_MAX_CLIENTS: size of all three tables
    Addrs,         \* addresses (IP and port) peers connect from
    Ips,           \* IP addresses
    Ip,            \* the IP of each address
    Loopback,      \* IPs that are never banned
    Creds,         \* "username:password" lines
    OtherLines,    \* lines that are no credentials: garbage
    Configs,       \* contents of a well-formed configuration file
    Broken,        \* a configuration file that cannot be opened or parsed
    Batches,       \* what one read of a socket may add to a buffer
    MaxLines,      \* bound: lines that fit a connection's buffer
    MaxBans,       \* CBanPool::MAX_BANS
    AuthTimeout,   \* 5 s to authenticate, in ticks of the clock
    IdleTimeout,   \* 15 s between two lines, in ticks
    BanShort,      \* 30 s, the ban for not authenticating, in ticks
    BanLong,       \* 60 s, the ban for bad credentials, in ticks
    NoAddr         \* the zeroed m_PeerAddr of a closed connection

Logout == "logout"
Report == "update"                \* an update that parses

Lines == Creds \cup OtherLines \cup {Logout, Report}

ASSUME TablesAssumption == MaxClients \in Nat \ {0} /\ MaxBans \in Nat

ASSUME PeersAssumption ==
    /\ Ip \in [Addrs -> Ips]
    /\ Loopback \subseteq Ips
    /\ NoAddr \notin Addrs

ASSUME LinesAssumption ==
    /\ {Logout, Report} \cap (Creds \cup OtherLines) = {}
    /\ Creds \cap OtherLines = {}
    /\ Batches \subseteq Seq(Lines)
    /\ MaxLines \in Nat

ASSUME ConfigsAssumption == Configs \subseteq Seq(Creds) /\ Broken \notin Configs

ASSUME TimesAssumption ==
    /\ AuthTimeout \in Nat /\ IdleTimeout \in Nat /\ AuthTimeout <= IdleTimeout
    /\ BanShort \in Nat /\ BanLong \in Nat

Slots == 0 .. MaxClients - 1      \* indexes of m_aSlots and CServer::m_aClients
Ids == 0 .. MaxClients - 1        \* indexes of CMain::m_aClients

NoSlot == -1                      \* m_ClientNetID of a client that is offline
NotBanned == -1                   \* no entry in the ban pool
NoAlarm == MaxClients             \* m_OfflineAlarmThreadData not written yet

VARIABLES
    pc,            \* the step of the main loop
    cur,           \* the index of the loop over the slots in that step
    net,           \* CNetworkClient::m_State
    peer,          \* CNetworkClient::m_PeerAddr
    inbox,         \* complete lines in CNetworkClient::m_aBuffer
    srv,           \* CServer::CClient::m_State
    age,           \* time since m_TimeConnected (CONNECTED) or m_LastReceived
                   \* (AUTHED); no one reads it in a free slot, where it is 0
    clientNetID,   \* CMain::CClient::m_ClientNetID
    connected,     \* CMain::CClient::m_Connected
    reported,      \* CMain::CClient::m_Stats holds an update
    cfg,           \* the clients table as the last ReadConfig filled it
    alarmID,       \* m_OfflineAlarmThreadData.m_ReloadRequired
    banLeft,       \* CBanAddrPool: ticks until an IP's ban may be removed
    file,          \* the configuration file
    reload,        \* gs_ReloadConfig
    running,       \* gs_Running
    login          \* history: the credential each session presented

netVars == <<net, peer, inbox>>
mainVars == <<clientNetID, connected, reported, alarmID>>
sigVars == <<file, reload, running>>
vars == <<pc, cur, netVars, srv, age, mainVars, cfg, banLeft, sigVars, login>>

-------------------------------------------------------------------------------

AgeCap == IdleTimeout + 1         \* ages saturate here: no guard sees beyond

Active(i) == i < Len(cfg)         \* m_Active: the first Len(cfg) entries

TypeOK ==
    /\ pc \in {"top", "clear", "unban", "accept", "read", "recv", "timeout", "stopped"}
    /\ cur \in Slots
    /\ net \in [Slots -> {"OFFLINE", "ONLINE", "ERROR"}]
    /\ peer \in [Slots -> Addrs \cup {NoAddr}]
    /\ inbox \in [Slots -> Seq(Lines)]
    /\ srv \in [Slots -> {"EMPTY", "CONNECTED", "AUTHED"}]
    /\ age \in [Slots -> 0 .. AgeCap]
    /\ clientNetID \in [Ids -> Slots \cup {NoSlot}]
    /\ connected \in [Ids -> BOOLEAN]
    /\ reported \in [Ids -> BOOLEAN]
    /\ cfg \in Configs
    /\ alarmID \in Ids \cup {-1, NoAlarm}
    /\ banLeft \in [Ips -> Int]
    /\ file \in Configs \cup {Broken}
    /\ reload \in BOOLEAN
    /\ running \in BOOLEAN
    /\ login \in [Slots -> Lines]

-------------------------------------------------------------------------------
(* Helpers: the ban pool, the client table and the drop of a connection.   *)

(* CNetBan::Ban: loopback is exempt, an entry is overwritten whatever its  *)
(* remaining time, and a full pool takes no new entry.                     *)
WithBan(ip, ticks) ==
    LET inPool == {x \in Ips : banLeft[x] # NotBanned}
    IN  IF ip \in Loopback \/ (ip \notin inPool /\ Cardinality(inPool) >= MaxBans)
        THEN banLeft
        ELSE [banLeft EXCEPT ![ip] = ticks]

BanPeer(s, ticks) == banLeft' = WithBan(Ip[peer[s]], ticks)

ClientNetToClient(s) ==
    IF \E i \in Ids : clientNetID[i] = s
    THEN CHOOSE i \in Ids : /\ clientNetID[i] = s
                            /\ \A j \in Ids : j < i => clientNetID[j] # s
    ELSE -1

(* Faulty variants: m_ClientNetID survives, m_Stats survives, the alarm is *)
(* given the slot.                                                         *)
OnDelClientKeepsNetID(s) ==
    /\ alarmID' = ClientNetToClient(s)
    /\ connected' = [connected EXCEPT ![ClientNetToClient(s)] = FALSE]
    /\ reported' = [reported EXCEPT ![ClientNetToClient(s)] = FALSE]
    /\ UNCHANGED clientNetID

OnDelClientKeepsStats(s) ==
    /\ alarmID' = ClientNetToClient(s)
    /\ clientNetID' = [clientNetID EXCEPT ![ClientNetToClient(s)] = NoSlot]
    /\ connected' = [connected EXCEPT ![ClientNetToClient(s)] = FALSE]
    /\ UNCHANGED reported

OnDelClientAlarmsSlot(s) ==
    /\ alarmID' = s
    /\ clientNetID' = [clientNetID EXCEPT ![ClientNetToClient(s)] = NoSlot]
    /\ connected' = [connected EXCEPT ![ClientNetToClient(s)] = FALSE]
    /\ reported' = [reported EXCEPT ![ClientNetToClient(s)] = FALSE]

OnDelClient(s) ==
    LET i == ClientNetToClient(s)
    IN  /\ alarmID' = i
        /\ IF i \in Ids
           THEN /\ clientNetID' = [clientNetID EXCEPT ![i] = NoSlot]
                /\ connected' = [connected EXCEPT ![i] = FALSE]
                /\ reported' = [reported EXCEPT ![i] = FALSE]
           ELSE UNCHANGED <<clientNetID, connected, reported>>

(* Faulty variant: the state is only reset for authenticated slots.        *)
DelClientCallbackAuthedOnly(s) ==
    IF srv[s] = "AUTHED"
    THEN OnDelClient(s) /\ srv' = [srv EXCEPT ![s] = "EMPTY"]
    ELSE UNCHANGED <<mainVars, srv>>

DelClientCallback(s) ==
    /\ IF srv[s] = "AUTHED" THEN OnDelClient(s) ELSE UNCHANGED mainVars
    /\ srv' = [srv EXCEPT ![s] = "EMPTY"]

Disconnect(S) ==
    /\ net' = [s \in Slots |-> IF s \in S THEN "OFFLINE" ELSE net[s]]
    /\ peer' = [s \in Slots |-> IF s \in S THEN NoAddr ELSE peer[s]]
    /\ inbox' = [s \in Slots |-> IF s \in S THEN <<>> ELSE inbox[s]]

(* A free slot has no session: its age and history are forgotten.          *)
Forget(S) ==
    /\ age' = [s \in Slots |-> IF s \in S THEN 0 ELSE age[s]]
    /\ login' = [s \in Slots |-> IF s \in S THEN Logout ELSE login[s]]

Drop(s) == DelClientCallback(s) /\ Disconnect({s}) /\ Forget({s})

(* Sending may fail at any time, which only marks the connection.          *)
AfterSend(s) == net' \in {[net EXCEPT ![s] = x] : x \in {"ONLINE", "ERROR"}}

Goto(step) == pc' = step /\ cur' = 0

(* Faulty variant: the loop over the slots runs one too far.               *)
NextSlotTooFar(step) ==
    IF cur + 1 <= MaxClients THEN cur' = cur + 1 /\ UNCHANGED pc ELSE Goto(step)

NextSlot(step) ==
    IF cur + 1 < MaxClients THEN cur' = cur + 1 /\ UNCHANGED pc ELSE Goto(step)

-------------------------------------------------------------------------------
(* The top of CMain::Run's loop: signals are polled here and only here.    *)

(* Faulty variant: waits until every peer has left.                        *)
CloseWhenEmpty ==
    /\ pc = "top" /\ ~running
    /\ net = [s \in Slots |-> "OFFLINE"]
    /\ Goto("stopped")
    /\ UNCHANGED <<netVars, srv, age, mainVars, cfg, banLeft, sigVars, login>>

(* gs_Running is clear: every connection is closed, without callbacks.     *)
Close ==
    /\ pc = "top" /\ ~running
    /\ Goto("stopped")
    /\ Disconnect(Slots)
    /\ UNCHANGED <<srv, age, mainVars, cfg, banLeft, sigVars, login>>

(* ReadConfig returns 1 and Run returns: the process ends.                 *)
ReadConfigFails ==
    /\ pc = "top" /\ running /\ reload
    /\ file = Broken
    /\ Goto("stopped")
    /\ UNCHANGED <<netVars, srv, age, mainVars, cfg, banLeft, sigVars, login>>

(* Every active, connected client is dropped, the table is zeroed and      *)
(* filled again.  Connections that have not authenticated yet survive.     *)
ReadConfig ==
    LET dropped == {i \in Ids : Active(i) /\ connected[i]}
        alarmed == {i \in dropped : srv[clientNetID[i]] = "AUTHED"}
        closing == {clientNetID[i] : i \in dropped}
    IN  /\ pc = "top" /\ running /\ reload
        /\ file # Broken
        /\ Disconnect(closing) /\ Forget(closing)
        /\ srv' = [s \in Slots |-> IF s \in closing THEN "EMPTY" ELSE srv[s]]
        /\ IF alarmed = {}
           THEN UNCHANGED alarmID
           ELSE alarmID' \in alarmed /\ \A i \in alarmed : i <= alarmID'
        /\ clientNetID' = [i \in Ids |-> NoSlot]
        /\ connected' = [i \in Ids |-> FALSE]
        /\ reported' = [i \in Ids |-> FALSE]
        /\ cfg' = file
        /\ Goto("clear")
        /\ UNCHANGED <<banLeft, sigVars>>

(* UnbanAll, then gs_ReloadConfig = 0: a signal that came since ReadConfig *)
(* opened the file is forgotten with the one that was served.              *)
ReloadDone ==
    /\ pc = "clear"
    /\ banLeft' = [ip \in Ips |-> NotBanned]
    /\ reload' = FALSE
    /\ Goto("unban")
    /\ UNCHANGED <<netVars, srv, age, mainVars, cfg, file, running, login>>

NoReload ==
    /\ pc = "top" /\ running /\ ~reload
    /\ Goto("unban")
    /\ UNCHANGED <<netVars, srv, age, mainVars, cfg, banLeft, sigVars, login>>

-------------------------------------------------------------------------------
(* CServer::Update: expired bans, at most one accept, one read per slot.   *)

(* Faulty variant: only bans that are still running count as expired.      *)
ExpiredReversed(ip) == banLeft[ip] > 1

Expired(ip) == banLeft[ip] = 0

BanUpdate ==
    /\ pc = "unban"
    /\ banLeft' = [ip \in Ips |-> IF Expired(ip) THEN NotBanned ELSE banLeft[ip]]
    /\ Goto("accept")
    /\ UNCHANGED <<netVars, srv, age, mainVars, cfg, sigVars, login>>

IsBanned(a) == banLeft[Ip[a]] # NotBanned

(* Faulty variant: the search ends at the first free slot.                 *)
SameAddressBeforeFree(a) ==
    \E s \in Slots : peer[s] = a /\ \A t \in 0 .. s : net[t] # "OFFLINE"

SameAddress(a) == \E s \in Slots : net[s] # "OFFLINE" /\ peer[s] = a

FirstFree(s) == net[s] = "OFFLINE" /\ \A t \in Slots : t < s => net[t] # "OFFLINE"

(* No pending connection, or one that is refused: banned, a second         *)
(* connection from the same address, or no slot left.                      *)
NoNewClient ==
    /\ pc = "accept"
    /\ Goto("read")
    /\ UNCHANGED <<netVars, srv, age, mainVars, cfg, banLeft, sigVars, login>>

NewClient(a, s) ==
    /\ pc = "accept"
    /\ ~IsBanned(a)
    /\ ~SameAddress(a)
    /\ FirstFree(s)
    /\ peer' = [peer EXCEPT ![s] = a]
    /\ inbox' = [inbox EXCEPT ![s] = <<>>]
    /\ AfterSend(s)                          \* "Authentication required:"
    /\ srv' = [srv EXCEPT ![s] = "CONNECTED"]
    /\ age' = [age EXCEPT ![s] = 0]
    /\ Goto("read")
    /\ UNCHANGED <<mainVars, cfg, banLeft, sigVars, login>>

(* The slot is idle, or its socket has nothing to read.                    *)
ReadNothing ==
    /\ pc = "read"
    /\ net[cur] # "ERROR"
    /\ NextSlot("recv")
    /\ UNCHANGED <<netVars, srv, age, mainVars, cfg, banLeft, sigVars, login>>

ReadLines(batch) ==
    /\ pc = "read"
    /\ net[cur] = "ONLINE"
    /\ Len(inbox[cur]) + Len(batch) <= MaxLines
    /\ inbox' = [inbox EXCEPT ![cur] = @ \o batch]
    /\ NextSlot("recv")
    /\ UNCHANGED <<net, peer, srv, age, mainVars, cfg, banLeft, sigVars, login>>

(* Faulty variant: only an error of this very read is noticed.             *)
DropBrokenRead ==
    /\ pc = "read"
    /\ net[cur] = "ONLINE"
    /\ Drop(cur)
    /\ NextSlot("recv")
    /\ UNCHANGED <<cfg, banLeft, sigVars>>

(* A failed send of before, or now: the peer hung up, the read failed, or  *)
(* the buffer is full.  The slot is dropped in the same iteration.         *)
DropBroken ==
    /\ pc = "read"
    /\ net[cur] # "OFFLINE"
    /\ Drop(cur)
    /\ NextSlot("recv")
    /\ UNCHANGED <<cfg, banLeft, sigVars>>

-------------------------------------------------------------------------------
(* The Recv loop of CServer::Update: one buffered line after the other,    *)
(* the lowest slot first.                                                  *)

Readable(s) == net[s] = "ONLINE" /\ inbox[s] # <<>>

NextLine(s) ==
    /\ pc = "recv"
    /\ Readable(s)
    /\ \A t \in Slots : t < s => ~Readable(t)

Matching(line) == {i \in Ids : Active(i) /\ cfg[i + 1] = line}

(* No colon, a part that is too long, or a blank part: Update returns and  *)
(* the rest of the pass is skipped.                                        *)
RejectMalformed(s) ==
    /\ NextLine(s)
    /\ srv[s] = "CONNECTED"
    /\ Head(inbox[s]) \notin Creds
    /\ BanPeer(s, BanLong)
    /\ Drop(s)
    /\ Goto("top")
    /\ UNCHANGED <<cfg, sigVars>>

RejectCredentials(s) ==
    /\ NextLine(s)
    /\ srv[s] = "CONNECTED"
    /\ Head(inbox[s]) \in Creds
    /\ Matching(Head(inbox[s])) = {}
    /\ BanPeer(s, BanLong)
    /\ Drop(s)
    /\ UNCHANGED <<pc, cur, cfg, sigVars>>

(* Faulty variant: the index is assigned outside the comparison.           *)
LastActive(s, i) ==
    /\ Matching(Head(inbox[s])) # {}
    /\ Active(i) /\ \A j \in Ids : Active(j) => j <= i

(* The configured client the line names: the last one that matches.        *)
LastMatch(s, i) ==
    /\ i \in Matching(Head(inbox[s]))
    /\ \A j \in Matching(Head(inbox[s])) : j <= i

(* Faulty variant: slot 0 is taken for no slot.                            *)
FreeOrSlotZero(i) == clientNetID[i] <= 0

Free(i) == clientNetID[i] = NoSlot

RejectSecondConnection(s, i) ==
    /\ NextLine(s)
    /\ srv[s] = "CONNECTED"
    /\ LastMatch(s, i)
    /\ ~Free(i)
    /\ Drop(s)
    /\ UNCHANGED <<pc, cur, cfg, banLeft, sigVars>>

Authenticate(s, i) ==
    /\ NextLine(s)
    /\ srv[s] = "CONNECTED"
    /\ LastMatch(s, i)
    /\ Free(i)
    /\ srv' = [srv EXCEPT ![s] = "AUTHED"]
    /\ age' = [age EXCEPT ![s] = 0]
    /\ login' = [login EXCEPT ![s] = Head(inbox[s])]
    /\ clientNetID' = [clientNetID EXCEPT ![i] = s]
    /\ connected' = [connected EXCEPT ![i] = TRUE]
    /\ inbox' = [inbox EXCEPT ![s] = Tail(@)]
    /\ AfterSend(s)                          \* access granted, monitors
    /\ UNCHANGED <<pc, cur, peer, reported, alarmID, cfg, banLeft, sigVars>>

LogoutLine(s) ==
    /\ NextLine(s)
    /\ srv[s] = "AUTHED"
    /\ Head(inbox[s]) = Logout
    /\ Drop(s)
    /\ UNCHANGED <<pc, cur, cfg, banLeft, sigVars>>

(* A report is stored in the statistics of the client bound to the slot;   *)
(* any other line is ignored.  Replies are sent if the client asked.       *)
HandleMessage(s) ==
    /\ NextLine(s)
    /\ srv[s] = "AUTHED"
    /\ Head(inbox[s]) # Logout
    /\ age' = [age EXCEPT ![s] = 0]
    /\ inbox' = [inbox EXCEPT ![s] = Tail(@)]
    /\ AfterSend(s)
    /\ reported' = IF Head(inbox[s]) = Report
                   THEN [reported EXCEPT ![ClientNetToClient(s)] = TRUE]
                   ELSE reported
    /\ UNCHANGED <<pc, cur, peer, srv, clientNetID, connected, alarmID, cfg,
                   banLeft, sigVars, login>>

RecvDone ==
    /\ pc = "recv"
    /\ \A s \in Slots : ~Readable(s)
    /\ Goto("timeout")
    /\ UNCHANGED <<netVars, srv, age, mainVars, cfg, banLeft, sigVars, login>>

-------------------------------------------------------------------------------
(* The timeout pass at the end of CServer::Update.                         *)

(* Faulty variants: the limit is compared for equality.                    *)
AuthExpiredNow(s) == srv[s] = "CONNECTED" /\ age[s] = AuthTimeout

IdleExpiredNow(s) == srv[s] = "AUTHED" /\ age[s] = IdleTimeout

AuthExpired(s) == srv[s] = "CONNECTED" /\ age[s] > AuthTimeout

IdleExpired(s) == srv[s] = "AUTHED" /\ age[s] > IdleTimeout

TimeoutAuth ==
    /\ pc = "timeout"
    /\ AuthExpired(cur)
    /\ BanPeer(cur, BanShort)
    /\ Drop(cur)
    /\ NextSlot("top")
    /\ UNCHANGED <<cfg, sigVars>>

TimeoutIdle ==
    /\ pc = "timeout"
    /\ IdleExpired(cur)
    /\ Drop(cur)
    /\ NextSlot("top")
    /\ UNCHANGED <<cfg, banLeft, sigVars>>

NoTimeout ==
    /\ pc = "timeout"
    /\ ~AuthExpired(cur) /\ ~IdleExpired(cur)
    /\ NextSlot("top")
    /\ UNCHANGED <<netVars, srv, age, mainVars, cfg, banLeft, sigVars, login>>

-------------------------------------------------------------------------------
(* The environment: the clock, and signals whose handlers set a flag.      *)

Tick ==
    /\ age' = [s \in Slots |-> IF srv[s] # "EMPTY" /\ age[s] < AgeCap
                               THEN age[s] + 1 ELSE age[s]]
    /\ banLeft' = [ip \in Ips |-> IF banLeft[ip] > 0 THEN banLeft[ip] - 1 ELSE banLeft[ip]]
    /\ UNCHANGED <<pc, cur, netVars, srv, mainVars, cfg, sigVars, login>>

(* An administrator writes the file and sends SIGHUP.                      *)
ReloadFunc(f) ==
    /\ pc # "stopped"
    /\ file' = f
    /\ reload' = TRUE
    /\ UNCHANGED <<pc, cur, netVars, srv, age, mainVars, cfg, banLeft, running, login>>

ExitFunc ==
    /\ pc # "stopped"
    /\ running' = FALSE
    /\ UNCHANGED <<pc, cur, netVars, srv, age, mainVars, cfg, banLeft, file, reload, login>>

-------------------------------------------------------------------------------

(* The loop is entered after Init and a first ReadConfig that succeeded.   *)
Init ==
    /\ pc = "top" /\ cur = 0
    /\ net = [s \in Slots |-> "OFFLINE"]
    /\ peer = [s \in Slots |-> NoAddr]
    /\ inbox = [s \in Slots |-> <<>>]
    /\ srv = [s \in Slots |-> "EMPTY"]
    /\ age = [s \in Slots |-> 0]
    /\ clientNetID = [i \in Ids |-> NoSlot]
    /\ connected = [i \in Ids |-> FALSE]
    /\ reported = [i \in Ids |-> FALSE]
    /\ file \in Configs /\ cfg = file
    /\ alarmID = NoAlarm
    /\ banLeft = [ip \in Ips |-> NotBanned]
    /\ reload = FALSE /\ running = TRUE
    /\ login = [s \in Slots |-> Logout]

MainLoop ==
    \/ Close \/ ReadConfigFails \/ ReadConfig \/ ReloadDone \/ NoReload
    \/ BanUpdate
    \/ NoNewClient
    \/ \E a \in Addrs, s \in Slots : NewClient(a, s)
    \/ ReadNothing
    \/ \E batch \in Batches : ReadLines(batch)
    \/ DropBroken
    \/ \E s \in Slots :
          \/ RejectMalformed(s)
          \/ RejectCredentials(s)
          \/ \E i \in Ids : RejectSecondConnection(s, i) \/ Authenticate(s, i)
          \/ LogoutLine(s)
          \/ HandleMessage(s)
    \/ RecvDone
    \/ TimeoutAuth \/ TimeoutIdle \/ NoTimeout

Environment == Tick \/ ExitFunc \/ \E f \in Configs \cup {Broken} : ReloadFunc(f)

Next == MainLoop \/ Environment

Spec == Init /\ [][Next]_vars

(* The loop never blocks for good (the wait for input has a timeout of     *)
(* 10 ms) and the clock advances; peers and administrators promise nothing. *)
FairSpec == Spec /\ WF_vars(MainLoop) /\ WF_vars(Tick)

-------------------------------------------------------------------------------
(* Safety.                                                                 *)

(* CNetwork has a connection in a slot exactly while CServer has a state   *)
(* for it.  The assertion "Got message from empty slot." and the reuse of  *)
(* slots by AcceptClient rest on it.                                       *)
SlotsAgree ==
    pc # "stopped" => \A s \in Slots : net[s] = "OFFLINE" <=> srv[s] = "EMPTY"

(* An authenticated slot is the m_ClientNetID of exactly one client, and   *)
(* no other slot is anyone's: ClientNet never returns null to              *)
(* HandleMessage, and OnDelClient always finds the client to unbind.       *)
SessionsBound ==
    /\ \A s \in Slots : srv[s] = "AUTHED" <=> \E i \in Ids : clientNetID[i] = s
    /\ \A i, j \in Ids : clientNetID[i] = clientNetID[j] /\ i # j => clientNetID[i] = NoSlot

(* The fields other threads read agree with the binding: m_Connected is    *)
(* set exactly while the client has a slot, and statistics never outlive   *)
(* the session that reported them.                                         *)
ClientsAgree ==
    \A i \in Ids : /\ connected[i] <=> clientNetID[i] # NoSlot
                   /\ reported[i] => connected[i]

(* Whoever is bound to a client presented the credentials that client has  *)
(* in the configuration now in force, however often it was reloaded.       *)
CurrentCredentials ==
    \A i \in Ids : clientNetID[i] # NoSlot =>
        Active(i) /\ login[clientNetID[i]] = cfg[i + 1]

(* The comparison in AcceptClient keeps the addresses of the connections   *)
(* distinct, also of those that are broken and not reaped yet.             *)
OneConnectionPerAddress ==
    \A s, t \in Slots : s # t /\ net[s] # "OFFLINE" => peer[s] # peer[t]

(* OnDelClient hands the offline alarm the index of a client that goes     *)
(* offline in this very step, never the -1 of a slot nobody is bound to.   *)
AlarmNamesLeaver ==
    [][LET leaving == {i \in Ids : connected[i] /\ ~connected'[i]}
       IN  alarmID' # alarmID \/ leaving # {} => alarmID' \in leaving]_vars

(* The three tables together implement one holder per configured client.   *)
HolderOf(i) ==
    LET s == clientNetID[i]
    IN  IF s = NoSlot \/ net[s] = "OFFLINE" THEN NoAddr
        ELSE [peer |-> peer[s], cred |-> login[s]]

P == INSTANCE Presence WITH
        Entries <- Ids, Tables <- Configs, Peers <- Addrs, Nobody <- NoAddr,
        table <- cfg, holder <- [i \in Ids |-> HolderOf(i)]

ImplementsPresence == P!Spec

(* The service file reloads the server with SIGHUP: once no reload is      *)
(* pending, the loop runs on the contents the file had at the last signal. *)
ReloadTakesEffect == pc = "top" /\ ~reload => cfg = file

-------------------------------------------------------------------------------
(* Liveness, under FairSpec.                                               *)

(* A malformed line ends a pass before its timeouts.  The two properties   *)
(* on timeouts speak of behaviours in which passes are completed for ever, *)
(* or the server stops.                                                    *)
PassesComplete == []<>(pc \in {"timeout", "stopped"})

(* Nobody keeps a slot without authenticating.                             *)
UnauthenticatedLeave ==
    PassesComplete =>
        \A s \in Slots : srv[s] = "CONNECTED" ~> srv[s] # "CONNECTED" \/ pc = "stopped"

(* A session is always renewed by a line or ended: a peer that vanished    *)
(* without closing its connection does not block its user for ever.        *)
IdleLeave ==
    PassesComplete =>
        \A s \in Slots : srv[s] = "AUTHED" ~> \/ srv[s] # "AUTHED" \/ age[s] = 0
                                              \/ pc = "stopped"

(* A connection that failed is reaped, whichever of its sends or reads it  *)
(* was that failed, and even if every pass is cut short.                   *)
BrokenReaped ==
    \A s \in Slots : net[s] = "ERROR" ~> net[s] # "ERROR" \/ pc = "stopped"

(* Every ban ends, although connections of a banned IP that were open when *)
(* it was banned can still renew it.                                       *)
BansEnd ==
    \A ip \in Ips : banLeft[ip] # NotBanned ~> banLeft[ip] = NotBanned \/ pc = "stopped"

(* SIGINT and SIGTERM stop the server, whatever the peers send meanwhile.  *)
ExitHonoured == ~running ~> pc = "stopped"

===============================================================================
