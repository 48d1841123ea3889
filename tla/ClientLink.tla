------------------------------- MODULE ClientLink -------------------------------
(***************************************************************************)
(* One monitored machine and the server.  Its client, in Go or in Python,  *)
(* dials, logs in, reads which monitors it is to run, starts a worker for  *)
(* each, and then sends a report every second until that fails; it waits   *)
(* and starts again.  The greeting, the result of the login, the address   *)
(* family and the monitors are separate messages of the server, but TCP    *)
(* keeps no boundaries: a read returns any number of those that are there. *)
(*                                                                         *)
(* Abstractions: a message arrives whole or not at all (what a client does *)
(* not read in one piece it discards); the client's user stays configured; *)
(* the monitors of a list have different names; a check, of any result, is *)
(* one step, though its entry may be replaced while it lasts; the limits   *)
(* of 5 s and 15 s are not counted, see Silent.                            *)
(***************************************************************************)
EXTENDS PacketHistory

CONSTANTS
    Programs,      \* which clients there are: of "go" and "python"
    Conns,         \* bound: connections of this machine the server still has
    Names,         \* names of monitors
    Targets,       \* what they check: host, type and interval
    Configs,       \* lists of monitors the server may be configured with
    Workers,       \* bound: workers of replaced entries that are followed
    MaxReports,    \* bound: reports on the way
    None           \* no connection, no entry

ASSUME LinkAssumption ==
    /\ Programs \subseteq {"go", "python"} /\ Programs # {}
    /\ None \notin Conns /\ None \notin Targets
    /\ None \notin [name : Names, done : Histories]
    /\ Configs \subseteq Seq([name : Names, target : Targets]) /\ Configs # {}
    /\ \A list \in Configs : \A i, j \in DOMAIN list : list[i].name = list[j].name => i = j
    /\ MaxReports \in Nat \ {0}

VARIABLES
    program,       \* which client the machine runs
    pc,            \* its main thread: the read it is in, or what it does
    sock,          \* its socket
    servers,       \* monitorServer: the target of each listed monitor
    online,        \* the history of the worker of each listed monitor
    rate,          \* the rate in the entry of each
    stale,         \* workers of entries that were replaced or removed
    slot,          \* the server's end of each connection
    intact,        \* packets of this connection still arrive
    down,          \* messages to the client it has not read
    up,            \* lines to the server it has not read
    config,        \* the monitors configured now
    banned,        \* the server refuses the machine's address
    calm           \* nothing fails or changes from now on

monitors == <<servers, online, rate, stale>>
client == <<pc, sock, monitors>>
link == <<intact, down, up>>
server == <<slot, config, banned>>
vars == <<program, client, link, server, calm>>

Messages == [kind : {"required", "success", "refused", "family"}]
            \cup [kind : {"monitor"}, name : Names, target : Targets]

Required == [kind |-> "required"]     \* "Authentication required:"
Success == [kind |-> "success"]       \* "Authentication successful. Access granted."
Refused == [kind |-> "refused"]       \* the reason of a drop
Family == [kind |-> "family"]         \* "You are connecting via: IPv4", or IPv6
Monitor(m) == [kind |-> "monitor", name |-> m.name, target |-> m.target]

(* Such a worker goes on with what it has, in Python's case into whatever  *)
(* entry has its name now.                                                 *)
OldWorkers == [name : Names, done : Histories]

Reads == {"greeting", "result", "family"}

TypeOK ==
    /\ program \in Programs
    /\ pc \in {"off", "dial", "stream", "pause"} \cup Reads
    /\ sock \in Conns \cup {None}
    /\ (sock # None) <=> (pc \in Reads \cup {"stream"})
    /\ servers \in [Names -> Targets \cup {None}]
    /\ online \in [Names -> Histories]
    /\ rate \in [Names -> Rates]
    /\ stale \in [Workers -> OldWorkers \cup {None}]
    /\ slot \in [Conns -> {"free", "waiting", "connected", "authed", "dropped"}]
    /\ intact \in [Conns -> BOOLEAN]
    /\ down \in [Conns -> Seq(Messages)]
    /\ up \in [Conns -> Seq({"login", "update", "fin"})]
    /\ config \in Configs /\ banned \in BOOLEAN /\ calm \in BOOLEAN

-------------------------------------------------------------------------------
(* The server's end of a connection.                                       *)

(* What is sent on a connection that is cut, or to a client that has       *)
(* closed it, never arrives.                                               *)
ToServer(c, line) ==
    up' = IF intact[c] THEN [up EXCEPT ![c] = Append(@, line)] ELSE up

ToClient(c, messages) ==
    down' = IF intact[c] /\ sock = c THEN [down EXCEPT ![c] = @ \o messages] ELSE down

Open(c) == slot[c] \in {"connected", "authed"}

Online == \E c \in Conns : slot[c] = "authed"

(* A connection is forgotten when both ends have closed it.                *)
Dropped(c) == IF sock = c THEN "dropped" ELSE "free"

Drop(c, messages) ==
    /\ slot' = [slot EXCEPT ![c] = Dropped(c)]
    /\ ToClient(c, messages)
    /\ up' = [up EXCEPT ![c] = <<>>]

Accept(c) ==
    /\ slot[c] = "waiting"
    /\ IF banned
       THEN Drop(c, <<Refused>>)
       ELSE /\ slot' = [slot EXCEPT ![c] = "connected"]
            /\ ToClient(c, <<Required>>)
            /\ UNCHANGED up
    /\ UNCHANGED <<program, client, intact, config, banned, calm>>

(* OnNewClient sends the list of monitors behind the address family.       *)
Welcome ==
    <<Success, Family>> \o [i \in DOMAIN config |-> Monitor(config[i])]

Authenticate(c) ==
    /\ slot[c] = "connected" /\ up[c] # <<>> /\ Head(up[c]) = "login"
    /\ IF Online
       THEN Drop(c, <<Refused>>)
       ELSE /\ slot' = [slot EXCEPT ![c] = "authed"]
            /\ ToClient(c, Welcome)
            /\ up' = [up EXCEPT ![c] = Tail(@)]
    /\ UNCHANGED <<program, client, intact, config, banned, calm>>

HandleMessage(c) ==
    /\ slot[c] = "authed" /\ up[c] # <<>> /\ Head(up[c]) = "update"
    /\ up' = [up EXCEPT ![c] = Tail(@)]
    /\ UNCHANGED <<program, client, intact, down, slot, config, banned, calm>>

HungUp(c) ==
    /\ Open(c) /\ up[c] # <<>> /\ Head(up[c]) = "fin"
    /\ Drop(c, <<>>)
    /\ UNCHANGED <<program, client, intact, config, banned, calm>>

(* Nothing will come: the client is gone, cut off, or waits for more.      *)
Silent(c) ==
    \/ sock # c \/ ~intact[c]
    \/ pc \in Reads /\ slot[c] = "authed" /\ down[c] = <<>>

(* A client answers within the 5 s and reports within the 15 s the server  *)
(* allows unless the machine is in trouble.                                *)
Quiet(c) == up[c] = <<>> /\ (Silent(c) \/ ~calm)

AuthTimeout(c) ==
    /\ slot[c] = "connected" /\ Quiet(c)
    /\ Drop(c, <<Refused>>)
    /\ banned' = TRUE
    /\ UNCHANGED <<program, client, intact, config, calm>>

(* Faulty variant: there is no limit for a client that has logged in.      *)
NoTimeout(c) == FALSE

Timeout(c) ==
    /\ slot[c] = "authed" /\ Quiet(c)
    /\ Drop(c, <<Refused>>)
    /\ UNCHANGED <<program, client, intact, config, banned, calm>>

(* Faulty variant: a ban is for ever.                                      *)
BanStays == FALSE

BanEnds ==
    /\ banned
    /\ banned' = FALSE
    /\ UNCHANGED <<program, client, link, slot, config, calm>>

-------------------------------------------------------------------------------
(* The client's main thread.                                               *)

Dial ==
    \E c \in Conns :
        /\ pc = "dial" /\ slot[c] = "free"
        /\ pc' = "greeting" /\ sock' = c
        /\ slot' = [slot EXCEPT ![c] = "waiting"]
        /\ intact' = [intact EXCEPT ![c] = TRUE]
        /\ down' = [down EXCEPT ![c] = <<>>]
        /\ UNCHANGED <<program, monitors, up, config, banned, calm>>

(* The entries of the monitors in a list.                                  *)
Listed(messages) ==
    [n \in Names |->
        LET mine == {i \in DOMAIN messages :
                        messages[i].kind = "monitor" /\ messages[i].name = n}
        IN  IF mine = {} THEN None
            ELSE messages[CHOOSE i \in mine : TRUE].target]

NothingListed == [n \in Names |-> None]

(* The workers of the present entries go on without them.                  *)
Orphans == {[name |-> n, done |-> online[n]] : n \in {m \in Names : servers[m] # None}}

(* Each of them may be followed, in the place of one followed before.      *)
Leave ==
    \E left \in [Workers -> Orphans \cup {None}] :
        /\ \A v, w \in Workers : v # w /\ left[v] # None => left[v] # left[w]
        /\ stale' = [w \in Workers |-> IF left[w] # None THEN left[w] ELSE stale[w]]

(* Every entry that is made gets a worker of its own.                      *)
Relist(entries) ==
    /\ servers' = entries
    /\ online' = [n \in Names |-> NoHistory]
    /\ rate' = [n \in Names |-> NoRate]
    /\ Leave

(* Faulty variant: the socket is not closed.                               *)
HangupUnclosed ==
    /\ pc' = "pause"
    /\ UNCHANGED <<program, sock, monitors, link, server, calm>>

(* connect returns, or an exception is caught.  Python forgets its         *)
(* monitors there, Go when it is given new ones.                           *)
Hangup ==
    /\ pc' = "pause" /\ sock' = None
    /\ slot' = [slot EXCEPT ![sock] = IF @ = "dropped" THEN "free" ELSE @]
    /\ IF slot[sock] = "dropped" THEN UNCHANGED up ELSE ToServer(sock, "fin")
    /\ down' = [down EXCEPT ![sock] = <<>>]
    /\ IF program = "python" THEN Relist(NothingListed)
       ELSE UNCHANGED <<monitors>>
    /\ UNCHANGED <<program, intact, config, banned, calm>>

DialFails ==
    /\ pc = "dial" /\ ~calm
    /\ pc' = "pause"
    /\ IF program = "python" THEN Relist(NothingListed)
       ELSE UNCHANGED <<monitors>>
    /\ UNCHANGED <<program, sock, link, server, calm>>

Pause ==
    /\ pc = "pause"
    /\ pc' = "dial"
    /\ UNCHANGED <<program, sock, monitors, link, server, calm>>

(* A read returns some of the messages that have arrived.                  *)
Chunks == {SubSeq(down[sock], 1, k) : k \in 1 .. Len(down[sock])}

Contains(chunk, message) == \E i \in DOMAIN chunk : chunk[i] = message

Consume(chunk) == down' = [down EXCEPT ![sock] = SubSeq(@, Len(chunk) + 1, Len(@))]

(* Nothing more comes: the server has closed, or the kernel gave up.       *)
ReadFails ==
    /\ pc \in Reads
    /\ slot[sock] = "dropped" \/ ~intact[sock]
    /\ Hangup

ReadGreeting ==
    /\ pc = "greeting"
    /\ \E chunk \in Chunks :
          IF Contains(chunk, Required)
          THEN /\ pc' = "result"
               /\ Consume(chunk)
               /\ IF slot[sock] = "dropped" THEN UNCHANGED up ELSE ToServer(sock, "login")
               /\ UNCHANGED <<program, sock, monitors, slot, intact, config, banned, calm>>
          ELSE Hangup

(* Go leaves the address family to the next read, even if it was in this   *)
(* one; Python then takes the connection as set up, without monitors.      *)
AfterLogin(chunk) ==
    IF program = "python" /\ Contains(chunk, Family) THEN "stream" ELSE "family"

ReadResult ==
    /\ pc = "result"
    /\ \E chunk \in Chunks :
          IF Contains(chunk, Success)
          THEN /\ pc' = AfterLogin(chunk)
               /\ Consume(chunk)
               /\ UNCHANGED <<program, sock, monitors, up, slot, intact, config, banned, calm>>
          ELSE Hangup

(* Faulty variant: the entries of the connection before are kept.          *)
MonitorsAdded(chunk) ==
    [n \in Names |-> IF Listed(chunk)[n] = None THEN servers[n] ELSE Listed(chunk)[n]]

MonitorsOf(chunk) == Listed(chunk)

ReadFamily ==
    /\ pc = "family"
    /\ \E chunk \in Chunks :
          IF Contains(chunk, Family)
          THEN /\ pc' = "stream"
               /\ Relist(MonitorsOf(chunk))
               /\ Consume(chunk)
               /\ UNCHANGED <<program, sock, up, slot, intact, config, banned, calm>>
          ELSE Hangup

SendStatus ==
    /\ pc = "stream"
    /\ Open(sock) /\ Len(up[sock]) < MaxReports
    /\ ToServer(sock, "update")
    /\ UNCHANGED <<program, client, intact, down, server, calm>>

SendFails ==
    /\ pc = "stream"
    /\ slot[sock] = "dropped" \/ ~intact[sock]
    /\ Hangup

-------------------------------------------------------------------------------
(* The workers.                                                            *)

(* The worker of a listed monitor checks its target once more.             *)
Check(n) ==
    /\ servers[n] # None
    /\ \E success \in BOOLEAN :
          LET turn == Record(online[n], success)
          IN  /\ online' = [online EXCEPT ![n] = turn]
              /\ rate' = [rate EXCEPT ![n] = Rated(turn, @)]
    /\ UNCHANGED <<program, pc, sock, servers, stale, link, server, calm>>

(* A worker only looks whether there is an entry of its name.              *)
Missing(w) == servers[stale[w].name] = None

(* One whose entry was replaced checks its old target.  Python looks the   *)
(* entry up to write the rate, Go holds its own.                           *)
OldCheck(w) ==
    /\ stale[w] # None /\ ~Missing(w)
    /\ \E success \in BOOLEAN :
          LET turn == Record(stale[w].done, success)
          IN  /\ stale' = [stale EXCEPT ![w].done = turn]
              /\ rate' = IF program = "python"
                         THEN [rate EXCEPT ![stale[w].name] = Rated(turn, @)]
                         ELSE rate
    /\ UNCHANGED <<program, pc, sock, servers, online, link, server, calm>>

WorkerStops(w) ==
    /\ stale[w] # None /\ Missing(w)
    /\ stale' = [stale EXCEPT ![w] = None]
    /\ UNCHANGED <<program, pc, sock, servers, online, rate, link, server, calm>>

-------------------------------------------------------------------------------
(* What happens to the machine, the network and the server.                *)

AllDropped ==
    /\ slot' = [c \in Conns |-> IF slot[c] = "free" THEN "free" ELSE Dropped(c)]
    /\ up' = [c \in Conns |-> <<>>]

(* The clients of these connections are told that they are dropped.        *)
Tell(conns) ==
    down' = IF sock \in conns /\ intact[sock] THEN [down EXCEPT ![sock] = Append(@, Refused)]
            ELSE down

(* ReadConfig drops who is logged in, and then all bans are lifted.        *)
Reload ==
    /\ ~calm
    /\ config' \in Configs
    /\ slot' = [c \in Conns |-> IF slot[c] = "authed" THEN Dropped(c) ELSE slot[c]]
    /\ up' = [c \in Conns |-> IF slot[c] = "authed" THEN <<>> ELSE up[c]]
    /\ Tell({c \in Conns : slot[c] = "authed"})
    /\ banned' = FALSE
    /\ UNCHANGED <<program, client, intact, calm>>

(* The server exits, or is killed and can say nothing.                     *)
ServerRestarts ==
    /\ ~calm
    /\ config' \in Configs
    /\ AllDropped
    /\ Tell({c \in Conns : Open(c)}) \/ UNCHANGED down
    /\ banned' = FALSE
    /\ UNCHANGED <<program, client, intact, calm>>

Cut(c) ==
    /\ ~calm /\ intact[c] /\ slot[c] # "free"
    /\ intact' = [intact EXCEPT ![c] = FALSE]
    /\ UNCHANGED <<program, client, down, up, server, calm>>

(* The machine goes down, with or without closing its connection.          *)
MachineDown ==
    /\ ~calm /\ pc # "off"
    /\ pc' = "off" /\ sock' = None
    /\ servers' = NothingListed /\ stale' = [w \in Workers |-> None]
    /\ online' = [n \in Names |-> NoHistory] /\ rate' = [n \in Names |-> NoRate]
    /\ slot' = [c \in Conns |-> IF c = sock /\ slot[c] = "dropped" THEN "free" ELSE slot[c]]
    /\ IF sock = None THEN UNCHANGED link
       ELSE /\ down' = [down EXCEPT ![sock] = <<>>]
            /\ \/ /\ IF slot[sock] = "dropped" THEN UNCHANGED up ELSE ToServer(sock, "fin")
                  /\ UNCHANGED intact
               \/ /\ intact' = [intact EXCEPT ![sock] = FALSE]
                  /\ UNCHANGED up
    /\ UNCHANGED <<program, config, banned, calm>>

MachineUp ==
    /\ ~calm /\ pc = "off"
    /\ pc' = "dial"
    /\ UNCHANGED <<program, sock, monitors, link, server, calm>>

Calm ==
    /\ ~calm
    /\ calm' = TRUE
    /\ UNCHANGED <<program, client, link, server>>

-------------------------------------------------------------------------------

Init ==
    /\ program \in Programs
    /\ pc = "off" /\ sock = None
    /\ servers = NothingListed /\ stale = [w \in Workers |-> None]
    /\ online = [n \in Names |-> NoHistory] /\ rate = [n \in Names |-> NoRate]
    /\ slot = [c \in Conns |-> "free"]
    /\ intact = [c \in Conns |-> FALSE]
    /\ down = [c \in Conns |-> <<>>]
    /\ up = [c \in Conns |-> <<>>]
    /\ config \in Configs
    /\ banned = FALSE /\ calm = FALSE

Connect ==
    Dial \/ DialFails \/ Pause \/ ReadGreeting \/ ReadResult \/ ReadFamily
    \/ ReadFails \/ SendStatus \/ SendFails

Serve(c) ==
    Accept(c) \/ Authenticate(c) \/ HandleMessage(c) \/ HungUp(c)
    \/ AuthTimeout(c) \/ Timeout(c)

Environment ==
    Reload \/ ServerRestarts \/ (\E c \in Conns : Cut(c)) \/ MachineDown \/ MachineUp \/ Calm

Next ==
    \/ Connect
    \/ \E c \in Conns : Serve(c)
    \/ BanEnds
    \/ \E n \in Names : Check(n)
    \/ \E w \in Workers : OldCheck(w) \/ WorkerStops(w)
    \/ Environment

Spec == Init /\ [][Next]_vars

(* Threads are scheduled, reads and sends on a dead connection fail at     *)
(* last, the server looks at every connection and its bans end.  No read   *)
(* is assumed to return more or less than another.                         *)
Fairness ==
    /\ WF_vars(Connect)
    /\ \A c \in Conns : WF_vars(Serve(c))
    /\ WF_vars(BanEnds)

-------------------------------------------------------------------------------

(* While a session lasts, every monitor the client reports on is one the   *)
(* server has configured for it, with the target it has now: no entry of   *)
(* an earlier session is left, whatever was reloaded, replaced or lost in  *)
(* between.  Some may be missing, and workers of entries that were         *)
(* replaced may still be checking what these said.                         *)
MonitorsOfSession ==
    pc = "stream" /\ slot[sock] = "authed" =>
        \A n \in Names : servers[n] # None =>
            \E i \in DOMAIN config : config[i] = [name |-> n, target |-> servers[n]]

(* Who writes the rate of a monitor: in Go its worker, in Python also those*)
(* of earlier entries of its name, which check what these said.            *)
Writers(n) ==
    {online[n]} \cup
    {stale[w].done : w \in {v \in Workers :
                               program = "python" /\ stale[v] # None /\ stale[v].name = n}}

(* A rate in an entry is the share of losses among the last checks of one  *)
(* worker that writes to it, and of no other, however many of them write   *)
(* in turn and entries of the name come and go: in Go those of its target, *)
(* in Python perhaps those of a target it had before.                      *)
RatesOfHistory ==
    \A n \in Names : servers[n] # None /\ rate[n] # NoRate =>
        \E h \in Writers(n) :
            Len(h.history) > Enough /\ CountsItsLosses(h) /\ rate[n] = Share(h)

(* The client never waits for ever in the login, although Go sets no       *)
(* deadline and may have read what it waits for with the message before.   *)
ReadsEnd == pc \in Reads ~> pc \notin Reads

(* Once nothing fails any more a machine that is up gets its session back, *)
(* again and again if it loses it: neither the half of a dead connection   *)
(* the server still holds nor a ban keeps it out for ever.                 *)
SessionRegained == calm /\ pc # "off" ~> sock # None /\ slot[sock] = "authed"
===============================================================================
