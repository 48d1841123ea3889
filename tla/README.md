# ServerStatus: a verification project in TLA+

ServerStatus collects the load of many machines on one web page. A server in
C++ (`src/serversrc-1.1.5/server`) listens on a TCP port; a client on every
machine (`src/clientsrc/main.go`, `src/serversrc-1.1.5/clients/*.py`) logs in
with a user name and password and sends one line of statistics per second; the
server writes `stats.json` once a second, and the web page polls that file.
This directory models the parts of that system whose correctness depends on
the order of events, checks them with TLC and proves the core with TLAPS.

Paths that begin with `server/` are short for `src/serversrc-1.1.5/server/src/`,
those that begin with `clients/` or `plugin/` for `src/serversrc-1.1.5/`.

## 1. Inventory

| Component | State it keeps | Operations | Talks to |
|---|---|---|---|
| Connection slots, `CNetwork`, `CNetworkClient` | per slot: state, peer address, receive buffer | accept, refuse, read, extract a line, send, drop, close | calls `NewClientCallback`/`DelClientCallback` of `CServer`, asks `CNetBan` |
| Authentication, `CServer` | per slot: EMPTY/CONNECTED/AUTHED, time connected, time of the last line | `Update` (one pass), the two callbacks | calls `OnNewClient`, `OnDelClient`, `HandleMessage` of `CMain`, `BanAddr` |
| Client table, `CMain` | per configured client: credentials, slot, connected, statistics, time of the last alarm, month baseline | `OnNewClient`, `OnDelClient`, `HandleMessage`, `ReadConfig`, `Run` | drops slots on a reload; its table is read by two kinds of threads without a lock |
| Ban list, `CNetBan` | a pool of nodes on a free list, an ordered used list and hash chains | ban, renew, remove, expire, reset, look up | called by `CServer` and `Run` |
| Watchdog rules | rules with an interval, time stamp per client | `WatchdogMessage` on every report | blocks the main loop while it sends |
| Offline alarm | an argument structure shared by all alarm threads | one thread per disconnect, 25 s of sleep, then the rules | reads and writes the client table |
| Status publication, `JSONUpdateThread` | month baseline, reload flag, `stats.json`, `stats.json~` | publish once a second, rename on exit | reads the client table; its file is read again by `ReadConfig` |
| Go client | connection, listed monitors, a worker with a history for each | `connect`, `handleAuth`, `handleMonitorConfig`, `monitorWorker`, `sendStatusLoop` | the server, and the hosts it checks |
| Python clients | the same; they forget the monitors at every lost connection | main loop and threads | the same |
| Telegram bot | servers reported off, per server a counter of polls up and one of polls down | poll `stats.json`, `send2tg` | the published file |
| Web page, console view | none that lasts | render | the published file |
| Scripts, vendored libraries | - | install, parse, compile rules | not modelled |

What is hard in it:

* The three tables of the server (slots, authentication, clients) describe the
  same connection three times. They are kept together only by the order of the
  calls along every path: refusal, bad line, wrong password, second login,
  logout, two timeouts, failed send, reload.
* One pass of the loop can be cut short (`server/server.cpp:108`), a send can
  fail anywhere and only marks the connection, signals arrive between any two
  statements, and time passes inside a pass (an alarm blocks it for seconds).
* The ban list is three intrusive lists over one array.
* Alarm threads share one argument and race with each other and with the main
  loop over the time of the last alarm; they wake up after reloads and
  reconnects.
* TCP keeps no boundaries between the messages of the login; the server greets,
  answers, names the address family and lists the monitors in separate sends,
  and the two kinds of clients expect them in different reads.
* A client notices late, or not at all, that its connection is gone, and the
  server holds the other half until its own timeout; meanwhile the client is
  refused as already logged in, or banned.
* The record of the month's traffic lives in the published file. It must
  survive restarts, reloads and crashes, and is written while it is rebuilt.

What makes each component correct:

* slots, authentication, clients: the tables agree; a client has at most one
  session; that session presented the credentials now in force; nobody keeps a
  slot or a user name blocked for ever; a broken connection is reaped; signals
  are honoured;
* ban list: a table from addresses to expiry of bounded size, from which an
  update removes exactly the bans that are over;
* line framing: the lines do not depend on how TCP cuts the bytes;
* watchdog and alarm: no two alarms closer than the interval, an alarm for a
  machine that is down, none for one that came back;
* publication: the month's traffic is never negative and its baseline is not
  lost;
* clients: the login ends however its messages are cut or joined, what a session
  reports on are monitors it was given, a client that lost its session gets it
  back, a rate is that of one worker's last checks;
* bot: notices about a server alternate, each after its own count of polls; a
  machine that stays down is reported.

`PROJECT.json` lists the hazards line by line.

## 2. Modules

| Module | What it is | Source |
|---|---|---|
| `Presence` | abstract: each entry of the clients table is held by at most one peer | - |
| `Sessions` | the main loop over slots, authentication, clients, bans (as a timer per IP), reload and exit | `server/network.cpp`, `server/network_client.cpp`, `server/server.cpp`, `server/main.cpp` |
| `SessionsProofs` | theorems about `Sessions` and their proofs | - |
| `MCSessions` | instances of `Sessions` for TLC | - |
| `BanList` | abstract: a table from what is banned to when it ends | - |
| `BanPool` | the linked lists of `CBanPool` and the operations of `CNetBan` | `server/netban.cpp`, `server/netban.h` |
| `BanPoolProofs` | theorems about `BanPool` and their proofs | - |
| `OfflineAlarm` | the watchdog rules in the main loop, the alarm threads, their shared argument and the time of the last alarm | `server/main.cpp` |
| `OfflineAlarmProofs` | theorems about `OfflineAlarm` and their proofs | - |
| `MonthTraffic` | the baseline of the month, the thread that publishes it, the two files it survives in, and `ReadConfig` | `server/main.cpp` |
| `LineFraming` | the buffer of a connection: reads, extraction of lines, the line ending | `server/network_client.cpp` |
| `LineFramingProofs` | theorems about `LineFraming` and their proofs | - |
| `MonthTrafficProofs` | theorems about `MonthTraffic` and their proofs | - |
| `PacketHistory` | the queue of results of a monitor and the counter of losses beside it | `src/clientsrc/main.go`, `clients/client-linux.py` |
| `ClientLink` | one machine with its Go or Python client, its connections, and the server's end of them | `src/clientsrc/main.go`, `clients/client-linux.py`, `server/server.cpp`, `server/network.cpp` |
| `ClientLinkProofs` | theorems about the two and their proofs | - |
| `Suspicion` | abstract: a watcher that says of each server on or off, after its patience | - |
| `StatusBot` | the list and the counters of the Telegram bot | `plugin/bot-telegram.py` |
| `StatusBotProofs` | theorems about `StatusBot` and their proofs | - |
| `EndToEnd` | `ClientLink`, the published status and `StatusBot` together | `server/main.cpp`, `plugin/bot-telegram.py` |
| `EndToEndProofs` | theorems about `EndToEnd`, from those about its parts | - |
| `MCBanPool`, `MCOfflineAlarm`, `MCMonthTraffic`, `MCLineFraming`, `MCClientLink`, `MCEndToEnd` | instances for TLC | - |

`Sessions` calls the other parts where the code does and keeps of each what
its own steps depend on: of the ban list a timer per IP, of the alarms the
client that is named (`AlarmNamesLeaver`), of the record nothing. `OfflineAlarm`
and `MonthTraffic` take from `Sessions` what it shows: that a disconnect names the
client that left, and that `m_Connected` is what the main loop last made of it.
`ClientLink` is the other side of `Sessions`: there the peers do anything and the
server is modelled step by step; here the client is, and the server is reduced to
what one client can tell of it.

### Sessions

A pass of the loop in `CMain::Run` is a sequence of steps, named by `pc`; `cur`
is the index of the loop over the slots inside a step.

| `pc` | code | actions |
|---|---|---|
| `top` | the two flags, `ReadConfig` | `Close`, `ReadConfigFails`, `ReadConfig`, `NoReload` |
| `clear` | `UnbanAll`, `gs_ReloadConfig = 0` | `ReloadDone` |
| `unban` | `CNetBan::Update` | `BanUpdate` |
| `accept` | one `accept` per pass, `AcceptClient` | `NewClient`, `NoNewClient` |
| `read` | `CNetworkClient::Update` per slot, drop of broken ones | `ReadLines`, `ReadNothing`, `DropBroken` |
| `recv` | the `while(m_Network.Recv(...))` loop of `CServer::Update` | `RejectMalformed`, `RejectCredentials`, `RejectSecondConnection`, `Authenticate`, `LogoutLine`, `HandleMessage`, `RecvDone` |
| `timeout` | the loop over the timeouts | `TimeoutAuth`, `TimeoutIdle`, `NoTimeout` |
| `stopped` | `Run` returned | none |

Between any two of these steps the clock ticks (`Tick`), an administrator
writes the configuration file and sends SIGHUP (`ReloadFunc`), or SIGINT or
SIGTERM arrives (`ExitFunc`). Peers act through what the steps read: any batch of
lines, a hang-up, a failed send. `Drop` is what `CNetwork::Drop` does with all
it calls: `DelClientCallback`, `OnDelClient` if the slot was authenticated, and
`Disconnect`.

A line is a member of a small set: credentials, the word `logout`, a report,
something else. A time stamp is represented by the time that has passed since
it was taken, saturating one tick above the longest limit that is compared with
it; limits of 5 s, 15 s, 30 s and 60 s are constants. `login` is a history
variable: what each session presented. Statistics are one bit: does
`m_Stats` hold a report.

### BanPool

One record holds what the members of `CBanPool` hold; nodes are indexes of
`m_aBans`, and the null pointer is -1. `Add`, `Remove`, `Update` and `EmptyPool`
(`Reset`) are functions from pools to pools composed of the same unlinking and
inserting the code does. `BansOf` maps a pool to the table of `BanList`. Only
`UnbanAll`, `BanAddr` and `Update` are called by the server; the other
operations are modelled because they are part of the same class.

### LineFraming

One connection. `Update` reads any bytes that fit (`NetTcpRecv`), finds the
buffer full, nothing to read, or the connection gone; `Recv` takes lines out
(`ExtractLine`) until there is none (`NoLine`), or the pass ends because another
client sent a malformed line (`PassEndsEarly`, `server/server.cpp:108`). The
reference `LinesOf` is defined on the whole stream and knows no buffer: a stop is
an end directly behind a byte that is none, and the n-th line is what stands in
front of the n-th stop. `Sessions` takes batches of lines for what a connection reads; `LinesOfStream` and
`NoLineHeldBack` are why it may.

### OfflineAlarm

A task is the position of one evaluation of the rules: of the main loop
(`WatchdogMessage`, after a report) or of an alarm thread. An alarm thread is
`created`, reads its argument (`Start`, `server/main.cpp:508`), sleeps, and looks
whether the client is connected (`Wake`); both kinds then go through the rules
with the same actions, because the code repeats the same text: a rule fails
(`RuleFails`), holds too soon after the last alarm (`RuleSilenced`), or passes
the comparison (`RuleFires`) and then sets the time of the last alarm and sends
(`SendAlarm`). The two are separate steps because nothing locks them; `stamp` is
the age of the clock reading in between. `OnDelClient` replaces the argument and
creates a thread; a reload drops the connected clients one by one
(`ReloadDrop`) and zeroes the table (`ReloadTable`), which also forgets the last
alarms. A rule is what it reads: the load, which only the main loop knows, or
the presence, which the server sets itself. History variables record the time
since the last drop of a client that is gone, the age of the last alarm, clients
whose alarms overlapped, and what became of an outage. `ReloadTable` either fills
the table with the same clients (`SameClients`), and a sleeping thread goes on to
look at the client it was created for, or gives the indexes to others
(`OtherClients`): then what the threads that are there look at has nothing to do
with the client that dropped, and the outages they would have looked at are
nobody's.

A thread sleeps and then tests `m_Connected` once (`server/main.cpp:510`), and so
does not see that its client came back and dropped again meanwhile. The field
`over` of a task records that the outage it was created for has ended, by the
client's return or by such a reload; what a thread reports then is about another
outage, and `DelayKept` is about all others.

### MonthTraffic

`thread` is the next step of `JSONUpdateThread`, which reads the table in several
places: is there an entry (`Pick`, `server/main.cpp:423`), is the client connected
(`Branch`, 426), is the baseline due (`Baseline`, 444), set it (`Reset`, 446), format
the entry of the branch that was taken (`Format` with `OnlineEntry` or
`OfflineEntry`), open, write and rename the file, sleep, leave. What was decided
stands, whatever reports, leaves or reloads in between. `main` is where the main loop is in `Run` and
`ReadConfig`: down, table zeroed, table filled, running (record restored),
closing. All of these interleave, because the two threads share the table
without a lock; the process may be killed between any two (`Crash`, which is also
what a broken configuration on SIGHUP and the `exit(1)` after a failed open come
to). A file is absent, truncated, or a status: with an entry of the client and the
baseline it gives, without one, or `Malformed`, which does not parse. A status is
malformed if no client at all is in it, because its end is written over the
opening bracket of its list (`server/main.cpp:474`), as in a configuration without
enabled servers and while any reload has the table zeroed; or if a failed write
cut it short, as nobody looks at the result of `io_write` (490). It is renamed and
published like any other, and a start or reload that reads it finds no baseline.
The other fields of an entry and the outgoing counter, which is set with the
incoming one, are left out.

### ClientLink and PacketHistory

`pc` is where the client's main thread is: off, dialling, in one of the three
reads of the login (`greeting`, `result`, `family`), reporting (`stream`), or in the
pause before it dials again. A connection has a server's end (`slot`), messages on
the way in both directions (`down`, `up`), and may be cut (`intact`), which neither
end notices by itself. The server sends its messages one by one or several at
once, and a read returns any part of what has arrived (`Chunks`), whole messages
each; what a read returned and its handler did not use is gone. That is where the
two programs differ: Go leaves the address family to a third read even if the
second had it (`AfterLogin`), Python then takes the connection as set up without
monitors. They also differ in when they forget monitors (`Hangup`, `Relist`).

`Check` is one turn of the worker of an entry, on the record of `PacketHistory`;
`rate` is the rate in the entry. A worker whose entry was replaced or removed goes
on: both programs only test whether there is an entry of its name (`Missing`). So
one stops if it looks while there is none (`WorkerStops`), and otherwise checks its
old target beside the new worker (`OldCheck`). In Go it keeps the rate in the entry
it was started with, which nobody reads any more; in Python it looks the entry up
by name (`clients/client-linux.py:403`) and replaces the rate of the new worker.
Every reconnection may leave one more such worker; `stale` follows as many of them
as `Workers` has, any of them at any time.

Around them the machine may go down with or without closing its connection, the
network may cut a connection, the server may reload or restart. `Calm` ends all
of that for ever at any point: the liveness properties say what happens from then
on.

### StatusBot and EndToEnd

A step of `StatusBot` is `send2tg` for one entry of the status, or the restart of
the bot. `EndToEnd` adds to the steps of `ClientLink` the publication of who is
online (`Publish`), the poll (`Poll`), and `BotRestarts`. `Suspicion` keeps per
server what was last said and how often that was contradicted since, which is the
sum of the bot's two counters.

## 3. Runs

| Run | What it checks | Bounds |
|---|---|---|
| `sessions` | type, agreement of the tables, credentials, addresses, refinement of `Presence` | 2 slots, 2 peers with an IP each, 2 users, 2 configurations and a broken one, 2 buffered lines, pool of one ban |
| `sessions_live` | who leaves, what ends, that an exit is honoured | 2 slots, 2 ports of an IP that can be banned and a loopback peer, one user |
| `lost_reload` | violated: see findings | 1 slot, 2 configurations |
| `ban_pool` | list structure, hash, order, refinement of `BanList` | 3 nodes, 4 addresses that can be banned on 2 chains, and the local host; bans of 1 s, 2 s and for ever; clock up to 2 |
| `framing` | lines against the whole stream, nothing held back, reasons of an overflow | buffer of 4 bytes, lines of up to 2, streams of up to 7 over CR, LF and two letters |
| `alarms` | type, the delay of a client that stayed away, spacing of alarms, that every outage a thread looks at is settled | 2 clients, 2 alarm threads and the main loop, a rule on presence with interval 1 and one on the load with interval 0, delay of one tick, reloads that keep or change the clients |
| `minimal_interval` | violated: see findings | as `alarms` |
| `outage_lost` | violated: see findings | as `alarms` |
| `traffic` | type, that no file still being written is fetched, that the last status is found again, a stable baseline, that the server stops | 1 client, counters up to 2 |
| `record_kept` | violated: see findings | 1 client, counters up to 1 |
| `client_link` | type, monitors of the session, whose checks a rate is of | either program, 2 connections, one monitor with either of 2 targets or none, one older worker, one report on the way, histories of 2, rates of 2 results |
| `end_to_end` | that no read of the login waits for ever, that an outage is reported, that a session is regained, refinement of `Suspicion` | either program, 2 connections, no monitors, patience of 2 polls |

The bounds are the smallest in which the interesting cases occur. Two slots and
two users give a second login of the same user, a slot that is reused by
somebody else, and a scan that stops at the first or goes on to the second slot.
Two configurations that share a user at different indexes give a reload after
which an index names somebody else. Batches of two lines put a report behind
credentials in one read. A pool of one ban gives the full ban list. Limits of
zero and one ticks are enough because each limit is only compared with one age:
what matters is whether the age is above it, and time may pass, or not, between
any two steps. In the ban pool, three nodes are the fewest with a first, a
middle and a last, and four addresses fill the pool with one left over. Two alarm threads and the main loop give two
threads of one client, one thread each of two clients, and a thread against the
main loop; two rules give a client whose time stamp one rule sets and the other
reads. In `MonthTraffic` clients do not interact, and two counter values above
zero give a counter that grows and one that starts anew; no other bound is
needed, kills and reloads are unlimited. The buffer of `LineFraming` keeps the
relation of the real sizes (1400 bytes, lines of at most 1398); seven bytes are two
lines of the longest kind with a CR LF between them, and more than the buffer.
Two connections give a client that dials while the server still holds the dead
half of its last connection; more would be more of the same. One monitor that
comes, goes and changes its target with a reload gives an entry that is new, one
that is replaced by another target, one that is listed again and one that is gone;
one older worker is enough for two that write the rate of one entry in turn; a
history of 2 is full after two checks, has a loss or an answer to give up, and is
where a rate begins (`Enough` is 1 in the run and 5 in the code). A patience of 2 has a first, a second and a last poll.

`CHECK_DEADLOCK` is off where the system may really stop: the server after an
exit signal or a broken configuration, the pool when its clock is at its bound.

**Fairness.** `FairSpec` assumes that the main loop keeps taking steps: it waits
for input with a timeout of 10 ms (`server/main.cpp:821`) and its calls do not
block for ever (sockets are non-blocking, a callback has a 6 s timeout); and that
the clock advances. Nothing is assumed of peers, signals or administrators. The
two properties on timeouts have one premise, `PassesComplete`: a malformed
line makes `CServer::Update` return before its timeouts, so a stream of such
lines from ever new connections keeps the timeouts from being looked at. The
premise says that passes are completed again and again; `BrokenReaped`,
`BansEnd` and `ExitHonoured` hold without it. In `OfflineAlarm` threads are
scheduled, the rules end (a callback has its timeout) and time passes, while
connects and disconnects are free; in `MonthTraffic` both threads are scheduled
and kills, signals and clients are free.
In `ClientLink` the client's main thread keeps taking steps as long as it can
(`WF(Connect)`): a read of a dead connection ends at last, because Go's dialler
sets TCP keep-alives and Python a timeout of 30 s, and sends on one fail when the
kernel gives up; the server looks at every connection and ends its bans, which
is what `sessions_live` shows of it. After `Calm` a client
that has something to answer does so within the server's limits (`Quiet`): 5 s
for the login and 15 s for a report every second, on a machine that is not in
trouble. Status and bot keep their rounds. Dialling, restarts, cuts and reloads
are not fair to anybody.

Exceptions the passing properties state, because the code has them:

* `DelayKept` leaves out a client that came back and dropped again while the
  thread of its first drop slept, and what a reload made other clients of;
* `SpacedUnlessOverlapped` leaves out clients whose alarms overlapped, and
  `OutageSettled` outages whose argument was replaced (both are findings) or whose
  client a reload replaced;
* `PublishedWhole` does not say that what is published is JSON: see `Malformed`;
* `RecordReadable` leaves out the first write after a clean exit, when
  `stats.json~` is the only copy and is truncated; it says which status is found,
  not that this status has a baseline, which `RecordKept` refutes;
* `BaselineStable` names three reasons, and each only counts until the baseline of
  the table is next published: it was due; the last start or reload did not find
  it (a client that was disabled meanwhile, one that had not reported since it
  connected, a file that does not parse, or the finding below); or that reload
  ended while the thread was about to reset, or to publish, the baseline it had
  seen before;
* `MonitorsOfSession` speaks of the entries, which is what a client reports, not of
  what older workers check; `RatesOfHistory` lets a Python entry have the rate of an
  older worker of its name, but never a mixture;
* `SessionRegained` is fulfilled when the server has logged the client in: a Go
  client may then still wait for the address family, until `ReadsEnd`;
* `UnauthenticatedLeave` and `IdleLeave` have the premise `PassesComplete`.

### Findings

* `lost_reload`: the reload flag is cleared after the configuration was read, so
  a SIGHUP that arrives in between is lost.
* `minimal_interval`: the README calls `interval` the minimal interval between
  notifications, but comparison and assignment of the last alarm are not atomic:
  the main loop and one thread, or two threads (a client that dropped, came back
  and dropped again within 25 s), pass the comparison together and both send.
* `outage_lost`: when two clients drop before the first thread has read its
  argument, as in a reload or a network failure, both threads look at the second
  client, and the first is never reported.
* `record_kept`: a reload zeroes the table while the other thread publishes it;
  if that thread wakes up before `ReadConfig` has read `stats.json`, the file it
  reads has lost the baselines, which the comment in the code wants kept. Without
  any other client what the thread publishes then is not even JSON.

Without a run of their own:

* `AcceptClient` refuses a peer with "Only one client per IP allowed.", but
  compares the port as well (`server/network.cpp:67`), so two connections of one
  IP are both accepted; `OneConnectionPerAddress` is stated for addresses with
  their port.
* A thread of `offlineAlarmThread` looks once, at the end of its 25 s, whether the
  client is connected (`server/main.cpp:510`), and otherwise says that it was a
  fluctuation of the network (601). A client that drops, returns and drops again
  after 24 s is reported one second after that, by the thread of the first drop.
  In the model such a thread is `over`; without this exception `DelayKept` is
  violated.

## 4. Proofs

`SessionsProofs` proves for every number of slots, peers, users and
configurations, every size of the ban pool and every limit:

* `TypeCorrect`, `SlotsNeverDisagree`, `BindingIsOneToOne`, `PublishedIsBound`,
  `CredentialsStayCurrent`, `AddressesStayDistinct`: the
  invariants of the run `sessions`;
* `AlarmsNameLeavers`: the action property on the offline alarm;
* `SessionsImplementPresence`: the refinement.

The assumptions are the named `ASSUME`s of `Sessions`: the tables have at least
one entry, every address has an IP, lines are of one kind, configurations are
sequences of credentials. TLC evaluates them in every run.

The argument: no invariant is inductive alone. `Drop` looks the client up by its
slot, so that the tables still agree afterwards depends on the binding being one
to one; that the lookup finds a client at all depends on AUTHED slots being
bound; that a reload drops every bound slot depends on `m_Connected` agreeing
with the binding and on bound clients being active, which is part of the
invariant on credentials. `IInv` is therefore the type invariant together with
`Agreement`, the conjunction of these. The module first proves what the helpers
do (`ClientNetToClient`, `Drop`), then one lemma per group of actions, then
`SessionsAgree`, from which the theorems follow. The refinement maps a step that
binds to `Come`, one that drops to `Leave`, `ReadConfig` to `Reload` and all others
to stuttering.

`OfflineAlarmProofs` proves for any number of clients, rules and alarm threads,
any delay, intervals and any time between the reading of the clock and its use
`AlarmTypes`, `DelayAlwaysKept` and `AlarmsAreSpaced`, the invariants of the run
`alarms`, from the assumption `AlarmAssumption` (indexes are natural numbers,
there is a rule, and ages saturate above every interval). The inductive
invariant has three parts. `Placed`: who may be where, that the argument is a
client as soon as a thread exists, and that the clock is only held in `set`.
`DelayCounted`: for a sleeping thread whose outage lasts, the time since the last
drop and the time left to sleep add up to the delay, which is what `DelayKept`
needs when it wakes.
`LastAlarmKnown`: for a client whose alarms did not overlap, `m_AlarmLastTime` is
the time of the last alarm, only one evaluator is past the comparison, and the
comparison it made stays true until it sets the stamp. The last holds across
ticks because the age and the held stamp grow together, and at the saturation of
the age because of the assumption on the bound.

A thread whose client came back, or lost its index to a reload, is outside
`DelayCounted`: what is left of its sleep says nothing of the present outage.

`MonthTrafficProofs` proves for counters of any size `RecordTypes`,
`PublishedIsWhole`, `RecordStaysReadable` and `BaselineIsStable`: all the run
`traffic` checks except `ServerStops`. The inductive invariant has two parts for the
files: `Staged` says what is in the buffer and the temporary file at each step of
the thread, and that the published file is never the one being written; with it,
`Copied` says that the status published last is where a start would look, or is
being overwritten, across a kill at any step. The other two follow a baseline
once round: `TableKeeps` (the table in use has the established baseline, or there
is a reason not to), `BufferKeeps` (so has a status between `Format` and `Rename`, and
while the table is in use it is that of the table, unless the last reload crossed
it), the file by `Copied`, and `TableKeeps` again through `Restore`. That the second
half of `BufferKeeps` is needed shows at `Rename`: it takes the reasons away, so the
table must have what was just published.

`StatusBotProofs` proves for any servers and any patience that the bot
implements `Suspicion` (`BotImplementsSuspicion`). It needs that only one of the
two counters of a server is in use (`OneCounterInUse`): the refinement maps their
sum, and a count left over from the last change would end the next one too early.

`ClientLinkProofs` proves that one turn of a monitor keeps the queue bounded
and the counter equal to the losses in it, for any length (`RecordCountsLosses`);
the lemmas say what appending and removing a result does to the set of losses.
It proves further, for any number of connections, monitors and lists of
them, `LinkTypes`, `MonitorsAreOfSession` and `RatesAreOfHistory`. The argument for
the monitors: they are taken from the messages on the way, so these must be those
configured (`Welcomed`) once the client is logged in, and nothing but the request
for a login before (`Greeted`), so that no list of an earlier session is read;
Python, which may start to report without reading a list, has none by then
(`Forgotten`). A reload that changes the lists ends every session. The argument
for the rates: a queue never gets shorter, so a rate, once computed of enough
results, is replaced at the next turn of whoever computed it, and until then is the
share in that worker's queue (`RatedTurn`). An entry that is replaced begins without
a rate (`NoRate`), and a worker only stops when there is no entry of its name, so
that no rate outlives the worker it is of (`StepWorkerStops`). For Go an entry has
one writer, for Python as many as there are workers of its name (`Writers`).

`EndToEndProofs` carries both over to the whole chain: its steps are steps of
`ClientLink` or leave it alone (`ChainIsLink`), and, because what is published is on
or off, steps of `StatusBot` or leave it alone (`ChainIsBot`). So the bot implements
`Suspicion` behind any interleaving of client, server, publication and polls
(`ChainImplementsSuspicion`, the property of the run `end_to_end`), and a watched
client keeps what an unwatched one does (`ChainKeepsSessions`).

`BanPoolProofs` proves for an array of any size, any data that can be banned,
any hash function and any durations `PoolTypeCorrect`, `PoolListsConsistent`,
`PoolHashFindsEveryBan`, `PoolOrderedByExpiry` and `PoolImplementsBanList`: all
the run `ban_pool` checks. The model, like the code, only has pointers, and what
is on a list is found by walking it. The invariant `PoolInv` therefore does not
speak of walks. It says that some set of nodes `U` is used (`Holds`): the nodes of
`U` can be written down in a row so that `next` leads to the right neighbour and
`prev` to the left (`IsList`), from `m_pFirstUsed`, those outside `U` in the same
way from `m_pFirstFree`, and for every bucket those of `U` that hash to it from the
head of its chain; neighbours in `U` are in order; no datum is there twice;
`m_CountUsed` is the size of `U`. The steps:

* `ChainWalksList`: over such a row the walk visits the nodes in order, so that
  `Used`, `Free` and `Hashed` are the sets the invariant names (`ListsOfHeld`), and
  a row cannot be longer than the array (`ListFitsPool`, by counting);
* `LinkedRemove`, `LinkedInsert`: taking out a node and putting one between two
  neighbours, written on the pointers alone, leave a row of the other nodes, or of
  these and the new one; from them, one lemma for each piece the operations are
  composed of (`UnlinkUsed`, `UnlinkFree`, `InsertUsed`, `PushFree`, `PushHash`,
  `UnlinkHash`), then `AddHolds`, `RemoveHolds` and `UpdateHolds`;
* `InsertUsed` finds its place by a search from the head: that the place is in
  order on both sides follows from its being the first that fits, and that
  `UnlinkUsed` leaves the two neighbours in order from `InOrderTransitive`;
* `PopsTrim`: the loop of `CBanPool::Update` ends with exactly the bans that are
  not over, because no ban that is over stands behind one that is not
  (`HeadExpiresFirst`);
* the refinement: `BansOf` is well defined because no datum is there twice
  (`BansOfHeld`), and one lemma per operation maps it to `Ban`, `Unban`, `Expire`
  or the emptying of the table.

`LineFramingProofs` proves for any size of the buffer, any longest line below it
and streams of any length `FramingTypeCorrect`, `FramingLinesOfStream`,
`FramingNoLineHeldBack` and `FramingOverflowIsTooLong`: all the run `framing` checks.
`FramingInv` says that the buffer is the rest of the stream from `Offset` on
(`InStream`), that what was returned are the lines that stop within the first
`Seen` bytes (`LinesTo`), that the last of these bytes is an end (`SeenToEnd`), and
that after a pass that was not ended early the buffer has no end, or a line that
is too long in front (`QuietAfterPass`). `Seen` is one more than `Offset` while the
buffer starts with an end: a line that is taken out leaves its end behind, so
its stop is already counted. This is also what makes a CR LF that TCP cuts in two
one end and not two: the LF that arrives alone is no stop, because the byte
before it is an end (`SeenToEnd`). `StopOfRank` and `StopsRanked` show that the
number of stops up to a stop is a numbering of them, from which the lines
counted step by step are those of `LinesOf` (`LinesToIsPrefix`).

Both modules need induction over data: that a list walked from its head comes to
an end, that a search finds its place, that a first byte with a property exists.
The library's induction theorems cannot be instantiated, so these proofs argue by
the least counterexample instead: `LeastElement` follows from the well-foundedness
of the natural numbers (`NatLessThanWellFounded`, `WFMin`), and a recursive function
is shown to be the one intended by comparing both at the least place where they
could differ (`ChainWalksList`, `PopsExist`).

Assumptions of all proofs are the named `ASSUME`s of the modules, and nothing else;
TLC evaluates each in some run. In particular `PoolAssumption` asks for an array of
at least two nodes, which `CBanPool::Reset` presumes too, and `SizeAssumption` for
a longest line shorter than the buffer.

Only model-checked: the liveness properties `UnauthenticatedLeave`, `IdleLeave`,
`BrokenReaped`, `BansEnd`, `ExitHonoured`, `OutageSettled`, `ServerStops`, `ReadsEnd`,
`OutageNoticed` and `SessionRegained`. They rest on fairness
and therefore on `ENABLED`, which are out of the prover's reach. Every other
property of a passing run is a theorem.

## 5. Not modelled

* Of the clients the sampling of processor, memory, disks, traffic, connections
  and ping times: single threads that publish numbers on which nothing else
  depends. A check of a monitor is one step; in the code it may last seconds, its
  times are written field by field, and a Python worker whose entry is removed
  meanwhile ends by an exception. Of the workers of replaced entries only as many
  are followed as `Workers` has; that their number grows is not judged, as no
  document says they should end.
* Of the publication the text of the status, apart from whether it parses; the
  count that makes open pages reload, which two threads change
  (`server/main.cpp:478`); the month of the outgoing counter, which follows the
  incoming one.
* Of the rules their language (exprtk) and text, and the reading of tables of
  rules and monitors from a configuration, with the entry behind their end
  (`server/main.cpp:705`).
* What other threads see inside a step of the main loop: `Drop` and `ReadConfig` are
  one step each in `Sessions`, so `ClientsAgree` is about what they leave behind;
  `MonthTraffic` and `OfflineAlarm` split a reload where their threads may look.
* Of a connection the bytes of the server's replies and the line ending it
  chooses for them; of the ban list ranges, because nothing bans one.
* The web page and the console view render a file and keep nothing; the
  installation scripts run once, in sequence, over the package manager.
* The vendored libraries: `exprtk.hpp` alone is 40983 lines, and with `system.c`,
  `system.h`, `json.c` and `argparse.c` most of the C++ in the tree. They are taken
  as what they promise, which is why the share of all lines that is mapped
  is small although most lines of the server's own files are mapped.

## 6. Plan

What could still be added, in this order:

1. The reload of the page and the text of the published list, as an extension of
   `MonthTraffic` to several clients.
2. A check of a monitor in several steps, with the times it writes field by field
   while its entry is replaced.
3. The safety part of the liveness properties as invariants with proofs: what
   holds while a reload drops every session, or while a lost connection waits for
   its timeout, and which step ends it.
