------------------------------ MODULE MonthTraffic ------------------------------
(***************************************************************************)
(* The record of the month's traffic.  The server keeps, per client, the   *)
(* counter it had when the month began (m_LastNetworkIN); the page shows   *)
(* the difference to the present counter.  The only place where that       *)
(* baseline survives a restart or a reload is the status file the server   *)
(* publishes every second: JSONUpdateThread writes stats.json~ and renames *)
(* it to stats.json, and ReadConfig reads it back, while the other thread  *)
(* may be publishing the very table it rebuilds.                           *)
(*                                                                         *)
(* Clients do not interact here, so there is one.  Of its two counters     *)
(* only the incoming one decides anything, so the outgoing one is left out.*)
(***************************************************************************)
EXTENDS Integers

CONSTANTS
    MaxCount       \* bound on the counters clients report

ASSUME CountAssumption == MaxCount \in Nat \ {0}

Counts == 0 .. MaxCount           \* 0: nothing reported, or no baseline

(* Contents of a file: none, one that was opened for writing, or a status  *)
(* with the baseline it gives the client.  "why" is history: "kept" is the *)
(* established baseline, "fresh" an entry without one, "without" a document*)
(* with no entry of this client.  "malformed" does not parse: a status     *)
(* without any entry, whose end overwrites the opening bracket of its list,*)
(* or one that a failed write cut short.                                   *)
Nothing(why) == [why |-> why, base |-> 0]
Absent == Nothing("absent")
Truncated == Nothing("truncated")
Malformed == Nothing("malformed")
Status == {Nothing("without"), Malformed} \cup
          [why : {"fresh", "kept"}, base : Counts]
File == Status \cup {Absent, Truncated}

VARIABLES
    main,          \* CMain::Run: down, reading the configuration, running
    thread,        \* JSONUpdateThread: its next step
    quit,          \* ~gs_Running
    active,        \* m_Active
    disabled,      \* m_Disabled
    connected,     \* m_Connected
    stat,          \* m_Stats.m_NetworkIN
    last,          \* m_LastNetworkIN
    buf,           \* aFileBuf
    json,          \* stats.json
    tmp,           \* stats.json~
    published,     \* history: the status renamed last
    overwriting,   \* history: the only copy of it, left by a clean exit, was
                   \* opened for writing and none was renamed since
    kept,          \* history: the established baseline published last
    reasons        \* history: why the table may have another: it was due
                   \* ("due"), the last start or reload did not find it
                   \* ("lost") or crossed a round of the thread ("crossed")

client == <<active, disabled, connected, stat, last>>
disk == <<json, tmp>>
record == <<published, overwriting>>
history == <<record, kept, reasons>>
vars == <<main, thread, quit, client, buf, disk, history>>

TypeOK ==
    /\ main \in {"down", "zeroed", "filled", "running", "closing"}
    /\ thread \in {"off", "pick", "branch", "baseline", "reset", "online", "offline", "skipped",
                   "open", "write", "rename", "sleep", "ended"}
    /\ quit \in BOOLEAN /\ active \in BOOLEAN /\ disabled \in BOOLEAN /\ connected \in BOOLEAN
    /\ stat \in Counts /\ last \in Counts
    /\ buf \in Status \cup {Absent} /\ json \in File /\ tmp \in File
    /\ published \in File /\ overwriting \in BOOLEAN
    /\ kept \in Counts /\ reasons \subseteq {"due", "lost", "crossed"}

-------------------------------------------------------------------------------
(* JSONUpdateThread.                                                       *)

(* The thread reads the table field by field.  What it decided stands,     *)
(* whatever reports, connects, leaves or reloads before it goes on.        *)
Pick ==
    /\ thread = "pick"
    /\ thread' = IF active /\ ~disabled THEN "branch" ELSE "skipped"
    /\ UNCHANGED <<main, quit, client, buf, disk, history>>

Branch ==
    /\ thread = "branch"
    /\ thread' = IF connected THEN "baseline" ELSE "offline"
    /\ UNCHANGED <<main, quit, client, buf, disk, history>>

(* Faulty variant: any report is taken for a counter that restarted.       *)
ResetDueAlways(window) == last = 0 \/ stat # 0

ResetDue(window) == last = 0 \/ (stat # 0 /\ last > stat) \/ window

(* window: the first five minutes of the client's month.                   *)
Baseline(window) ==
    /\ thread = "baseline"
    /\ thread' = IF ResetDue(window) THEN "reset" ELSE "online"
    /\ reasons' = IF window \/ (stat # 0 /\ last > stat) THEN reasons \cup {"due"} ELSE reasons
    /\ UNCHANGED <<main, quit, client, buf, disk, record, kept>>

(* Faulty variant: the baseline moves by the difference.                   *)
ResetByDifference ==
    /\ thread = "reset"
    /\ last' = stat - last
    /\ thread' = "online"
    /\ UNCHANGED <<main, quit, active, disabled, connected, stat, buf, disk, history>>

Reset ==
    /\ thread = "reset"
    /\ last' = stat
    /\ thread' = "online"
    /\ UNCHANGED <<main, quit, active, disabled, connected, stat, buf, disk, history>>

(* A zeroed client is printed without its name: an entry of nobody.        *)
OnlineEntry ==
    IF ~active THEN Nothing("without")
    ELSE IF stat = 0 \/ last = 0 THEN [why |-> "fresh", base |-> stat]
    ELSE [why |-> "kept", base |-> last]

(* A table that is filled but not restored has no baselines yet.           *)
OfflineEntry ==
    IF ~active THEN Nothing("without")
    ELSE [why |-> IF main = "filled" THEN "fresh" ELSE "kept", base |-> last]

(* others: does the document have an entry of another client?              *)
Format(others) ==
    /\ \/ thread = "online" /\ buf' = OnlineEntry
       \/ thread = "offline" /\ buf' = OfflineEntry
       \/ thread = "skipped" /\ buf' = IF others THEN Nothing("without") ELSE Malformed
    /\ thread' = "open"
    /\ UNCHANGED <<main, quit, client, disk, history>>

(* Faulty variant: the published file itself is opened for writing.        *)
OpenPublished ==
    /\ thread = "open"
    /\ json' = Truncated
    /\ thread' = "write"
    /\ UNCHANGED <<main, quit, client, buf, tmp, history>>

Open ==
    /\ thread = "open"
    /\ tmp' = Truncated
    /\ overwriting' = (overwriting \/ json = Absent)
    /\ thread' = "write"
    /\ UNCHANGED <<main, quit, client, buf, json, published, kept, reasons>>

(* Nobody looks at how much was written.                                   *)
Write(short) ==
    /\ thread = "write"
    /\ tmp' = IF short THEN Malformed ELSE buf
    /\ thread' = "rename"
    /\ UNCHANGED <<main, quit, client, buf, json, history>>

(* The reasons end when the baseline of the table is published.            *)
Rename ==
    /\ thread = "rename"
    /\ json' = tmp /\ tmp' = Absent
    /\ published' = tmp /\ overwriting' = FALSE
    /\ kept' = IF tmp.why = "kept" THEN tmp.base ELSE kept
    /\ reasons' = IF tmp = [why |-> "kept", base |-> last] THEN {} ELSE reasons
    /\ buf' = Absent
    /\ thread' = "sleep"
    /\ UNCHANGED <<main, quit, client>>

(* Faulty variant: the loop does not look at gs_Running.                    *)
WakeUpAnyway ==
    /\ thread = "sleep"
    /\ thread' = "pick"
    /\ UNCHANGED <<main, quit, client, buf, disk, history>>

WakeUp ==
    /\ thread = "sleep" /\ ~quit
    /\ thread' = "pick"
    /\ UNCHANGED <<main, quit, client, buf, disk, history>>

(* The loop ends, the status file is renamed so that no page shows it.     *)
LeaveThread ==
    /\ thread = "sleep" /\ quit
    /\ IF json = Absent THEN UNCHANGED disk ELSE tmp' = json /\ json' = Absent
    /\ thread' = "ended"
    /\ UNCHANGED <<main, quit, client, buf, history>>

-------------------------------------------------------------------------------
(* The main loop.                                                          *)

OnNewClient ==
    /\ main = "running" /\ active /\ ~connected
    /\ connected' = TRUE
    /\ UNCHANGED <<main, thread, quit, active, disabled, stat, last, buf, disk, history>>

HandleMessage(count) ==
    /\ main = "running" /\ connected
    /\ stat' = count
    /\ UNCHANGED <<main, thread, quit, active, disabled, connected, last, buf, disk, history>>

OnDelClient ==
    /\ main = "running" /\ connected
    /\ connected' = FALSE
    /\ stat' = 0
    /\ UNCHANGED <<main, thread, quit, active, disabled, last, buf, disk, history>>

Zeroed ==
    /\ active' = FALSE /\ disabled' = FALSE /\ connected' = FALSE
    /\ stat' = 0 /\ last' = 0

(* Run reads the configuration before it starts the thread.                *)
Start ==
    /\ main = "down"
    /\ main' = "zeroed"
    /\ UNCHANGED <<thread, quit, client, buf, disk, history>>

(* ReadConfig on SIGHUP: clients are dropped and the table is zeroed.      *)
Reload ==
    /\ main = "running" /\ ~quit
    /\ main' = "zeroed"
    /\ Zeroed
    /\ UNCHANGED <<thread, quit, buf, disk, history>>

(* The configuration may or may not disable the client.                    *)
FillTable(disable) ==
    /\ main = "zeroed"
    /\ active' = TRUE
    /\ disabled' = disable
    /\ main' = "filled"
    /\ UNCHANGED <<thread, quit, connected, stat, last, buf, disk, history>>

(* Faulty variant: only the published file is looked at.                   *)
FoundPublished == json

Found == IF json # Absent THEN json ELSE tmp

(* Is the thread about to reset the baseline, or to publish another one?   *)
Crossing == thread = "reset" \/ (buf.why = "kept" /\ buf.base # Found.base)

(* A file that does not parse or has no entry leaves the baseline zero.    *)
Restore ==
    /\ main = "filled"
    /\ last' = Found.base
    /\ reasons' = (IF kept # 0 /\ Found # [why |-> "kept", base |-> kept] THEN {"lost"} ELSE {})
                  \cup (IF Crossing THEN {"crossed"} ELSE {})
    /\ main' = "running"
    /\ thread' = IF thread = "off" THEN "sleep" ELSE thread
    /\ UNCHANGED <<quit, active, disabled, connected, stat, buf, disk, record, kept>>

ExitFunc ==
    /\ main \in {"zeroed", "filled", "running"}
    /\ quit' = TRUE
    /\ UNCHANGED <<main, thread, client, buf, disk, history>>

Close ==
    /\ main = "running" /\ quit
    /\ main' = "closing"
    /\ UNCHANGED <<thread, quit, client, buf, disk, history>>

(* Run waits for the thread; then the process ends.                        *)
Ended ==
    /\ main = "closing" /\ thread = "ended"
    /\ main' = "down" /\ thread' = "off"
    /\ quit' = FALSE
    /\ Zeroed
    /\ UNCHANGED <<buf, disk, history>>

(* The process is killed at any point, or ends because a configuration it  *)
(* was told to reload does not parse.                                      *)
Crash ==
    /\ main # "down"
    /\ main' = "down" /\ thread' = "off" /\ quit' = FALSE
    /\ Zeroed
    /\ buf' = Absent
    /\ UNCHANGED <<disk, history>>

-------------------------------------------------------------------------------

Init ==
    /\ main = "down" /\ thread = "off" /\ quit = FALSE
    /\ active = FALSE /\ disabled = FALSE /\ connected = FALSE
    /\ stat = 0 /\ last = 0
    /\ buf = Absent /\ json = Absent /\ tmp = Absent
    /\ published = Absent /\ overwriting = FALSE
    /\ kept = 0 /\ reasons = {}

JSONUpdateThread ==
    \/ Pick \/ Branch \/ Reset \/ Open \/ Rename \/ WakeUp \/ LeaveThread
    \/ \E window \in BOOLEAN : Baseline(window)
    \/ \E others \in BOOLEAN : Format(others)
    \/ \E short \in BOOLEAN : Write(short)

MainLoop ==
    \/ (\E disable \in BOOLEAN : FillTable(disable)) \/ Restore \/ Close \/ Ended

Environment ==
    \/ Start \/ Reload \/ ExitFunc \/ Crash
    \/ OnNewClient \/ OnDelClient \/ \E count \in Counts \ {0} : HandleMessage(count)

Next == JSONUpdateThread \/ MainLoop \/ Environment

Spec == Init /\ [][Next]_vars

(* Both threads are scheduled, and their file operations end.              *)
FairSpec == Spec /\ WF_vars(JSONUpdateThread) /\ WF_vars(MainLoop)

-------------------------------------------------------------------------------

(* Whoever fetches stats.json never gets one that is still being written,  *)
(* or that was when the server was killed.  It need not be JSON all the    *)
(* same: a status without any entry and one cut by a failed write are      *)
(* published like any other.                                               *)
PublishedWhole == json # Truncated

(* What a start or a reload would read is the status that was published    *)
(* last, whatever was killed and when.  The exception is the first status  *)
(* after a clean exit: from its fopen to its rename, also if the server    *)
(* ends in between, the only copy of the record is being overwritten.      *)
(* Whether that status has a baseline is another question: see RecordKept. *)
RecordReadable == Found = published \/ overwriting

(* The month's baseline, once published, is only replaced by another for   *)
(* one of three reasons, none older than the last status that gave the     *)
(* baseline of the table.  It was due: a new month, or the counter of the  *)
(* client restarted.  The last start or reload found another record, or    *)
(* none (RecordKept).  Or that reload ended while the thread was about to  *)
(* reset the baseline it had seen before, or to publish such a one.        *)
BaselineStable ==
    [][kept' # kept => kept = 0 \/ reasons # {}]_vars

(* "don't remove month traffic record, storage as stats.json~": a start or *)
(* reload finds the baseline that was published.                           *)
RecordKept == "lost" \notin reasons

(* A server that is told to stop does so: the main loop leaves and joins   *)
(* the thread, which ends after at most one more round of publishing.      *)
ServerStops == quit ~> main = "down"

===============================================================================
