--------------------------- MODULE MonthTrafficProofs ---------------------------
(***************************************************************************)
(* Theorems about MonthTraffic: for counters of any size, no file is       *)
(* published that is still being written, a start or reload reads what was *)
(* published last, and the published baseline of the month only changes    *)
(* for one of the reasons MonthTraffic names.                              *)
(***************************************************************************)
EXTENDS MonthTraffic, TLAPS

USE CountAssumption DEF CountAssumption

(* The buffer is a status from Format on; the temporary file is that or    *)
(* one cut short before it is renamed, and what is published is no other.  *)
Staged ==
    /\ thread \in {"open", "write", "rename"} => buf \in Status
    /\ thread = "rename" => tmp \in {buf, Malformed}
    /\ PublishedWhole

(* What is read is what was published, or is known to be overwritten.      *)
Copied ==
    /\ RecordReadable
    /\ thread \in {"write", "rename"} /\ json = Absent => overwriting

(* A client is only in the table that is filled, and only reports later.   *)
Tabled ==
    /\ active => main \in {"filled", "running", "closing"}
    /\ main \in {"down", "zeroed", "filled"} => stat = 0

(* Why another baseline than the established one may be about.             *)
Excuse == kept = 0 \/ reasons # {}

(* The table has the established baseline, and one that is to be replaced  *)
(* is so for a reason.                                                     *)
TableKeeps ==
    main \in {"running", "closing"} =>
        /\ last = kept \/ Excuse
        /\ thread = "reset" => Excuse

(* So has a status on its way to the file, and it is that of the table.    *)
BufferKeeps ==
    thread \in {"open", "write", "rename"} /\ buf.why = "kept" =>
        /\ buf.base = kept \/ Excuse
        /\ main \in {"running", "closing"} => buf.base = last \/ reasons # {}

Baselines == Tabled /\ TableKeeps /\ BufferKeeps

IInv == TypeOK /\ Staged /\ Copied /\ Baselines

-------------------------------------------------------------------------------
(* What a status and the other contents of a file are.                     *)
LEMMA Contents ==
    /\ \A f \in Status : f.base \in Counts /\ f # Absent /\ f # Truncated
    /\ \A f \in Status : f.why = "kept" => f = [why |-> "kept", base |-> f.base]
    /\ Absent.base = 0 /\ Truncated.base = 0
    /\ Malformed \in Status /\ Malformed.why # "kept" /\ Nothing("without") \in Status
    /\ Absent # Truncated /\ 0 \in Counts
    /\ Absent \in File /\ Truncated \in File /\ Status \subseteq File
BY DEF Status, File, Absent, Truncated, Malformed, Nothing, Counts

(* An entry is a status; it gives an established baseline only from a      *)
(* table that is not being rebuilt, and then that of the table.            *)
LEMMA EntryOfTable ==
    ASSUME TypeOK, Tabled, NEW e \in {OnlineEntry, OfflineEntry}
    PROVE  /\ e \in Status
           /\ e.why = "kept" => main \in {"running", "closing"} /\ e.base = last
BY DEF TypeOK, Tabled, OnlineEntry, OfflineEntry, Nothing, Status, Counts

(* Nothing is published when the server is first started.                  *)
LEMMA NothingYet == Init => IInv
BY Contents DEF Init, IInv, TypeOK, Staged, PublishedWhole, Copied, RecordReadable, Found,
   Baselines, Tabled, TableKeeps, BufferKeeps, Excuse

-------------------------------------------------------------------------------
(* The thread.                                                             *)

(* What is read from the table is decided, and nothing else changed; the   *)
(* thread only finds a reset due because of the month or the counter, which*)
(* is a reason, or in a table without a baseline.                          *)
LEMMA StepDecide ==
    ASSUME IInv, Pick \/ Branch \/ (\E window \in BOOLEAN : Baseline(window))
    PROVE  IInv'
<1>1. /\ thread' \in {"branch", "skipped", "baseline", "offline", "reset", "online"}
      /\ thread \in {"pick", "branch", "baseline"}
      /\ reasons \subseteq reasons' /\ reasons' \subseteq {"due", "lost", "crossed"}
      /\ UNCHANGED <<main, quit, client, buf, disk, record, kept>>
  BY DEF Pick, Branch, Baseline, history, IInv, TypeOK
<1>2. thread' = "reset" => last = 0 \/ reasons' # {}
  BY DEF Pick, Branch, Baseline, ResetDue
<1>3. TypeOK' /\ Staged' /\ Copied' /\ Tabled' /\ BufferKeeps'
  BY <1>1 DEF IInv, Baselines, TypeOK, Staged, PublishedWhole, Copied, RecordReadable, Found,
              Tabled, BufferKeeps, client, disk, record
<1>4. TableKeeps'
  BY <1>1, <1>2 DEF IInv, Baselines, TableKeeps, Excuse, client
<1>5. QED
  BY <1>3, <1>4 DEF IInv, Baselines

(* The baseline is reset for the reason it was found due.                  *)
LEMMA StepReset ==
    ASSUME IInv, Reset
    PROVE  IInv'
BY DEF Reset, IInv, Baselines, TypeOK, Tabled, Staged, PublishedWhole, Copied, RecordReadable,
       Found, TableKeeps, BufferKeeps, Excuse, disk, history, record

(* What is formatted has the baseline of the table.                        *)
LEMMA StepFormat ==
    ASSUME IInv, NEW others \in BOOLEAN, Format(others)
    PROVE  IInv'
<1>1. /\ buf' \in Status
      /\ buf'.why = "kept" => main \in {"running", "closing"} /\ buf'.base = last
  <2>1. CASE buf' \in {OnlineEntry, OfflineEntry}
    BY <2>1, EntryOfTable DEF IInv, Baselines
  <2>2. CASE buf' \in {Nothing("without"), Malformed}
    BY <2>2, Contents DEF Nothing
  <2>3. QED
    BY <2>1, <2>2 DEF Format
<1>2. /\ thread' = "open"
      /\ UNCHANGED <<main, quit, client, disk, record, kept, reasons>>
  BY DEF Format, history
<1>3. TypeOK' /\ Staged' /\ Tabled'
  BY <1>1, <1>2 DEF IInv, Baselines, TypeOK, Tabled, Staged, PublishedWhole, client, disk, record
<1>4. Copied'
  BY <1>2 DEF IInv, Copied, RecordReadable, Found, disk, record
<1>5. TableKeeps' /\ BufferKeeps'
  BY <1>1, <1>2 DEF IInv, Baselines, TableKeeps, BufferKeeps, Excuse, client
<1>6. QED
  BY <1>3, <1>4, <1>5 DEF IInv, Baselines

(* The published file is not touched before the new one is written.        *)
LEMMA StepOpen ==
    ASSUME IInv, Open
    PROVE  IInv'
<1>1. /\ thread = "open" /\ thread' = "write"
      /\ tmp' = Truncated /\ tmp' \in File /\ overwriting' = (overwriting \/ json = Absent)
      /\ UNCHANGED <<main, quit, active, disabled, connected, stat, last, buf, json>>
      /\ UNCHANGED <<published, kept, reasons>>
  BY Contents DEF Open, client
<1>2. TypeOK' /\ Staged' /\ Copied'
  BY <1>1 DEF IInv, TypeOK, Staged, PublishedWhole, Copied, RecordReadable, Found
<1>3. Tabled' /\ TableKeeps' /\ BufferKeeps'
  BY <1>1 DEF IInv, Baselines, Tabled, TableKeeps, BufferKeeps, Excuse
<1>4. QED
  BY <1>2, <1>3 DEF IInv, Baselines

(* It is written from the buffer, or from the beginning of it.             *)
LEMMA StepWrite ==
    ASSUME IInv, NEW short \in BOOLEAN, Write(short)
    PROVE  IInv'
<1>1. tmp' \in {buf, Malformed} /\ tmp' \in File
  BY Contents DEF Write, IInv, Staged
<1>2. /\ thread = "write" /\ thread' = "rename"
      /\ UNCHANGED <<main, quit, active, disabled, connected, stat, last, buf, json>>
      /\ UNCHANGED <<published, overwriting, kept, reasons>>
  BY DEF Write, client, history, record
<1>3. TypeOK' /\ Staged' /\ Copied'
  BY <1>1, <1>2 DEF IInv, TypeOK, Staged, PublishedWhole, Copied, RecordReadable, Found
<1>4. Tabled' /\ TableKeeps' /\ BufferKeeps'
  BY <1>2 DEF IInv, Baselines, Tabled, TableKeeps, BufferKeeps, Excuse
<1>5. QED
  BY <1>3, <1>4 DEF IInv, Baselines

(* A status that gives a baseline establishes it, in file and table.       *)
LEMMA StepRename ==
    ASSUME IInv, Rename
    PROVE  IInv'
<1>1. tmp \in {buf, Malformed} /\ tmp \in Status /\ tmp.base \in Counts
  BY Contents DEF Rename, IInv, Staged
<1>2. /\ json' = tmp /\ tmp' = Absent /\ buf' = Absent /\ thread' = "sleep"
      /\ published' = tmp /\ overwriting' = FALSE
      /\ UNCHANGED <<main, quit, active, disabled, connected, stat, last>>
      /\ tmp.why = "kept" => kept' = tmp.base
      /\ tmp.why # "kept" => kept' = kept
  BY DEF Rename, client
<1>3. \/ reasons' = {} /\ tmp.why = "kept" /\ tmp.base = last
      \/ reasons' = reasons
  BY DEF Rename
<1>4. reasons' = reasons /\ tmp.why = "kept" => tmp.base # last \/ reasons' = {}
  BY <1>1, Contents DEF Rename
<1>5. TypeOK'
  <2>1. kept' \in Counts /\ reasons' \subseteq {"due", "lost", "crossed"}
    BY <1>1, <1>2, <1>3 DEF IInv, TypeOK
  <2>2. QED
    BY <1>1, <1>2, <2>1, Contents DEF IInv, TypeOK
<1>6. Staged' /\ Copied' /\ Tabled'
  BY <1>1, <1>2, Contents DEF IInv, Baselines, Tabled, Staged, PublishedWhole, Copied,
                             RecordReadable, Found
<1>7. TableKeeps'
  <2>1. thread = "rename"
    BY DEF Rename
  <2>2. CASE tmp.why = "kept"
    <3>1. tmp = buf
      BY <1>1, <2>2, Contents
    <3>2. main \in {"running", "closing"} => tmp.base = last \/ reasons # {}
      BY <3>1, <2>1, <2>2 DEF IInv, Baselines, BufferKeeps
    <3>3. QED
      BY <1>2, <1>3, <2>2, <3>2 DEF TableKeeps, Excuse
  <2>3. CASE tmp.why # "kept"
    BY <1>2, <1>3, <2>1, <2>3 DEF IInv, Baselines, TableKeeps, Excuse
  <2>4. QED
    BY <2>2, <2>3
<1>8. BufferKeeps'
  BY <1>2 DEF BufferKeeps
<1>9. QED
  BY <1>5, <1>6, <1>7, <1>8 DEF IInv, Baselines

(* The thread sleeps between two rounds.                                   *)
LEMMA StepWakeUp ==
    ASSUME IInv, WakeUp
    PROVE  IInv'
BY DEF WakeUp, IInv, Baselines, TypeOK, Tabled, Staged, PublishedWhole, Copied, RecordReadable,
       Found, TableKeeps, BufferKeeps, Excuse, client, disk, history, record

(* A clean exit moves the record to the other file.                        *)
LEMMA StepLeaveThread ==
    ASSUME IInv, LeaveThread
    PROVE  IInv'
BY Contents DEF LeaveThread, IInv, Baselines, TypeOK, Tabled, Staged, PublishedWhole, Copied,
       RecordReadable, Found, TableKeeps, BufferKeeps, Excuse, client, disk, history, record

-------------------------------------------------------------------------------
(* The main loop.                                                          *)

(* Steps that leave the files, the buffer and the history alone.           *)
LEMMA StepClients ==
    ASSUME IInv,
           OnNewClient \/ OnDelClient \/ (\E count \in Counts \ {0} : HandleMessage(count))
    PROVE  IInv'
<1>1. /\ main = "running" /\ connected' \in BOOLEAN /\ stat' \in Counts
      /\ UNCHANGED <<main, thread, quit, active, disabled, last, buf, json, tmp>>
      /\ UNCHANGED <<published, overwriting, kept, reasons>>
  BY Contents DEF OnNewClient, OnDelClient, HandleMessage, IInv, TypeOK, disk, history, record
<1>2. QED
  BY <1>1 DEF IInv, Baselines, TypeOK, Tabled, Staged, PublishedWhole, Copied, RecordReadable,
              Found, TableKeeps, BufferKeeps, Excuse

(* Start, reload and exit; the table is zeroed and filled.                 *)
LEMMA StepMain ==
    ASSUME IInv,
           \/ Start \/ ExitFunc \/ Close \/ Reload
           \/ \E disable \in BOOLEAN : FillTable(disable)
    PROVE  IInv'
<1>1. UNCHANGED <<thread, buf, json, tmp, published, overwriting, kept, reasons>>
  BY DEF Start, ExitFunc, Close, Reload, FillTable, disk, history, record
<1>2. TypeOK'
  <2>1. main' \in {"zeroed", "filled", "running", "closing"} /\ quit' \in BOOLEAN
    BY DEF Start, ExitFunc, Close, Reload, FillTable, IInv, TypeOK
  <2>2. active' \in BOOLEAN /\ disabled' \in BOOLEAN /\ connected' \in BOOLEAN
    BY DEF Start, ExitFunc, Close, Reload, Zeroed, FillTable, client, IInv, TypeOK
  <2>3. stat' \in Counts /\ last' \in Counts
    BY Contents DEF Start, ExitFunc, Close, Reload, Zeroed, FillTable, client, IInv, TypeOK
  <2>4. QED
    BY <1>1, <2>1, <2>2, <2>3 DEF IInv, TypeOK
<1>3. Tabled'
  BY DEF Start, ExitFunc, Close, Reload, Zeroed, FillTable, client, IInv, Baselines, Tabled
<1>4. /\ main' = "closing" => main \in {"running", "closing"}
      /\ main' = "running" => main = "running"
      /\ main' \in {"running", "closing"} => last' = last
  BY DEF Start, ExitFunc, Close, Reload, FillTable, client
<1>5. QED
  BY <1>1, <1>2, <1>3, <1>4 DEF IInv, Baselines, Staged, PublishedWhole, Copied, RecordReadable,
                                Found, TableKeeps, BufferKeeps, Excuse

(* What is restored is the established baseline, or there is a reason.     *)
LEMMA StepRestore ==
    ASSUME IInv, Restore
    PROVE  IInv'
<1>1. Found.base \in Counts
  BY Contents DEF IInv, TypeOK, Found, File
<1>2. /\ main' = "running" /\ last' = Found.base
      /\ thread' = IF thread = "off" THEN "sleep" ELSE thread
      /\ UNCHANGED <<quit, active, disabled, connected, stat, buf, json, tmp, published,
                     overwriting, kept>>
  BY DEF Restore, disk, record
<1>3. /\ reasons' \subseteq {"due", "lost", "crossed"}
      /\ Found.base = kept \/ Excuse'
      /\ Crossing => reasons' # {}
  BY DEF Restore, Excuse
<1>4. TypeOK' /\ Tabled' /\ Staged' /\ Copied'
  BY <1>1, <1>2, <1>3 DEF Restore, IInv, Baselines, TypeOK, Tabled, Staged, PublishedWhole, Copied,
                          RecordReadable, Found
<1>5. TableKeeps'
  BY <1>2, <1>3 DEF TableKeeps, Excuse, Crossing
<1>6. BufferKeeps'
  BY <1>2, <1>3 DEF BufferKeeps, Excuse, Crossing
<1>7. QED
  BY <1>4, <1>5, <1>6 DEF IInv, Baselines

(* The process ends, in good order or not.                                 *)
LEMMA StepEnd ==
    ASSUME IInv, Ended \/ Crash
    PROVE  IInv'
BY Contents DEF Ended, Crash, Zeroed, IInv, Baselines, TypeOK, Tabled, Staged, PublishedWhole,
       Copied, RecordReadable, Found, TableKeeps, BufferKeeps, Excuse, client, disk, history,
       record, Counts

-------------------------------------------------------------------------------

(* Types, files and baselines: the inductive invariant.                    *)
THEOREM RecordOfMonth == Spec => []IInv
<1>1. IInv /\ [Next]_vars => IInv'
  <2> SUFFICES ASSUME IInv, [Next]_vars PROVE IInv'
    OBVIOUS
  <2>1. CASE JSONUpdateThread
    BY <2>1, StepDecide, StepReset, StepFormat, StepOpen, StepWrite, StepRename, StepWakeUp,
       StepLeaveThread DEF JSONUpdateThread
  <2>2. CASE MainLoop
    BY <2>2, StepMain, StepRestore, StepEnd DEF MainLoop
  <2>3. CASE Environment
    BY <2>3, StepMain, StepClients, StepEnd DEF Environment
  <2>4. CASE UNCHANGED vars
    BY <2>4 DEF vars, client, disk, history, record, IInv, Baselines, TypeOK, Tabled, Staged,
                PublishedWhole, Copied, RecordReadable, Found, TableKeeps, BufferKeeps, Excuse
  <2>5. QED
    BY <2>1, <2>2, <2>3, <2>4 DEF Next
<1>2. QED
  BY <1>1, NothingYet, PTL DEF Spec

(* The variables of the record keep their types.                           *)
THEOREM RecordTypes == Spec => []TypeOK
BY RecordOfMonth, PTL DEF IInv

(* Nobody who fetches stats.json ever gets a file that is being written.   *)
THEOREM PublishedIsWhole == Spec => []PublishedWhole
BY RecordOfMonth, PTL DEF IInv, Staged

(* What a start or reload would read is the status published last, but     *)
(* while the first one after a clean exit overwrites the only copy.        *)
THEOREM RecordStaysReadable == Spec => []RecordReadable
BY RecordOfMonth, PTL DEF IInv, Copied

(* An established baseline is only replaced if it was due, was not found   *)
(* by the last start or reload, or was crossed by that.                    *)
THEOREM BaselineIsStable == Spec => BaselineStable
<1>1. IInv /\ [Next]_vars => [kept' # kept => kept = 0 \/ reasons # {}]_vars
  <2> SUFFICES ASSUME IInv, [Next]_vars, kept' # kept
               PROVE  kept = 0 \/ reasons # {}
    OBVIOUS
  <2>1. Rename
    BY DEF Next, JSONUpdateThread, MainLoop, Environment, Pick, Branch, Baseline, Reset, Format,
           Open, Write, WakeUp, LeaveThread, FillTable, Restore, Close, Ended, Start, Reload,
           ExitFunc, Crash, OnNewClient, OnDelClient, HandleMessage, history, vars
  <2>2. tmp.why = "kept" /\ kept' = tmp.base
    BY <2>1 DEF Rename
  <2>3. tmp = buf
    BY <2>1, <2>2, Contents DEF Rename, IInv, Staged
  <2>4. QED
    BY <2>1, <2>2, <2>3 DEF Rename, IInv, Baselines, BufferKeeps, Excuse
<1>2. QED
  BY <1>1, RecordOfMonth, PTL DEF Spec, BaselineStable
===============================================================================
