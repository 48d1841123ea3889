------------------------------ MODULE LineFraming ------------------------------
(***************************************************************************)
(* CNetworkClient cuts the stream of a client into lines.  The bytes come  *)
(* as TCP cuts them, at most one read per pass of the server; lines are    *)
(* taken out until none is complete, unless the server ends the pass early *)
(* because of another client.  Any run of CR and LF ends a line.  The      *)
(* first such run of a client is taken for its line ending, and is what    *)
(* the server ends its own lines with.                                     *)
(***************************************************************************)
EXTENDS Integers, FiniteSets, Sequences, SequencesExt

CONSTANTS
    Size,          \* sizeof(m_aBuffer), NET_MAX_PACKETSIZE
    MaxLine,       \* MaxLength - 1
    MaxStream      \* bound on the bytes a client sends

ASSUME SizeAssumption == Size \in Nat /\ MaxLine \in 1 .. Size - 1 /\ MaxStream \in Nat

Ends == {"CR", "LF"}
Bytes == Ends \cup {"x", "y"}     \* two letters, to tell lines from each other
BytesUpTo(n) == BoundedSeq(Bytes, n)

VARIABLES
    pc,            \* the pass: CNetworkClient::Update is next, or Recv
    state,         \* m_State
    buffer,        \* m_aBuffer up to m_BufferOffset
    detected,      \* m_LineEndingDetected
    ending,        \* m_aLineEnding
    stream,        \* history: all bytes read from the socket
    lines,         \* history: all lines returned by Recv
    skipped        \* history: the last pass ended before Recv returned 0

vars == <<pc, state, buffer, detected, ending, stream, lines, skipped>>

TypeOK ==
    /\ pc \in {"update", "recv"}
    /\ state \in {"ONLINE", "ERROR", "OVERFLOW"}   \* two reasons of an ERROR
    /\ buffer \in BytesUpTo(Size)
    /\ detected \in BOOLEAN
    /\ ending \in Seq(Ends) /\ Len(ending) \in 1 .. 2
    /\ stream \in Seq(Bytes) /\ lines \in Seq(Seq(Bytes \ Ends))
    /\ skipped \in BOOLEAN

-------------------------------------------------------------------------------
(* CNetworkClient::Update.                                                 *)

OutOfBuffer ==
    /\ pc = "update" /\ state = "ONLINE"
    /\ Len(buffer) >= Size
    /\ state' = "OVERFLOW"
    /\ pc' = "recv"
    /\ UNCHANGED <<buffer, detected, ending, stream, lines, skipped>>

(* Faulty variant: the offset is not taken from the room.                  *)
RoomAnyway == Size

Room == Size - Len(buffer)

NetTcpRecv(bytes) ==
    /\ pc = "update" /\ state = "ONLINE"
    /\ bytes # <<>> /\ Len(bytes) <= Room
    /\ Len(stream) + Len(bytes) <= MaxStream
    /\ buffer' = buffer \o bytes
    /\ stream' = stream \o bytes
    /\ pc' = "recv"
    /\ UNCHANGED <<state, detected, ending, lines, skipped>>

WouldBlock ==
    /\ pc = "update" /\ state = "ONLINE"
    /\ Len(buffer) < Size
    /\ pc' = "recv"
    /\ UNCHANGED <<state, buffer, detected, ending, stream, lines, skipped>>

(* A failure, or the client closed its end.                                *)
ConnectionFails ==
    /\ pc = "update" /\ state = "ONLINE"
    /\ Len(buffer) < Size
    /\ state' = "ERROR"
    /\ pc' = "recv"
    /\ UNCHANGED <<buffer, detected, ending, stream, lines, skipped>>

-------------------------------------------------------------------------------
(* CNetworkClient::Recv.                                                   *)

StartOffset ==
    CHOOSE n \in 0 .. Len(buffer) :
        /\ \A i \in 1 .. n : buffer[i] \in Ends
        /\ n < Len(buffer) => buffer[n + 1] \notin Ends

(* Where a line ends that starts after n bytes: the bytes before its end,  *)
(* or all of them if it is not complete.                                   *)
OffsetOf(n, ends) ==
    CHOOSE m \in n .. Len(buffer) :
        /\ \A i \in n + 1 .. m : buffer[i] \notin ends
        /\ m < Len(buffer) => buffer[m + 1] \in ends

(* Faulty variant: a line is only ended by LF.                             *)
EndOffsetAtLF(n) == OffsetOf(n, {"LF"})

EndOffset(n) == OffsetOf(n, Ends)

(* The bytes that may be the line ending of the client are looked at once, *)
(* with as much of them as has arrived.                                    *)
DetectEnding ==
    IF detected \/ buffer = <<>> \/ buffer[1] \notin Ends THEN UNCHANGED <<detected, ending>>
    ELSE /\ detected' = TRUE
         /\ ending' = IF Len(buffer) > 1 /\ buffer[2] \in Ends \ {buffer[1]}
                      THEN SubSeq(buffer, 1, 2) ELSE <<buffer[1]>>

(* Faulty variant: the limit itself is too long.                           *)
FitsBelow(length) == length < MaxLine

Fits(length) == length <= MaxLine

Behind(m) == SubSeq(buffer, m + 1, Len(buffer))

(* str_sanitize_cc leaves nothing to do: the line has no CR or LF.         *)
ExtractLine ==
    LET start == StartOffset
        end == EndOffset(start)
    IN  /\ pc = "recv" /\ state = "ONLINE"
        /\ end < Len(buffer) /\ Fits(end - start)
        /\ lines' = Append(lines, SubSeq(buffer, start + 1, end))
        /\ buffer' = Behind(end)
        /\ DetectEnding
        /\ UNCHANGED <<pc, state, stream, skipped>>

(* Faulty variant: an incomplete line is not moved to the front.           *)
NotMovedToFront(n) == buffer

MovedToFront(n) == SubSeq(buffer, n + 1, Len(buffer))

(* No line is complete, or the first is too long: the pass is over for     *)
(* this client.                                                            *)
NoLine ==
    LET start == StartOffset
        end == EndOffset(start)
    IN  /\ pc = "recv" /\ state = "ONLINE"
        /\ end = Len(buffer) \/ ~Fits(end - start)
        /\ buffer' = MovedToFront(start)
        /\ DetectEnding
        /\ pc' = "update"
        /\ skipped' = FALSE
        /\ UNCHANGED <<state, stream, lines>>

(* CServer::Update returns at a malformed line of another client.          *)
PassEndsEarly ==
    /\ pc = "recv" /\ state = "ONLINE"
    /\ pc' = "update"
    /\ skipped' = TRUE
    /\ UNCHANGED <<state, buffer, detected, ending, stream, lines>>

(* The connection is dropped; the slot is given to the next client.        *)
Reset ==
    /\ state # "ONLINE"
    /\ pc' = "update" /\ state' = "ONLINE"
    /\ buffer' = <<>>
    /\ detected' = FALSE /\ ending' = <<"LF">>
    /\ stream' = <<>> /\ lines' = <<>> /\ skipped' = FALSE

Init ==
    /\ pc = "update" /\ state = "ONLINE"
    /\ buffer = <<>>
    /\ detected = FALSE /\ ending = <<"LF">>
    /\ stream = <<>> /\ lines = <<>> /\ skipped = FALSE

Update ==
    \/ OutOfBuffer \/ WouldBlock \/ ConnectionFails
    \/ \E bytes \in BytesUpTo(Size) : NetTcpRecv(bytes)

Recv == ExtractLine \/ NoLine

Next == Update \/ Recv \/ PassEndsEarly \/ Reset

Spec == Init /\ [][Next]_vars

-------------------------------------------------------------------------------
(* The lines of a whole stream: its maximal stretches without CR and LF    *)
(* that have one of them behind them, at a stop.                           *)

Stops(s, n) == {j \in 2 .. n : s[j] \in Ends /\ s[j - 1] \notin Ends}

LineBefore(s, j) ==
    LET first == CHOOSE i \in 1 .. j - 1 :
                    /\ \A k \in i .. j - 1 : s[k] \notin Ends
                    /\ i > 1 => s[i - 1] \in Ends
    IN  SubSeq(s, first, j - 1)

LinesOf(s) ==
    LET stops == Stops(s, Len(s))
    IN  [n \in 1 .. Cardinality(stops) |->
            LineBefore(s, CHOOSE j \in stops : Cardinality(Stops(s, j)) = n)]

(* The server sees the lines of the stream, in order and each once, however*)
(* the stream was cut, also between CR and LF and within a pass that ended *)
(* early.                                                                  *)
LinesOfStream == IsPrefix(lines, LinesOf(stream))

(* What is in the buffer starts with more than the longest line.           *)
TooLong ==
    LET start == StartOffset
    IN  EndOffset(start) - start > MaxLine

(* A pass that was not ended early leaves no complete line behind, unless  *)
(* one that is too long is in front of it.                                 *)
NoLineHeldBack ==
    pc = "update" /\ state = "ONLINE" /\ ~skipped => lines = LinesOf(stream) \/ TooLong

(* A client is only dropped for being "too weak" because of a line that is *)
(* too long, or because the passes over its lines were ended early.        *)
OverflowIsTooLong == state = "OVERFLOW" => TooLong \/ skipped

===============================================================================
