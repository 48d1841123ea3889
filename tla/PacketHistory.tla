----------------------------- MODULE PacketHistory -----------------------------
(***************************************************************************)
(* How a monitor of a client counts lost packets.  It keeps the results of *)
(* its last checks in a queue of bounded length, and beside it a counter   *)
(* of the losses among them, from which it computes the rate it reports.   *)
(***************************************************************************)
EXTENDS Integers, Sequences, FiniteSets

CONSTANTS
    HistoryLen,    \* OnlinePacketHistoryLen, PingPacketHistoryLen
    Enough         \* 5: a rate is of more results than these

ASSUME HistoryAssumption == HistoryLen \in Nat \ {0} /\ Enough \in Nat

(* A result is TRUE (1 in the code) for an answer, FALSE (0) for a loss.   *)
Histories == [history : Seq(BOOLEAN), lostCount : Int]

NoHistory == [history |-> <<>>, lostCount |-> 0]

Losses(history) == Cardinality({i \in DOMAIN history : ~history[i]})

(* Faulty variant: the counter forgets that a loss leaves the queue.       *)
OldestLeavesUncounted(h) ==
    IF Len(h.history) < HistoryLen THEN h ELSE [h EXCEPT !.history = Tail(@)]

(* A full queue gives up its oldest result before the next check.          *)
OldestLeaves(h) ==
    IF Len(h.history) < HistoryLen THEN h
    ELSE [history |-> Tail(h.history),
          lostCount |-> IF Head(h.history) THEN h.lostCount ELSE h.lostCount - 1]

Checked(h, success) ==
    [history |-> Append(h.history, success),
     lostCount |-> IF success THEN h.lostCount ELSE h.lostCount + 1]

(* One turn of the loop.                                                   *)
Record(h, success) == Checked(OldestLeaves(h), success)

(* A rate is one less the share of losses.                                 *)
Rates == [lost : Int, of : Nat]

(* What an entry begins with: no loss in Python, in Go no answer.          *)
NoRate == [lost |-> 0, of |-> 0]

Share(h) == [lost |-> h.lostCount, of |-> Len(h.history)]

(* The rate of an entry when a turn has been recorded for it.              *)
Rated(h, rate) == IF Len(h.history) > Enough THEN Share(h) ELSE rate

(* The counter kept beside the queue is the number of losses in it, so the *)
(* rate computed from both is a fraction; the queue keeps its bound.       *)
CountsItsLosses(h) ==
    /\ Len(h.history) <= HistoryLen
    /\ h.lostCount = Losses(h.history)
===============================================================================
